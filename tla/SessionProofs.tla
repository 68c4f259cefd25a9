---------------------------- MODULE SessionProofs ----------------------------
(***************************************************************************)
(* Proofs about the sessions of an interpreter, for any hosts, programs,   *)
(* libraries, boxes and payloads, and about the templates it instantiates. *)
(*                                                                         *)
(* Boxes: a step on them is one or two of six elementary ones (a box is    *)
(* made, empty or not, dropped, copied or moved, a payload is deleted),    *)
(* and each keeps every count equal to the number of holders.  An          *)
(* assignment drops what the target held first, so the same lemmas apply   *)
(* to the state in between.                                                *)
(*                                                                         *)
(* Inputs: what a unit is depends only on the units before it and on sets  *)
(* that grow, the process's exports, the thread_locals that were let       *)
(* through and those that were lost.  So a later input, an Undo or a       *)
(* library leaves each unit as it was (Stays), and only the unit an input  *)
(* adds has to be looked at (Adding).                                      *)
(*                                                                         *)
(* Include paths: the entries are the additions, each path once, and the   *)
(* directories searched are the paths of the additions that existed        *)
(* (PathsInv).  The members of a choice stand in order (ChosenPlaces), so  *)
(* what is searched is found in order in whatever GetIncludePaths lists    *)
(* (LedInOrder).                                                           *)
(*                                                                         *)
(* Creation: what is made depends on the host, which stays (SameHost).     *)
(* Clang takes the last resource directory on the command line, the        *)
(* library the first of the embedder's arguments, or else of all, and puts *)
(* the one it found in front.  Where each list names one at most these are *)
(* the same (NamedLast).                                                   *)
(*                                                                         *)
(* Templates: a specialization is one that was asked for, so its arguments *)
(* were accepted.  If they are types, each is an argument that was named,  *)
(* a default or in the pack at the end (TypesOnly); shown and named again  *)
(* they are accepted and make the same (NamesIt, UnpackedIs).              *)
(***************************************************************************)
EXTENDS Session, Templates, FiniteSetTheorems, SequenceTheorems, WellFoundedInduction, TLAPS

-----------------------------------------------------------------------------
(* Boxes *)

\* Box value x shares payload p.
Names(x, p) == x # Null /\ Counted(x) /\ x.ptr = p

\* Those of the boxes bx that share p.
HoldersIn(bx, p) == {b \in BoxNames : Names(bx[b], p)}

\* The count of a payload is the number of its holders; at zero it is doomed.
CountOK(bx, counts, dying, p) ==
  /\ counts[p] = Null => HoldersIn(bx, p) = {} /\ p \notin dying
  /\ counts[p] # Null => /\ counts[p] = Cardinality(HoldersIn(bx, p))
                         /\ counts[p] = 0 <=> p \in dying

\* The types of boxes, counts and doomed payloads.
BoxTypes(bx, counts, dying) ==
  /\ bx \in [BoxNames -> BoxValues \cup {Null}]
  /\ counts \in [Payloads -> Nat \cup {Null}]
  /\ dying \subseteq Payloads

\* The counts of all payloads are exact.
BoxesOK(bx, counts, dying) ==
  BoxTypes(bx, counts, dying) /\ \A p \in Payloads : CountOK(bx, counts, dying, p)

\* The payloads that are doomed once x released its own.
Doomed(counts, dying, x) ==
  IF Counted(x) /\ counts[x.ptr] = 1 THEN dying \cup {x.ptr} ELSE dying

\* The inductive invariant of the boxes.
BoxInv == BoxesOK(box, rc, doomed)

\* What a payload's holders are decides its count; nothing else does.
LEMMA SameCount ==
  ASSUME NEW bx, NEW counts, NEW dying, NEW cx, NEW counts2, NEW dying2, NEW p,
         CountOK(bx, counts, dying, p), HoldersIn(cx, p) = HoldersIn(bx, p),
         counts2[p] = counts[p], p \in dying2 <=> p \in dying
  PROVE  CountOK(cx, counts2, dying2, p)
BY DEF CountOK

\* A payload has finitely many holders.
LEMMA HoldersFinite ==
  ASSUME NEW bx, NEW p
  PROVE  IsFiniteSet(HoldersIn(bx, p)) /\ Cardinality(HoldersIn(bx, p)) \in Nat
<1>1. HoldersIn(bx, p) \in SUBSET BoxNames
  BY DEF HoldersIn
<1>2. IsFiniteSet(HoldersIn(bx, p))
  BY <1>1, BoxesAssumption, FS_Subset
<1>. QED
  BY <1>2, FS_CardinalityType

\* A value that is counted names its payload.
LEMMA CountedNames ==
  ASSUME NEW x \in BoxValues
  PROVE  /\ x # Null
         /\ Counted(x) => x.ptr \in Payloads
         /\ \A p : Names(x, p) <=> Counted(x) /\ x.ptr = p
BY BoxesAssumption DEF BoxValues, Counted, Names

\* A box that does not share its value becomes one with a fresh payload.
LEMMA Making ==
  ASSUME NEW bx, NEW counts, NEW dying, NEW b \in BoxNames, NEW q \in Payloads,
         BoxesOK(bx, counts, dying), bx[b] = Null, counts[q] = Null
  PROVE  BoxesOK([bx EXCEPT ![b] = AdoptObject(q)], [counts EXCEPT ![q] = 1], dying)
<1>. DEFINE cx == [bx EXCEPT ![b] = AdoptObject(q)]
            counts2 == [counts EXCEPT ![q] = 1]
<1>1. AdoptObject(q) \in BoxValues /\ \A p : Names(AdoptObject(q), p) <=> p = q
  <2>1. AdoptObject(q) \in BoxValues
    BY DEF AdoptObject, BoxValues, BoxKinds
  <2>2. Counted(AdoptObject(q)) /\ AdoptObject(q).ptr = q
    BY BoxesAssumption DEF AdoptObject, Counted
  <2>. QED
    BY <2>1, <2>2, CountedNames
<1>2. BoxTypes(cx, counts2, dying)
  BY <1>1 DEF BoxesOK, BoxTypes
<1>3. ASSUME NEW p \in Payloads PROVE CountOK(cx, counts2, dying, p)
  <2>1. CASE p = q
    <3>1. HoldersIn(bx, p) = {} /\ p \notin dying
      BY <2>1 DEF BoxesOK, CountOK
    <3>2. HoldersIn(cx, p) = {b}
      BY <1>1, <2>1, <3>1 DEF HoldersIn, BoxesOK, BoxTypes
    <3>3. counts2[p] = 1
      BY <2>1 DEF BoxesOK, BoxTypes
    <3>4. Cardinality(HoldersIn(cx, p)) = 1
      BY <3>2, FS_Singleton
    <3>5. 1 \in Nat /\ 1 # Null
      BY BoxesAssumption
    <3>. QED
      BY <3>1, <3>3, <3>4, <3>5 DEF CountOK
  <2>2. CASE p # q
    <3>1. HoldersIn(cx, p) = HoldersIn(bx, p)
      BY <1>1, <2>2 DEF HoldersIn, BoxesOK, BoxTypes, Names
    <3>2. counts2[p] = counts[p] /\ CountOK(bx, counts, dying, p)
      BY <2>2 DEF BoxesOK, BoxTypes
    <3>. HIDE DEF cx, counts2
    <3>. QED
      BY <3>1, <3>2, SameCount
  <2>. QED
    BY <2>1, <2>2
<1>. QED
  BY <1>2, <1>3 DEF BoxesOK

\* An empty box becomes one that shares nothing.
LEMMA MakingPlain ==
  ASSUME NEW bx, NEW counts, NEW dying, NEW b \in BoxNames, NEW x \in BoxValues,
         BoxesOK(bx, counts, dying), bx[b] = Null, ~Counted(x)
  PROVE  BoxesOK([bx EXCEPT ![b] = x], counts, dying)
<1>. DEFINE cx == [bx EXCEPT ![b] = x]
<1>1. BoxTypes(cx, counts, dying)
  BY DEF BoxesOK, BoxTypes
<1>2. ASSUME NEW p \in Payloads PROVE CountOK(cx, counts, dying, p)
  <2>1. HoldersIn(cx, p) = HoldersIn(bx, p)
    BY DEF HoldersIn, BoxesOK, BoxTypes, Names
  <2>. QED
    BY <2>1, SameCount DEF BoxesOK
<1>. QED
  BY <1>1, <1>2 DEF BoxesOK

\* A box dies and releases its payload.
LEMMA Dropping ==
  ASSUME NEW bx, NEW counts, NEW dying, NEW b \in BoxNames,
         BoxesOK(bx, counts, dying), bx[b] # Null
  PROVE  BoxesOK([bx EXCEPT ![b] = Null], release(counts, bx[b]), Doomed(counts, dying, bx[b]))
<1>. DEFINE x == bx[b]
            cx == [bx EXCEPT ![b] = Null]
            counts2 == release(counts, x)
            dying2 == Doomed(counts, dying, x)
<1>1. x \in BoxValues
  BY DEF BoxesOK, BoxTypes
<1>2. \A p \in Payloads : Names(x, p) => b \in HoldersIn(bx, p)
  BY DEF HoldersIn
<1>3. \A p \in Payloads : HoldersIn(cx, p) = HoldersIn(bx, p) \ {b}
  BY DEF HoldersIn, BoxesOK, BoxTypes, Names
<1>4. ASSUME NEW p \in Payloads, Names(x, p)
      PROVE  /\ counts[p] \in Nat /\ counts[p] > 0 /\ p \notin dying
             /\ counts[p] = Cardinality(HoldersIn(bx, p))
             /\ Cardinality(HoldersIn(cx, p)) = counts[p] - 1
  <2>1. counts[p] # Null /\ counts[p] = Cardinality(HoldersIn(bx, p)) /\ (counts[p] = 0 <=> p \in dying)
    BY <1>2, <1>4 DEF BoxesOK, CountOK
  <2>2. Cardinality(HoldersIn(bx, p)) \in Nat /\ Cardinality(HoldersIn(bx, p)) # 0
    BY <1>2, <1>4, HoldersFinite, FS_EmptySet
  <2>3. Cardinality(HoldersIn(bx, p) \ {b}) = Cardinality(HoldersIn(bx, p)) - 1
    BY <1>2, <1>4, HoldersFinite, FS_RemoveElement
  <2>4. Cardinality(HoldersIn(cx, p)) = counts[p] - 1
    BY <1>3, <2>1, <2>3
  <2>5. counts[p] \in Nat /\ counts[p] # 0
    BY <2>1, <2>2
  <2>. QED
    BY <2>1, <2>4, <2>5
<1>5. BoxTypes(cx, counts2, dying2)
  <2>1. cx \in [BoxNames -> BoxValues \cup {Null}]
    BY DEF BoxesOK, BoxTypes
  <2>2. counts2 \in [Payloads -> Nat \cup {Null}] /\ dying2 \subseteq Payloads
    <3>1. CASE Counted(x)
      <4>1. x.ptr \in Payloads /\ Names(x, x.ptr)
        BY <1>1, <3>1, CountedNames
      <4>2. counts[x.ptr] - 1 \in Nat
        BY <1>4, <4>1
      <4>. QED
        BY <4>1, <4>2 DEF release, Doomed, BoxesOK, BoxTypes
    <3>2. CASE ~Counted(x)
      BY <3>2 DEF release, Doomed, BoxesOK, BoxTypes
    <3>. QED
      BY <3>1, <3>2
  <2>. QED
    BY <2>1, <2>2 DEF BoxTypes
<1>6. ASSUME NEW p \in Payloads PROVE CountOK(cx, counts2, dying2, p)
  <2>1. CASE Names(x, p)
    <3>1. Counted(x) /\ x.ptr = p
      BY <2>1 DEF Names
    <3>2. counts[p] \in Nat /\ counts[p] > 0 /\ counts[p] # Null
      BY <1>4, <2>1, BoxesAssumption
    <3>3. counts2[p] = counts[p] - 1
      BY <3>1, <3>2 DEF release, BoxesOK, BoxTypes
    <3>4. p \in dying2 <=> counts[p] = 1
      BY <1>4, <2>1, <3>1 DEF Doomed
    <3>5. counts2[p] = Cardinality(HoldersIn(cx, p))
      BY <1>4, <2>1, <3>3
    <3>6. counts2[p] = 0 <=> p \in dying2
      BY <3>2, <3>3, <3>4
    <3>7. counts2[p] # Null
      BY <3>2, <3>3, BoxesAssumption
    <3>. QED
      BY <3>5, <3>6, <3>7 DEF CountOK
  <2>2. CASE ~Names(x, p)
    <3>1. ~(Counted(x) /\ x.ptr = p)
      BY <1>1, <2>2, CountedNames
    <3>2. counts2[p] = counts[p] /\ (p \in dying2 <=> p \in dying)
      BY <3>1 DEF release, Doomed, BoxesOK, BoxTypes
    <3>3. HoldersIn(cx, p) = HoldersIn(bx, p)
      BY <1>3, <2>2 DEF HoldersIn
    <3>. QED
      BY <3>2, <3>3, SameCount DEF BoxesOK
  <2>. QED
    BY <2>1, <2>2
<1>. QED
  BY <1>5, <1>6 DEF BoxesOK

\* An empty box becomes a copy of another and retains its payload.
LEMMA Copying ==
  ASSUME NEW bx, NEW counts, NEW dying, NEW b \in BoxNames, NEW o \in BoxNames,
         BoxesOK(bx, counts, dying), bx[b] = Null, bx[o] # Null
  PROVE  BoxesOK([bx EXCEPT ![b] = bx[o]], retain(counts, bx[o]), dying)
<1>. DEFINE x == bx[o]
            cx == [bx EXCEPT ![b] = x]
            counts2 == retain(counts, x)
<1>1. x \in BoxValues /\ b # o
  BY DEF BoxesOK, BoxTypes
<1>2. \A p \in Payloads : b \notin HoldersIn(bx, p) /\ (Names(x, p) => o \in HoldersIn(bx, p))
  BY DEF HoldersIn, Names
<1>3. \A p \in Payloads :
        HoldersIn(cx, p) = IF Names(x, p) THEN HoldersIn(bx, p) \cup {b} ELSE HoldersIn(bx, p)
  BY <1>2 DEF HoldersIn, BoxesOK, BoxTypes
<1>4. ASSUME NEW p \in Payloads, Names(x, p)
      PROVE  /\ counts[p] \in Nat /\ counts[p] # 0 /\ counts[p] # Null /\ p \notin dying
             /\ Cardinality(HoldersIn(cx, p)) = counts[p] + 1
  <2>1. counts[p] # Null /\ counts[p] = Cardinality(HoldersIn(bx, p)) /\ (counts[p] = 0 <=> p \in dying)
    BY <1>2, <1>4 DEF BoxesOK, CountOK
  <2>2. Cardinality(HoldersIn(bx, p)) \in Nat /\ Cardinality(HoldersIn(bx, p)) # 0
    BY <1>2, <1>4, HoldersFinite, FS_EmptySet
  <2>3. Cardinality(HoldersIn(bx, p) \cup {b}) = Cardinality(HoldersIn(bx, p)) + 1
    BY <1>2, HoldersFinite, FS_AddElement
  <2>. QED
    BY <1>3, <1>4, <2>1, <2>2, <2>3
<1>5. BoxTypes(cx, counts2, dying)
  <2>1. cx \in [BoxNames -> BoxValues \cup {Null}]
    BY DEF BoxesOK, BoxTypes
  <2>2. counts2 \in [Payloads -> Nat \cup {Null}]
    <3>1. CASE Counted(x)
      <4>1. x.ptr \in Payloads /\ Names(x, x.ptr)
        BY <1>1, <3>1, CountedNames
      <4>2. counts[x.ptr] + 1 \in Nat
        BY <1>4, <4>1
      <4>. QED
        BY <4>1, <4>2 DEF retain, BoxesOK, BoxTypes
    <3>2. CASE ~Counted(x)
      BY <3>2 DEF retain, BoxesOK, BoxTypes
    <3>. QED
      BY <3>1, <3>2
  <2>. QED
    BY <2>1, <2>2 DEF BoxTypes, BoxesOK
<1>6. ASSUME NEW p \in Payloads PROVE CountOK(cx, counts2, dying, p)
  <2>1. CASE Names(x, p)
    <3>1. Counted(x) /\ x.ptr = p
      BY <2>1 DEF Names
    <3>2. counts2[p] = counts[p] + 1
      BY <1>4, <2>1, <3>1 DEF retain, BoxesOK, BoxTypes
    <3>3. counts2[p] \in Nat /\ counts2[p] # 0 /\ p \notin dying
      BY <1>4, <2>1, <3>2
    <3>. QED
      BY <1>4, <2>1, <3>2, <3>3, BoxesAssumption DEF CountOK
  <2>2. CASE ~Names(x, p)
    <3>1. ~(Counted(x) /\ x.ptr = p)
      BY <1>1, <2>2, CountedNames
    <3>2. counts2[p] = counts[p]
      BY <3>1 DEF retain, BoxesOK, BoxTypes
    <3>. QED
      BY <1>3, <2>2, <3>2, SameCount DEF BoxesOK
  <2>. QED
    BY <2>1, <2>2
<1>. QED
  BY <1>5, <1>6 DEF BoxesOK

\* An empty box takes over what another held.
LEMMA Moving ==
  ASSUME NEW bx, NEW counts, NEW dying, NEW b \in BoxNames, NEW o \in BoxNames, NEW y \in BoxValues,
         BoxesOK(bx, counts, dying), bx[b] = Null, bx[o] # Null, ~Counted(y)
  PROVE  BoxesOK([bx EXCEPT ![b] = bx[o], ![o] = y], counts, dying)
<1>. DEFINE x == bx[o]
            cx == [bx EXCEPT ![b] = x, ![o] = y]
<1>1. x \in BoxValues /\ b # o
  BY DEF BoxesOK, BoxTypes
<1>2. BoxTypes(cx, counts, dying)
  BY <1>1 DEF BoxesOK, BoxTypes
<1>3. cx[b] = x /\ cx[o] = y /\ \A c \in BoxNames \ {b, o} : cx[c] = bx[c]
  BY <1>1 DEF BoxesOK, BoxTypes
<1>4. \A p : ~Names(y, p) /\ ~Names(Null, p)
  BY DEF Names
<1>5. ASSUME NEW p \in Payloads PROVE CountOK(cx, counts, dying, p)
  <2>1. CASE Names(x, p)
    <3>1. o \in HoldersIn(bx, p) /\ b \notin HoldersIn(bx, p)
      BY <1>4, <2>1 DEF HoldersIn
    <3>2. HoldersIn(cx, p) = (HoldersIn(bx, p) \ {o}) \cup {b}
      BY <1>1, <1>3, <1>4, <2>1 DEF HoldersIn
    <3>3. /\ IsFiniteSet(HoldersIn(bx, p) \ {o})
          /\ Cardinality(HoldersIn(bx, p) \ {o}) = Cardinality(HoldersIn(bx, p)) - 1
      BY <3>1, HoldersFinite, FS_RemoveElement
    <3>4. Cardinality(HoldersIn(cx, p)) = Cardinality(HoldersIn(bx, p) \ {o}) + 1
      BY <3>1, <3>2, <3>3, FS_AddElement
    <3>5. Cardinality(HoldersIn(cx, p)) = Cardinality(HoldersIn(bx, p))
      BY <3>3, <3>4, HoldersFinite
    <3>. QED
      BY <3>1, <3>5 DEF BoxesOK, CountOK
  <2>2. CASE ~Names(x, p)
    <3>1. HoldersIn(cx, p) = HoldersIn(bx, p)
      BY <1>3, <1>4, <2>2 DEF HoldersIn
    <3>. QED
      BY <3>1, SameCount DEF BoxesOK
  <2>. QED
    BY <2>1, <2>2
<1>. QED
  BY <1>2, <1>5 DEF BoxesOK

\* A doomed payload has no holders left; it goes.
LEMMA Deleting ==
  ASSUME NEW bx, NEW counts, NEW dying, NEW q \in Payloads,
         BoxesOK(bx, counts, dying), q \in dying
  PROVE  BoxesOK(bx, [counts EXCEPT ![q] = Null], dying \ {q})
<1>. DEFINE counts2 == [counts EXCEPT ![q] = Null]
<1>1. BoxTypes(bx, counts2, dying \ {q})
  BY DEF BoxesOK, BoxTypes
<1>2. HoldersIn(bx, q) = {}
  <2>1. Cardinality(HoldersIn(bx, q)) = 0
    BY DEF BoxesOK, CountOK
  <2>. QED
    BY <2>1, HoldersFinite, FS_EmptySet
<1>3. ASSUME NEW p \in Payloads PROVE CountOK(bx, counts2, dying \ {q}, p)
  <2>1. CASE p = q
    BY <1>2, <2>1 DEF CountOK, BoxesOK, BoxTypes
  <2>2. CASE p # q
    <3>1. counts2[p] = counts[p] /\ (p \in dying \ {q} <=> p \in dying)
      BY <2>2 DEF BoxesOK, BoxTypes
    <3>. QED
      BY <3>1, SameCount DEF BoxesOK
  <2>. QED
    BY <2>1, <2>2
<1>. QED
  BY <1>1, <1>3 DEF BoxesOK

-----------------------------------------------------------------------------
(* The client's operations on boxes *)

\* A box that was moved from shares nothing.
LEMMA MovedFromPlain ==
  ASSUME NEW o \in BoxNames, BoxInv, Live(o)
  PROVE  MovedFrom(o) \in BoxValues /\ ~Counted(MovedFrom(o))
<1>1. box[o] \in BoxValues
  BY DEF BoxInv, BoxesOK, BoxTypes, Live
<1>2. MovedFrom(o) = [kind |-> "Unspecified", ptr |-> box[o].ptr]
  BY <1>1 DEF MovedFrom, BoxValues
<1>. QED
  BY <1>1, <1>2 DEF BoxValues, BoxKinds, Counted

\* What Released says of the doomed payloads.
LEMMA ReleasedIsDoomed ==
  ASSUME NEW counts, NEW x
  PROVE  Released(counts, x) = Doomed(counts, doomed, x)
BY DEF Released, Doomed

\* Box(const Box &) copies the value and retains the payload.
LEMMA CopyConstructBoxes ==
  ASSUME NEW b \in BoxNames, NEW o \in BoxNames, BoxInv, CopyConstruct(b, o)
  PROVE  BoxInv'
BY Copying DEF BoxInv, CopyConstruct, Live

\* The copy assignment releases what the target held, then shares the other's.
LEMMA CopyAssignBoxes ==
  ASSUME NEW b \in BoxNames, NEW o \in BoxNames, BoxInv, CopyAssign(b, o)
  PROVE  BoxInv'
<1>1. CASE b = o
  BY <1>1 DEF BoxInv, CopyAssign, boxVars
<1>2. CASE b # o
  <2>. DEFINE bx == [box EXCEPT ![b] = Null]
              counts == release(rc, box[b])
              dying == Doomed(rc, doomed, box[b])
  <2>1. /\ box' = [box EXCEPT ![b] = box[o]]
        /\ rc' = retain(counts, box[o]) /\ doomed' = dying
        /\ box[b] # Null /\ box[o] # Null
    BY <1>2, ReleasedIsDoomed DEF CopyAssign, Live
  <2>2. BoxesOK(bx, counts, dying)
    BY <2>1, Dropping DEF BoxInv
  <2>3. bx[b] = Null /\ bx[o] = box[o] /\ [bx EXCEPT ![b] = bx[o]] = [box EXCEPT ![b] = box[o]]
    BY <1>2 DEF BoxInv, BoxesOK, BoxTypes
  <2>. HIDE DEF bx, counts, dying
  <2>4. BoxesOK([bx EXCEPT ![b] = bx[o]], retain(counts, bx[o]), dying)
    BY <2>1, <2>2, <2>3, Copying
  <2>. QED
    BY <2>1, <2>3, <2>4 DEF BoxInv
<1>. QED
  BY <1>1, <1>2

\* Box(Box &&) takes the value over and leaves the other with none.
LEMMA MoveConstructBoxes ==
  ASSUME NEW b \in BoxNames, NEW o \in BoxNames, BoxInv, MoveConstruct(b, o)
  PROVE  BoxInv'
<1>1. MovedFrom(o) \in BoxValues /\ ~Counted(MovedFrom(o))
  BY MovedFromPlain DEF MoveConstruct
<1>2. BoxesOK([box EXCEPT ![b] = box[o], ![o] = MovedFrom(o)], rc, doomed)
  BY <1>1, Moving DEF BoxInv, MoveConstruct, Live
<1>. QED
  BY <1>2 DEF BoxInv, MoveConstruct

\* The move assignment releases what the target held, then takes over.
LEMMA MoveAssignBoxes ==
  ASSUME NEW b \in BoxNames, NEW o \in BoxNames, BoxInv, MoveAssign(b, o)
  PROVE  BoxInv'
<1>1. CASE b = o
  BY <1>1 DEF BoxInv, MoveAssign, boxVars
<1>2. CASE b # o
  <2>. DEFINE bx == [box EXCEPT ![b] = Null]
              y == MovedFrom(o)
              counts == release(rc, box[b])
              dying == Doomed(rc, doomed, box[b])
  <2>1. /\ box' = [box EXCEPT ![b] = box[o], ![o] = y]
        /\ rc' = counts /\ doomed' = dying
        /\ box[b] # Null /\ box[o] # Null
    BY <1>2, ReleasedIsDoomed DEF MoveAssign, Live
  <2>2. BoxesOK(bx, counts, dying)
    BY <2>1, Dropping DEF BoxInv
  <2>3. y \in BoxValues /\ ~Counted(y)
    BY MovedFromPlain DEF MoveAssign
  <2>. HIDE DEF y
  <2>4. /\ bx[b] = Null /\ bx[o] = box[o]
        /\ [bx EXCEPT ![b] = bx[o], ![o] = y] = [box EXCEPT ![b] = box[o], ![o] = y]
    BY <1>2 DEF BoxInv, BoxesOK, BoxTypes
  <2>. HIDE DEF bx, counts, dying
  <2>5. BoxesOK([bx EXCEPT ![b] = bx[o], ![o] = y], counts, dying)
    BY <2>1, <2>2, <2>3, <2>4, Moving
  <2>. QED
    BY <2>1, <2>4, <2>5 DEF BoxInv
<1>. QED
  BY <1>1, <1>2

\* ~Box releases the payload.
LEMMA DestroyBoxes ==
  ASSUME NEW b \in BoxNames, BoxInv, Destroy(b)
  PROVE  BoxInv'
BY Dropping, ReleasedIsDoomed DEF BoxInv, Destroy, Live

\* A payload that was released for the last time is deleted.
LEMMA DeleteBoxes ==
  ASSUME NEW p \in Payloads, BoxInv, Delete(p)
  PROVE  BoxInv'
BY Deleting DEF BoxInv, Delete

\* The box that receives an evaluated value was dead, and so was its payload.
LEMMA EvaluateBoxes ==
  ASSUME NEW code, NEW b \in BoxNames, NEW p \in Payloads, BoxInv, Evaluate(code, b, p)
  PROVE  BoxInv'
<1>. DEFINE kind == classifyByQualType(Code[code].value)
<1>1. CASE MakePlainBox(b, Unspecified)
  <2>1. Unspecified \in BoxValues /\ ~Counted(Unspecified)
    BY DEF Unspecified, BoxValues, BoxKinds, Counted
  <2>. QED
    BY <1>1, <2>1, MakingPlain DEF BoxInv, MakePlainBox, Live
<1>2. CASE MakeValueBox(b, p)
  BY <1>2, Making DEF BoxInv, MakeValueBox, Live
<1>3. CASE kind # "PtrOrObj" /\ MakePlainBox(b, Create(kind))
  <2>1. kind \in BoxKinds
    BY <1>3 DEF classifyByQualType, BoxKinds, BuiltinKinds
  <2>. HIDE DEF kind
  <2>2. Create(kind) \in BoxValues /\ ~Counted(Create(kind))
    BY <1>3, <2>1 DEF Create, BoxValues, Counted
  <2>. QED
    BY <1>3, <2>2, MakingPlain DEF BoxInv, MakePlainBox, Live
<1>. QED
  BY <1>1, <1>2, <1>3 DEF Evaluate

\* A step on inputs or paths leaves the boxes alone.
LEMMA BoxesKept == ASSUME BoxInv, UNCHANGED boxVars PROVE BoxInv'
BY DEF BoxInv, boxVars

\* No box is alive to begin with.
LEMMA BoxInvInit == Init => BoxInv
<1>. SUFFICES ASSUME BoxesInit PROVE BoxInv
  BY DEF Init
<1>1. BoxTypes(box, rc, doomed)
  BY DEF BoxesInit, BoxTypes
<1>2. ASSUME NEW p \in Payloads PROVE CountOK(box, rc, doomed, p)
  BY DEF BoxesInit, CountOK, HoldersIn, Names
<1>. QED
  BY <1>1, <1>2 DEF BoxInv, BoxesOK

\* Every step of a session keeps the counts.
LEMMA BoxInvStep == BoxInv /\ [Next]_vars => BoxInv'
<1>. SUFFICES ASSUME BoxInv, [Next]_vars PROVE BoxInv'
  OBVIOUS
<1>1. CASE UNCHANGED vars
  BY <1>1, BoxesKept DEF vars
<1>2. CASE Created \/ CreationFails
  BY <1>2, BoxesKept DEF Created, CreationFails, vars
<1>3. ASSUME NEW code \in Codes,
             \/ Process(code)
             \/ \E silent \in BOOLEAN : DeclareCode(code, silent)
             \/ MakeWrapper(code)
             \/ \E b \in BoxNames, p \in Payloads : Evaluate(code, b, p)
      PROVE  BoxInv'
  BY <1>3, BoxesKept, EvaluateBoxes DEF Process, DeclareCode, MakeWrapper
<1>4. CASE \/ GetAddress
           \/ \E n \in 1 .. 2 : UndoInputs(n)
           \/ \E symbols \in Libraries : Load(symbols)
  BY <1>4, BoxesKept DEF GetAddress, UndoInputs, Load
<1>5. CASE \E dir \in Directories : OnPaths(AddIncludePath(dir)) \/ OnPaths(MakeDirectory(dir))
  BY <1>5, BoxesKept DEF OnPaths
<1>6. ASSUME NEW b \in BoxNames, NEW o \in BoxNames,
             \/ OnBoxes(CopyConstruct(b, o)) \/ OnBoxes(CopyAssign(b, o))
             \/ OnBoxes(MoveConstruct(b, o)) \/ OnBoxes(MoveAssign(b, o))
      PROVE  BoxInv'
  BY <1>6, CopyConstructBoxes, CopyAssignBoxes, MoveConstructBoxes, MoveAssignBoxes DEF OnBoxes
<1>7. CASE \/ \E b \in BoxNames : OnBoxes(Destroy(b))
           \/ \E p \in Payloads : OnBoxes(Delete(p))
  BY <1>7, DestroyBoxes, DeleteBoxes DEF OnBoxes
<1>. QED
  BY <1>1, <1>2, <1>3, <1>4, <1>5, <1>6, <1>7 DEF Next

\* The count of a payload is the number of boxes that share it, whatever is
\* copied, moved, assigned and destroyed: a payload is deleted exactly when
\* the last of them is gone (Box::retain, Box::release and the operators
\* built on them).
THEOREM SessionBoxes == Spec => []BoxCountExact
<1>1. BoxInv => BoxCountExact
  BY DEF BoxInv, BoxesOK, CountOK, BoxCountExact, HoldersIn, Holders, Names, Live
<1>. QED
  BY <1>1, BoxInvInit, BoxInvStep, PTL DEF Spec

-----------------------------------------------------------------------------
(* Inputs *)

\* A program's symbols, and what they are.
Symbols == DOMAIN Program.globals
ThreadLocal(s) == Program.globals[s].threadLocal
Constant(s) == Program.globals[s].constant
GuardOf(s) == Program.globals[s].guard
HasGuard(s) == GuardOf(s) \in Symbols
IsAGuard(s) == \E v \in Symbols : GuardOf(v) = s

\* A set of symbols with every variable's guard, and with the variables of its guards.
Whole(D) ==
  D \subseteq Symbols /\ \A s \in Symbols : HasGuard(s) => (s \in D <=> GuardOf(s) \in D)

\* The variables that the process has, with their guards, and those and the guards.
MovesItself(s, ex) ==
  /\ ~ThreadLocal(s) /\ ~Constant(s) /\ ~IsAGuard(s)
  /\ s \in ex /\ (HasGuard(s) => GuardOf(s) \in ex)
\* So can a guard, with its variable.
Moves(s, ex) ==
  MovesItself(s, ex) \/ \E v \in Symbols : GuardOf(v) = s /\ MovesItself(v, ex)

\* What the passes make of a definition of s.
Given(s, inProcess, ex, dd) ==
  IF inProcess /\ Moves(s, ex) THEN "external" ELSE IF s \in dd THEN "available" ELSE "weak"

\* The fields of a unit and their types.
Linkages == UNION {[D -> {"weak", "available", "external"}] : D \in SUBSET Symbols}
Bounds == UNION {[D -> {"unit", "process", "nowhere"} \X Nat] : D \in SUBSET Symbols}
Units == [via : {"passes", "evaluate"}, linkage : Linkages, bound : Bounds,
          ran : BOOLEAN, had : SUBSET Symbols]

\* Unit k of the units p gives the JIT a definition of s.
Weak(p, k, s) == p[k].ran /\ s \in DOMAIN p[k].linkage /\ p[k].linkage[s] = "weak"

\* The first of the units to define s.
Earliest(p, k, s) == Weak(p, k, s) /\ \A j \in 1 .. k - 1 : ~Weak(p, j, s)
NoneBefore(p, i, s) == \A j \in 1 .. i - 1 : ~Weak(p, j, s)

\* A unit has whole variables and runs if every symbol is bound.
UnitForm(p, i) ==
  /\ Whole(DOMAIN p[i].linkage) /\ DOMAIN p[i].bound = DOMAIN p[i].linkage
  /\ p[i].ran <=> \A s \in DOMAIN p[i].linkage : p[i].bound[s][1] # "nowhere"

\* A symbol's linkage is what the passes make of it.
LinkageOK(p, i, s, ex, dd, inProcess) ==
  /\ p[i].linkage[s] \in {"weak", "available", "external"}
  /\ p[i].linkage[s] = "external" => p[i].via = "passes" /\ inProcess /\ Moves(s, ex)
  /\ p[i].linkage[s] = "available" => p[i].via = "passes" /\ ThreadLocal(s)
  /\ p[i].linkage[s] = "weak" /\ ThreadLocal(s) /\ p[i].via = "passes" => s \in dd
  /\ HasGuard(s) => p[i].linkage[GuardOf(s)] = p[i].linkage[s]

\* What the passes once did to a symbol they do again, and a thread_local they
\* let through is the last.
AfterOK(p, i, s) ==
  \A k \in 1 .. i - 1 :
    s \in DOMAIN p[k].linkage /\ p[k].via = "passes" /\ p[i].via = "passes" =>
      /\ p[k].linkage[s] = "external" => p[i].linkage[s] = "external"
      /\ ThreadLocal(s) /\ p[k].linkage[s] = "weak" => p[i].linkage[s] # "weak"

\* The earliest definition is the one that is used.
BoundOK(p, i, s) ==
  \/ \E k \in 1 .. i - 1 : Earliest(p, k, s) /\ p[i].bound[s] = <<"unit", k>>
  \/ /\ NoneBefore(p, i, s)
     /\ \/ p[i].linkage[s] = "weak" /\ p[i].bound[s] = <<"unit", i>>
        \/ p[i].linkage[s] = "external" /\ p[i].bound[s] = <<"process", 0>>
        \/ p[i].linkage[s] = "available" /\ p[i].bound[s] = <<"nowhere", 0>>

\* A variable a unit binds to itself was not defined before.
HadOK(p, i, s) ==
  (p[i].bound[s] = <<"unit", i>> /\ ~ThreadLocal(s) /\ ~Constant(s) /\ ~IsAGuard(s))
    => ~({s} \cup ({GuardOf(s)} \cap DOMAIN p[i].linkage) \subseteq p[i].had)

\* A symbol bound nowhere was undone.
MissingOK(p, i, s, un) == p[i].bound[s][1] = "nowhere" => s \in un

\* All of a unit.
UnitOK(p, i, ex, dd, un, inProcess) ==
  /\ UnitForm(p, i)
  /\ \A s \in DOMAIN p[i].linkage :
       /\ LinkageOK(p, i, s, ex, dd, inProcess)
       /\ AfterOK(p, i, s)
       /\ BoundOK(p, i, s)
       /\ HadOK(p, i, s)
       /\ MissingOK(p, i, s, un)

\* A thread_local that was let through is still there, or taken back.
InputsOK(p, ex, dd, un, inProcess) ==
  /\ p \in Seq(Units)
  /\ ex \subseteq {s \in Symbols : ~ThreadLocal(s)}
  /\ dd \subseteq {s \in Symbols : ThreadLocal(s)} /\ Whole(dd)
  /\ \A s \in dd : s \in un \/ \E k \in 1 .. Len(p) : Weak(p, k, s)
  /\ \A i \in 1 .. Len(p) : UnitOK(p, i, ex, dd, un, inProcess)

\* The inductive invariant of the units.
InputInv ==
  /\ Globals = Program.globals /\ Code = Program.code
  /\ ~misreported
  /\ ~interp.made => ptus = <<>> /\ DedupedWeakTLS = {}
  /\ InputsOK(ptus, exports, DedupedWeakTLS, undone, InProcess)

\* A set of naturals that is not empty has a least member.
LEMMA Least == ASSUME NEW S \in SUBSET Nat, S # {} PROVE \E x \in S : \A y \in S : x <= y
<1>1. IsWellFoundedOn({ss \in Nat \X Nat : ss[1] < ss[2]}, Nat)
  BY NatLessThanWellFounded DEF OpToRel
<1>2. PICK x \in S : \A y \in S : <<y, x>> \notin {ss \in Nat \X Nat : ss[1] < ss[2]}
  BY <1>1, WFMin
<1>3. ASSUME NEW y \in S PROVE x <= y
  <2>1. <<y, x>> \in Nat \X Nat /\ <<y, x>>[1] = y /\ <<y, x>>[2] = x
    OBVIOUS
  <2>2. ~ (y < x)
    BY <1>2, <2>1
  <2>. QED
    BY <2>2
<1>. QED
  BY <1>3

\* What the program's assumption says of guards.
LEMMA Guarded ==
  ASSUME NEW v \in Symbols, HasGuard(v)
  PROVE  /\ \A w \in Symbols : GuardOf(w) = GuardOf(v) => w = v
         /\ ~HasGuard(GuardOf(v)) /\ ~IsAGuard(v) /\ IsAGuard(GuardOf(v))
         /\ ThreadLocal(v) <=> ThreadLocal(GuardOf(v))
BY ProgramAssumption DEF Symbols, HasGuard, GuardOf, IsAGuard, ThreadLocal

\* An input defines a variable and its guard or neither.
LEMMA InputWhole ==
  ASSUME NEW c \in DOMAIN Program.code
  PROVE  Whole(Program.code[c].defines)
BY ProgramAssumption DEF Whole, Symbols, HasGuard, GuardOf

\* What the second pass moves to the process is exported, no thread_local,
\* and comes with the guard it is moved with.
LEMMA MovesFacts ==
  ASSUME NEW s \in Symbols, NEW ex
  PROVE  /\ Moves(s, ex) => s \in ex /\ ~ThreadLocal(s)
         /\ HasGuard(s) => (Moves(s, ex) <=> Moves(GuardOf(s), ex))
         /\ \A ex2 : ex \subseteq ex2 /\ Moves(s, ex) => Moves(s, ex2)
<1>1. ASSUME Moves(s, ex) PROVE s \in ex /\ ~ThreadLocal(s)
  BY <1>1, Guarded DEF Moves, MovesItself, HasGuard
<1>2. ASSUME HasGuard(s) PROVE Moves(s, ex) <=> Moves(GuardOf(s), ex)
  BY <1>2, Guarded DEF Moves, MovesItself, IsAGuard
<1>3. ASSUME NEW ex2, ex \subseteq ex2, Moves(s, ex) PROVE Moves(s, ex2)
  BY <1>3 DEF Moves, MovesItself
<1>. QED
  BY <1>1, <1>2, <1>3

\* The second pass moves the data it may move, with their guards.
LEMMA BindGives ==
  ASSUME NEW m, Whole(DOMAIN m), Globals = Program.globals
  PROVE  LET demoted == {s \in DOMAIN m : MovesItself(s, exports)}
             moved == demoted \cup UNION {{GuardOf(s)} \cap DOMAIN m : s \in demoted}
         IN  bindProcessWeakGlobals(m)
               = [s \in DOMAIN m |-> IF s \in moved THEN "external" ELSE m[s]]
<1>. DEFINE data == {s \in DOMAIN m : /\ ~Globals[s].threadLocal /\ ~Globals[s].constant
                                      /\ ~IsGuard(s)
                                      /\ s \in exports
                                      /\ {Globals[s].guard} \cap DOMAIN m \subseteq exports}
            moved == data \cup UNION {{Globals[s].guard} \cap DOMAIN m : s \in data}
<1>1. \A s \in DOMAIN m : IsGuard(s) <=> IsAGuard(s)
  BY DEF IsGuard, IsAGuard, GuardOf, Symbols
<1>2. \A s \in DOMAIN m : (HasGuard(s) => GuardOf(s) \in exports)
                             <=> {GuardOf(s)} \cap DOMAIN m \subseteq exports
  BY DEF Whole, HasGuard
<1>3. data = {s \in DOMAIN m : MovesItself(s, exports)}
  BY <1>1, <1>2 DEF MovesItself, ThreadLocal, Constant, GuardOf
<1>4. bindProcessWeakGlobals(m) = [s \in DOMAIN m |-> IF s \in moved THEN "external" ELSE m[s]]
  BY DEF bindProcessWeakGlobals
<1>. HIDE DEF data
<1>. QED
  BY <1>3, <1>4 DEF GuardOf

\* Both passes on a module with a whole set of definitions.
LEMMA PassesGive ==
  ASSUME NEW D, Whole(D), Globals = Program.globals,
         DedupedWeakTLS \subseteq {s \in Symbols : ThreadLocal(s)}
  PROVE  LET first == dedupeWeakEmulatedTLS([s \in D |-> "weak"]) IN
         /\ first.defined = DedupedWeakTLS \cup {s \in D : ThreadLocal(s)}
         /\ first.module = [s \in D |-> Given(s, FALSE, exports, DedupedWeakTLS)]
         /\ bindProcessWeakGlobals(first.module)
              = [s \in D |-> Given(s, TRUE, exports, DedupedWeakTLS)]
<1>. DEFINE first == dedupeWeakEmulatedTLS([s \in D |-> "weak"])
            m == [s \in D |-> Given(s, FALSE, exports, DedupedWeakTLS)]
<1>1. first.defined = DedupedWeakTLS \cup {s \in D : ThreadLocal(s)}
  BY DEF dedupeWeakEmulatedTLS, ThreadLocal
<1>2. first.module = m
  BY DEF dedupeWeakEmulatedTLS, ThreadLocal, Given, Whole
<1>3. bindProcessWeakGlobals(m) = [s \in D |-> Given(s, TRUE, exports, DedupedWeakTLS)]
  <2>. DEFINE demoted == {s \in D : MovesItself(s, exports)}
              moved == demoted \cup UNION {{GuardOf(s)} \cap D : s \in demoted}
  <2>1. DOMAIN m = D /\ \A s \in D : m[s] = Given(s, FALSE, exports, DedupedWeakTLS)
    OBVIOUS
  <2>. HIDE DEF m
  <2>4. bindProcessWeakGlobals(m) = [s \in D |-> IF s \in moved THEN "external" ELSE m[s]]
    BY <2>1, BindGives
  <2>7. ASSUME NEW s \in D PROVE s \in moved <=> Moves(s, exports)
    BY DEF Moves, Whole, HasGuard
  <2>8. \A s \in D : (IF s \in moved THEN "external" ELSE m[s])
                       = Given(s, TRUE, exports, DedupedWeakTLS)
    BY <2>1, <2>7 DEF Given
  <2>. HIDE DEF moved
  <2>. QED
    BY <2>4, <2>8
<1>. QED
  BY <1>1, <1>2, <1>3

\* A unit is what it was after later inputs, Undo of later ones and libraries.
LEMMA Stays ==
  ASSUME NEW p, NEW q, NEW i \in Nat, i > 0, \A k \in 1 .. i : q[k] = p[k],
         NEW ex, NEW ex2, ex \subseteq ex2, NEW dd, NEW dd2, dd \subseteq dd2,
         NEW un, NEW un2, un \subseteq un2, NEW inProcess,
         UnitOK(p, i, ex, dd, un, inProcess)
  PROVE  UnitOK(q, i, ex2, dd2, un2, inProcess)
<1>1. q[i] = p[i] /\ UnitForm(q, i) /\ DOMAIN q[i].linkage \subseteq Symbols
  BY DEF UnitOK, UnitForm, Whole
<1>2. ASSUME NEW s \in DOMAIN q[i].linkage
      PROVE  /\ LinkageOK(q, i, s, ex2, dd2, inProcess)
             /\ AfterOK(q, i, s) /\ BoundOK(q, i, s) /\ HadOK(q, i, s)
             /\ MissingOK(q, i, s, un2)
  <2>1. /\ LinkageOK(p, i, s, ex, dd, inProcess)
        /\ AfterOK(p, i, s) /\ BoundOK(p, i, s) /\ HadOK(p, i, s)
        /\ MissingOK(p, i, s, un)
    BY <1>1 DEF UnitOK
  <2>2. LinkageOK(q, i, s, ex2, dd2, inProcess)
    BY <1>1, <2>1, MovesFacts DEF LinkageOK
  <2>3. AfterOK(q, i, s)
    BY <1>1, <2>1 DEF AfterOK
  <2>4. \A k \in 1 .. i : Weak(q, k, s) <=> Weak(p, k, s)
    BY DEF Weak
  <2>5. \A k \in 1 .. i - 1 : Earliest(q, k, s) <=> Earliest(p, k, s)
    BY <2>4 DEF Earliest
  <2>6. NoneBefore(q, i, s) <=> NoneBefore(p, i, s)
    BY <2>4 DEF NoneBefore
  <2>7. BoundOK(q, i, s)
    BY <1>1, <2>1, <2>5, <2>6 DEF BoundOK
  <2>8. HadOK(q, i, s) /\ MissingOK(q, i, s, un2)
    BY <1>1, <2>1 DEF HadOK, MissingOK
  <2>. QED
    BY <2>2, <2>3, <2>7, <2>8
<1>. QED
  BY <1>1, <1>2 DEF UnitOK

\* Where the symbols of a unit are found.
LEMMA Resolved ==
  ASSUME ptus \in Seq(Units), NEW linkage, NEW s
  PROVE  LET i == Len(ptus) + 1 IN
         \/ \E k \in 1 .. i - 1 : Earliest(ptus, k, s) /\ Resolve(s, linkage) = <<"unit", k>>
         \/ /\ NoneBefore(ptus, i, s)
            /\ \/ linkage[s] = "weak" /\ Resolve(s, linkage) = <<"unit", i>>
               \/ linkage[s] # "weak" /\ s \in exports /\ Resolve(s, linkage) = <<"process", 0>>
               \/ linkage[s] # "weak" /\ s \notin exports /\ Resolve(s, linkage) = <<"nowhere", 0>>
<1>. DEFINE at == {k \in DOMAIN ptus : /\ ptus[k].ran
                                       /\ s \in DOMAIN ptus[k].linkage
                                       /\ ptus[k].linkage[s] = "weak"}
            first == CHOOSE k \in at : \A j \in at : k <= j
<1>1. Resolve(s, linkage) =
        IF at # {} THEN <<"unit", first>>
        ELSE IF linkage[s] = "weak" THEN <<"unit", Len(ptus) + 1>>
        ELSE IF s \in exports THEN <<"process", 0>>
        ELSE <<"nowhere", 0>>
  BY Zenon DEF Resolve
<1>2. Len(ptus) \in Nat /\ DOMAIN ptus = 1 .. Len(ptus)
  OBVIOUS
<1>3. \A k : k \in at <=> k \in 1 .. Len(ptus) /\ Weak(ptus, k, s)
  BY <1>2 DEF Weak
<1>. HIDE DEF at
<1>4. CASE at # {}
  <2>1. at \in SUBSET Nat
    BY <1>2, <1>3
  <2>2. \E k \in at : \A j \in at : k <= j
    BY <1>4, <2>1, Least
  <2>3. first \in at /\ \A j \in at : first <= j
    BY <2>2, Zenon
  <2>. HIDE DEF first
  <2>4. Resolve(s, linkage) = <<"unit", first>>
    BY <1>1, <1>4
  <2>5. Earliest(ptus, first, s)
    BY <1>2, <1>3, <2>3 DEF Earliest
  <2>. QED
    BY <1>2, <1>3, <2>3, <2>4, <2>5
<1>5. CASE at = {}
  <2>1. NoneBefore(ptus, Len(ptus) + 1, s)
    BY <1>2, <1>3, <1>5 DEF NoneBefore
  <2>. HIDE DEF first
  <2>. QED
    BY <1>1, <1>5, <2>1
<1>. QED
  BY <1>4, <1>5

\* A new unit has the type of units.
LEMMA UnitType ==
  ASSUME ptus \in Seq(Units), NEW via \in {"passes", "evaluate"}, NEW inProcess,
         NEW linkage \in Linkages, exports \subseteq Symbols
  PROVE  Unit(via, linkage, inProcess) \in Units
<1>1. DOMAIN linkage \subseteq Symbols
  BY DEF Linkages
<1>2. \A s \in DOMAIN linkage : Resolve(s, linkage) \in {"unit", "process", "nowhere"} \X Nat
  <2>1. Len(ptus) \in Nat
    OBVIOUS
  <2>. QED
    BY <2>1, Resolved
<1>3. [s \in DOMAIN linkage |-> Resolve(s, linkage)] \in Bounds
  BY <1>1, <1>2 DEF Bounds
<1>. QED
  BY <1>1, <1>3 DEF Unit, Units

\* One more unit, as the passes or evaluate make it.
LEMMA Adding ==
  ASSUME NEW inProcess, InputsOK(ptus, exports, DedupedWeakTLS, undone, inProcess),
         NEW via \in {"passes", "evaluate"}, NEW linkage \in Linkages, NEW bind \in BOOLEAN,
         Whole(DOMAIN linkage),
         \A s \in DOMAIN linkage :
           linkage[s] = IF via = "passes" THEN Given(s, inProcess, exports, DedupedWeakTLS)
                        ELSE "weak",
         bind /\ DOMAIN linkage # {} => inProcess /\ via = "passes",
         NEW dd, dd = DedupedWeakTLS \cup
                      (IF via = "passes" THEN {s \in DOMAIN linkage : ThreadLocal(s)} ELSE {}),
         NEW un, undone \subseteq un,
         via = "passes" /\ ~Unit(via, linkage, bind).ran =>
           {s \in DOMAIN linkage : ThreadLocal(s) /\ linkage[s] = "weak"} \subseteq un
  PROVE  InputsOK(Append(ptus, Unit(via, linkage, bind)), exports, dd, un, inProcess)
<1>. DEFINE u == Unit(via, linkage, bind)
            D == DOMAIN linkage
            n == Len(ptus) + 1
            p == Append(ptus, u)
            old == DedupedWeakTLS
<1>1. /\ ptus \in Seq(Units) /\ exports \subseteq {s \in Symbols : ~ThreadLocal(s)}
      /\ old \subseteq {s \in Symbols : ThreadLocal(s)} /\ Whole(old)
      /\ \A s \in old : s \in undone \/ \E k \in 1 .. Len(ptus) : Weak(ptus, k, s)
      /\ \A i \in 1 .. Len(ptus) : UnitOK(ptus, i, exports, old, undone, inProcess)
  BY DEF InputsOK
<1>2. u \in Units
  BY <1>1, UnitType
<1>3. /\ u.via = via /\ u.linkage = linkage /\ DOMAIN u.bound = D
      /\ \A s \in D : u.bound[s] = Resolve(s, linkage)
      /\ u.ran <=> \A s \in D : u.bound[s][1] # "nowhere"
      /\ u.had = IF bind THEN exports \cap D ELSE {}
  BY DEF Unit
<1>. HIDE DEF u
<1>4. /\ p \in Seq(Units) /\ Len(p) = n /\ n \in Nat /\ n > 0
      /\ p[n] = u /\ \A k \in 1 .. Len(ptus) : p[k] = ptus[k]
  BY <1>1, <1>2
<1>5. D \subseteq Symbols
  BY DEF Whole
<1>. HIDE DEF p
<1>6. \A s : \A k \in 1 .. n - 1 : Weak(p, k, s) <=> Weak(ptus, k, s)
  BY <1>4 DEF Weak
<1>7. \A i \in 1 .. Len(ptus) : UnitOK(p, i, exports, dd, un, inProcess)
  <2>. SUFFICES ASSUME NEW i \in 1 .. Len(ptus) PROVE UnitOK(p, i, exports, dd, un, inProcess)
    OBVIOUS
  <2>1. i \in Nat /\ i > 0 /\ (\A k \in 1 .. i : p[k] = ptus[k])
    BY <1>4
  <2>2. UnitOK(ptus, i, exports, old, undone, inProcess)
    BY <1>1
  <2>3. exports \subseteq exports /\ old \subseteq dd /\ undone \subseteq un
    OBVIOUS
  <2>. HIDE DEF old
  <2>. QED
    BY <2>1, <2>2, <2>3, Stays
<1>8. ASSUME NEW s \in D
      PROVE  /\ LinkageOK(p, n, s, exports, dd, inProcess)
             /\ AfterOK(p, n, s) /\ BoundOK(p, n, s) /\ HadOK(p, n, s)
             /\ MissingOK(p, n, s, un)
  <2>1. s \in Symbols
    BY <1>5
  <2>2. p[n].linkage[s] = linkage[s] /\ p[n].bound[s] = Resolve(s, linkage) /\ p[n].via = via
    BY <1>3, <1>4
  <2>3. /\ via = "passes" => linkage[s] = Given(s, inProcess, exports, old)
        /\ via # "passes" => linkage[s] = "weak"
    OBVIOUS
  <2>4. LinkageOK(p, n, s, exports, dd, inProcess)
    <3>1. /\ linkage[s] \in {"weak", "available", "external"}
          /\ linkage[s] = "external" => via = "passes" /\ inProcess /\ Moves(s, exports)
          /\ linkage[s] = "available" => via = "passes" /\ s \in old
      BY <2>3 DEF Given
    <3>2. linkage[s] = "weak" /\ ThreadLocal(s) /\ via = "passes" => s \in dd
      OBVIOUS
    <3>3. HasGuard(s) => linkage[GuardOf(s)] = linkage[s]
      <4>1. HasGuard(s) => GuardOf(s) \in D /\ (s \in old <=> GuardOf(s) \in old)
        BY <1>1, <2>1 DEF Whole
      <4>2. HasGuard(s) => (Moves(s, exports) <=> Moves(GuardOf(s), exports))
        BY <2>1, MovesFacts
      <4>. QED
        BY <4>1, <4>2 DEF Given
    <3>. QED
      BY <1>1, <1>3, <1>4, <2>2, <3>1, <3>2, <3>3 DEF LinkageOK
  <2>5. AfterOK(p, n, s)
    <3>. SUFFICES ASSUME NEW k \in 1 .. n - 1, s \in DOMAIN p[k].linkage,
                         p[k].via = "passes", via = "passes"
                  PROVE  /\ p[k].linkage[s] = "external" => linkage[s] = "external"
                         /\ ThreadLocal(s) /\ p[k].linkage[s] = "weak" => linkage[s] # "weak"
      BY <2>2 DEF AfterOK
    <3>1. p[k] = ptus[k] /\ LinkageOK(ptus, k, s, exports, old, inProcess)
      BY <1>1, <1>4 DEF UnitOK
    <3>2. /\ p[k].linkage[s] = "external" => inProcess /\ Moves(s, exports)
          /\ ThreadLocal(s) /\ p[k].linkage[s] = "weak" => s \in old
      BY <3>1 DEF LinkageOK
    <3>3. ThreadLocal(s) => ~Moves(s, exports)
      BY <2>1, MovesFacts
    <3>. QED
      BY <2>3, <3>2, <3>3 DEF Given
  <2>6. BoundOK(p, n, s)
    <3>1. /\ NoneBefore(p, n, s) <=> NoneBefore(ptus, n, s)
          /\ \A k \in 1 .. n - 1 : Earliest(p, k, s) <=> Earliest(ptus, k, s)
      BY <1>4, <1>6 DEF NoneBefore, Earliest
    <3>2. \/ \E k \in 1 .. n - 1 : Earliest(ptus, k, s) /\ Resolve(s, linkage) = <<"unit", k>>
          \/ /\ NoneBefore(ptus, n, s)
             /\ \/ linkage[s] = "weak" /\ Resolve(s, linkage) = <<"unit", n>>
                \/ linkage[s] # "weak" /\ s \in exports /\ Resolve(s, linkage) = <<"process", 0>>
                \/ linkage[s] # "weak" /\ s \notin exports /\ Resolve(s, linkage) = <<"nowhere", 0>>
      BY <1>1, Resolved
    <3>3. linkage[s] # "weak" => linkage[s] = IF s \in exports THEN "external" ELSE "available"
      BY <1>1, <2>1, <2>3, MovesFacts DEF Given
    <3>. QED
      BY <2>2, <3>1, <3>2, <3>3 DEF BoundOK
  <2>7. HadOK(p, n, s)
    <3>. SUFFICES ASSUME p[n].bound[s] = <<"unit", n>>,
                         ~ThreadLocal(s), ~Constant(s), ~IsAGuard(s),
                         {s} \cup ({GuardOf(s)} \cap D) \subseteq u.had
                  PROVE  FALSE
      BY <1>3, <1>4 DEF HadOK
    <3>1. bind /\ inProcess /\ via = "passes" /\ s \in exports
      BY <1>3
    <3>2. HasGuard(s) => GuardOf(s) \in exports
      BY <1>3, <2>1, <3>1 DEF Whole
    <3>3. linkage[s] = "external"
      BY <2>3, <3>1, <3>2 DEF Given, Moves, MovesItself
    <3>4. \E k \in 1 .. n - 1 : p[n].bound[s] = <<"unit", k>>
      BY <2>2, <2>6, <3>3 DEF BoundOK
    <3>. QED
      BY <1>4, <3>4
  <2>8. MissingOK(p, n, s, un)
    <3>. SUFFICES ASSUME p[n].bound[s][1] = "nowhere" PROVE s \in un
      BY DEF MissingOK
    <3>1. linkage[s] = "available" /\ NoneBefore(p, n, s)
      BY <2>2, <2>6 DEF BoundOK
    <3>2. s \in old
      BY <2>3, <3>1 DEF Given
    <3>. QED
      BY <1>1, <1>4, <1>6, <3>1, <3>2 DEF NoneBefore
  <2>. QED
    BY <2>4, <2>5, <2>6, <2>7, <2>8
<1>9. UnitOK(p, n, exports, dd, un, inProcess)
  BY <1>3, <1>4, <1>8 DEF UnitOK, UnitForm
<1>10. dd \subseteq {s \in Symbols : ThreadLocal(s)} /\ Whole(dd)
  <2>1. dd \subseteq {s \in Symbols : ThreadLocal(s)}
    BY <1>1, <1>5
  <2>2. \A s \in Symbols : HasGuard(s) => (s \in dd <=> GuardOf(s) \in dd)
    BY <1>1, Guarded DEF Whole
  <2>. QED
    BY <2>1, <2>2 DEF Whole
<1>11. ASSUME NEW s \in dd PROVE s \in un \/ \E k \in 1 .. Len(p) : Weak(p, k, s)
  <2>1. CASE s \in old
    BY <1>1, <1>4, <1>6, <2>1
  <2>2. CASE s \notin old /\ via = "passes" /\ s \in D /\ ThreadLocal(s)
    <3>1. linkage[s] = "weak"
      BY <1>5, <2>2, MovesFacts DEF Given
    <3>2. CASE u.ran
      BY <1>3, <1>4, <2>2, <3>1, <3>2 DEF Weak
    <3>3. CASE ~u.ran
      BY <2>2, <3>1, <3>3 DEF u
    <3>. QED
      BY <3>2, <3>3
  <2>. QED
    BY <2>1, <2>2
<1>12. \A i \in 1 .. Len(p) : UnitOK(p, i, exports, dd, un, inProcess)
  BY <1>4, <1>7, <1>9
<1>13. InputsOK(p, exports, dd, un, inProcess)
  BY <1>1, <1>4, <1>10, <1>11, <1>12 DEF InputsOK
<1>. QED
  BY <1>13 DEF p, u

\* Parse, the passes, Execute.
LEMMA Entering ==
  ASSUME NEW code \in DOMAIN Program.code, NEW silent, NEW inProcess \in BOOLEAN,
         Globals = Program.globals, Code = Program.code,
         InputsOK(ptus, exports, DedupedWeakTLS, undone, inProcess),
         Enter(code, silent, inProcess)
  PROVE  InputsOK(ptus', exports, DedupedWeakTLS', undone', inProcess)
<1>. DEFINE D == Program.code[code].defines
            linkage == [s \in D |-> Given(s, inProcess, exports, DedupedWeakTLS)]
            u == Unit("passes", linkage, inProcess)
            dd == DedupedWeakTLS \cup {s \in D : ThreadLocal(s)}
            un == IF u.ran THEN undone ELSE undone \cup LostBy(<<u>>)
<1>1. CASE ~Accepted(code, silent)
  BY <1>1 DEF Enter
<1>2. CASE Accepted(code, silent)
  <2>1. Whole(D) /\ DedupedWeakTLS \subseteq {s \in Symbols : ThreadLocal(s)}
    BY InputWhole DEF InputsOK
  <2>2. Parsed(code) = [s \in D |-> "weak"]
    BY DEF Parsed
  <2>3. /\ dedupeWeakEmulatedTLS(Parsed(code)).defined = dd
        /\ (IF inProcess THEN bindProcessWeakGlobals(dedupeWeakEmulatedTLS(Parsed(code)).module)
            ELSE dedupeWeakEmulatedTLS(Parsed(code)).module) = linkage
    <3>. HIDE DEF D
    <3>1. /\ dedupeWeakEmulatedTLS(Parsed(code)).defined = dd
          /\ dedupeWeakEmulatedTLS(Parsed(code)).module
               = [s \in D |-> Given(s, FALSE, exports, DedupedWeakTLS)]
          /\ bindProcessWeakGlobals(dedupeWeakEmulatedTLS(Parsed(code)).module)
               = [s \in D |-> Given(s, TRUE, exports, DedupedWeakTLS)]
      BY <2>1, <2>2, PassesGive
    <3>. QED
      BY <3>1
  <2>4. ptus' = Append(ptus, u) /\ DedupedWeakTLS' = dd /\ undone' = un
    BY <1>2, <2>3 DEF Enter
  <2>5. /\ DOMAIN linkage = D /\ linkage \in Linkages
        /\ \A s \in D : linkage[s] = Given(s, inProcess, exports, DedupedWeakTLS)
    BY <2>1 DEF Given, Linkages, Whole
  <2>6. u.linkage = linkage
    BY DEF Unit
  <2>. HIDE DEF u, linkage
  <2>7. ~u.ran => {s \in D : ThreadLocal(s) /\ linkage[s] = "weak"} \subseteq un
    BY <2>5, <2>6 DEF LostBy, ThreadLocal
  <2>. HIDE DEF D, dd, un
  <2>8. undone \subseteq un
    BY DEF un
  <2>9. InputsOK(Append(ptus, u), exports, dd, un, inProcess)
    BY <2>1, <2>5, <2>7, <2>8, Adding DEF u, dd
  <2>. QED
    BY <2>4, <2>9
<1>. QED
  BY <1>1, <1>2

\* A value is asked for: no pass sees the module.
LEMMA Evaluating ==
  ASSUME NEW code \in DOMAIN Program.code, NEW inProcess \in BOOLEAN,
         Code = Program.code,
         InputsOK(ptus, exports, DedupedWeakTLS, undone, inProcess),
         evaluate(code)
  PROVE  InputsOK(ptus', exports, DedupedWeakTLS', undone', inProcess)
<1>. DEFINE D == Program.code[code].defines
            linkage == [s \in D |-> "weak"]
            u == Unit("evaluate", linkage, FALSE)
<1>1. CASE ~Parses(code)
  BY <1>1 DEF evaluate
<1>2. CASE Parses(code)
  <2>1. Whole(D) /\ DOMAIN linkage = D /\ linkage \in Linkages /\ \A s \in D : linkage[s] = "weak"
    BY InputWhole DEF Linkages, Whole
  <2>2. ptus' = Append(ptus, u) /\ UNCHANGED <<DedupedWeakTLS, undone>>
    BY <1>2 DEF evaluate, Parsed
  <2>. HIDE DEF linkage
  <2>3. InputsOK(Append(ptus, u), exports, DedupedWeakTLS, undone, inProcess)
    BY <2>1, Adding
  <2>. QED
    BY <2>2, <2>3
<1>. QED
  BY <1>1, <1>2

\* The empty input that makes the engine.
LEMMA MakingEngine ==
  ASSUME NEW inProcess \in BOOLEAN,
         InputsOK(ptus, exports, DedupedWeakTLS, undone, inProcess),
         makeEngineOnce
  PROVE  InputsOK(ptus', exports, DedupedWeakTLS', undone', inProcess)
<1>. DEFINE linkage == <<>>
            u == Unit("passes", linkage, FALSE)
<1>1. CASE engineMade
  BY <1>1 DEF makeEngineOnce
<1>2. CASE ~engineMade
  <2>1. Whole(DOMAIN linkage) /\ DOMAIN linkage = {}
    BY DEF Whole
  <2>2. linkage \in [{} -> {"weak", "available", "external"}]
    OBVIOUS
  <2>3. linkage \in Linkages
    BY <2>2 DEF Linkages
  <2>4. ptus' = Append(ptus, u) /\ UNCHANGED <<DedupedWeakTLS, undone>>
    BY <1>2 DEF makeEngineOnce
  <2>. HIDE DEF linkage
  <2>5. InputsOK(Append(ptus, u), exports, DedupedWeakTLS, undone, inProcess)
    BY <2>1, <2>3, Adding
  <2>. QED
    BY <2>4, <2>5
<1>. QED
  BY <1>1, <1>2

\* The last inputs are taken back.
LEMMA Undoing ==
  ASSUME NEW n \in 1 .. 2, NEW inProcess, Globals = Program.globals,
         InputsOK(ptus, exports, DedupedWeakTLS, undone, inProcess),
         Undo(n)
  PROVE  InputsOK(ptus', exports, DedupedWeakTLS', undone', inProcess)
<1>. DEFINE m == Len(ptus) - n
            p == SubSeq(ptus, 1, m)
            rest == SubSeq(ptus, m + 1, Len(ptus))
            un == undone \cup LostBy(rest)
            dd == DedupedWeakTLS
<1>1. CASE n \notin 1 .. Len(ptus)
  BY <1>1 DEF Undo
<1>2. CASE n \in 1 .. Len(ptus)
  <2>1. ptus' = p /\ undone' = un /\ DedupedWeakTLS' = dd
    BY <1>2 DEF Undo
  <2>2. /\ ptus \in Seq(Units) /\ exports \subseteq {s \in Symbols : ~ThreadLocal(s)}
        /\ dd \subseteq {s \in Symbols : ThreadLocal(s)} /\ Whole(dd)
        /\ \A s \in dd : s \in undone \/ \E k \in 1 .. Len(ptus) : Weak(ptus, k, s)
        /\ \A i \in 1 .. Len(ptus) : UnitOK(ptus, i, exports, dd, undone, inProcess)
    BY DEF InputsOK
  <2>3. m \in 0 .. Len(ptus) - 1 /\ Len(ptus) \in Nat
    BY <1>2, <2>2
  <2>4. p \in Seq(Units) /\ Len(p) = m /\ \A k \in 1 .. m : p[k] = ptus[k]
    BY <2>2, <2>3
  <2>5. /\ rest \in Seq(Units) /\ DOMAIN rest = 1 .. n
        /\ \A k \in 1 .. n : rest[k] = ptus[m + k]
    BY <2>2, <2>3
  <2>. HIDE DEF p, rest, m
  <2>6. ASSUME NEW i \in 1 .. Len(p) PROVE UnitOK(p, i, exports, dd, un, inProcess)
    <3>1. i \in Nat /\ i > 0 /\ (\A k \in 1 .. i : p[k] = ptus[k]) /\ i \in 1 .. Len(ptus)
      BY <2>3, <2>4
    <3>. QED
      BY <2>2, <3>1, Stays
  <2>7. ASSUME NEW s \in dd, s \notin un PROVE \E k \in 1 .. Len(p) : Weak(p, k, s)
    <3>1. PICK k \in 1 .. Len(ptus) : Weak(ptus, k, s)
      BY <2>2, <2>7
    <3>2. CASE k > m
      <4>1. k - m \in 1 .. n /\ m + (k - m) = k
        BY <2>3, <3>2 DEF m
      <4>2. rest[k - m] = ptus[k]
        BY <2>5, <4>1
      <4>3. s \in LostBy(rest)
        BY <2>2, <2>5, <3>1, <4>1, <4>2 DEF LostBy, Weak, ThreadLocal
      <4>. QED
        BY <2>7, <4>3
    <3>3. CASE k <= m
      BY <2>3, <2>4, <3>1, <3>3 DEF Weak
    <3>. QED
      BY <2>3, <3>2, <3>3
  <2>8. InputsOK(p, exports, dd, un, inProcess)
    BY <2>2, <2>4, <2>6, <2>7 DEF InputsOK
  <2>9. exports' = exports
    BY DEF Undo, Keeps
  <2>. QED
    BY <2>1, <2>8
<1>. QED
  BY <1>1, <1>2

\* The process exports more.
LEMMA Loading ==
  ASSUME NEW symbols \in Libraries, NEW inProcess,
         InputsOK(ptus, exports, DedupedWeakTLS, undone, inProcess)
  PROVE  InputsOK(ptus, exports \cup symbols, DedupedWeakTLS, undone, inProcess)
<1>1. symbols \subseteq {s \in Symbols : ~ThreadLocal(s)}
  BY ProgramAssumption DEF Symbols, ThreadLocal
<1>2. ASSUME NEW i \in 1 .. Len(ptus)
      PROVE  UnitOK(ptus, i, exports \cup symbols, DedupedWeakTLS, undone, inProcess)
  <2>1. i \in Nat /\ i > 0 /\ UnitOK(ptus, i, exports, DedupedWeakTLS, undone, inProcess)
    BY DEF InputsOK
  <2>. QED
    BY <2>1, Stays
<1>. QED
  BY <1>1, <1>2 DEF InputsOK

-----------------------------------------------------------------------------
(* The steps of a session *)

\* A session starts without an input.
LEMMA InputInvInit == Init => InputInv
<1>. SUFFICES ASSUME Init PROVE InputInv
  OBVIOUS
<1>1. /\ ptus = <<>> /\ exports = {} /\ DedupedWeakTLS = {}
      /\ Globals = Program.globals /\ Code = Program.code /\ misreported = FALSE
  BY DEF Init
<1>2. Whole({})
  BY DEF Whole
<1>3. ptus \in Seq(Units) /\ Len(ptus) = 0
  BY <1>1
<1>4. InputsOK(ptus, exports, DedupedWeakTLS, undone, InProcess)
  BY <1>1, <1>2, <1>3 DEF InputsOK
<1>. QED
  BY <1>1, <1>4 DEF InputInv

\* A step on boxes or paths leaves the inputs alone.
LEMMA InputsKept ==
  ASSUME InputInv, UNCHANGED <<interp, unitVars>> PROVE InputInv'
BY DEF InputInv, unitVars, InProcess

\* The first input comes with the interpreter.
LEMMA CreatedInputs == ASSUME InputInv, Created PROVE InputInv'
<1>1. /\ ptus = <<>> /\ DedupedWeakTLS = {} /\ interp'.made
      /\ UNCHANGED <<Globals, Code, exports, misreported>>
  BY DEF InputInv, Created
<1>2. InputsOK(ptus, exports, DedupedWeakTLS, undone, ~interp'.outOfProcess)
  <2>1. InputsOK(ptus, exports, DedupedWeakTLS, undone, InProcess) /\ Len(ptus) = 0
    BY <1>1 DEF InputInv
  <2>. QED
    BY <2>1 DEF InputsOK
<1>3. "internal" \in DOMAIN Program.code
  BY ProgramAssumption
<1>4. InputsOK(ptus', exports, DedupedWeakTLS', undone', ~interp'.outOfProcess)
  <2>. DEFINE inProcess == ~interp'.outOfProcess
  <2>1. CASE Enter("internal", FALSE, inProcess)
    <3>1. inProcess \in BOOLEAN /\ Globals = Program.globals /\ Code = Program.code
      BY DEF InputInv
    <3>. HIDE DEF inProcess
    <3>2. InputsOK(ptus', exports, DedupedWeakTLS', undone', inProcess)
      BY <1>2, <1>3, <2>1, <3>1, Entering DEF inProcess
    <3>. QED
      BY <3>2 DEF inProcess
  <2>2. CASE UNCHANGED <<ptus, DedupedWeakTLS, undone>>
    BY <1>2, <2>2
  <2>. QED
    BY <2>1, <2>2 DEF Created
<1>. QED
  BY <1>1, <1>4 DEF InputInv, InProcess

\* The caller is told exactly how it went, with and without diagnostics.
LEMMA Told ==
  ASSUME NEW code
  PROVE  /\ EnterResult(code, FALSE) = 0 <=> Ran(code)
         /\ \A silent : DeclareAnswer(code, silent) = 0 <=> Ran(code)
BY DEF EnterResult, DeclareAnswer, Ran, Accepted

\* process, Declare and ParseAndExecute add a unit through the passes, or none.
LEMMA EnteringInputs ==
  ASSUME NEW code \in Codes, NEW silent \in BOOLEAN, InputInv, interp.made, interp' = interp,
         process(code, InProcess) \/ Declare(code, silent, InProcess) \/ ParseAndExecute(code, InProcess)
  PROVE  InputInv'
<1>1. /\ Globals = Program.globals /\ Code = Program.code /\ ~misreported
      /\ code \in DOMAIN Program.code /\ InProcess \in BOOLEAN
      /\ InputsOK(ptus, exports, DedupedWeakTLS, undone, InProcess)
  BY DEF InputInv, Codes, InProcess
<1>2. PICK quiet \in BOOLEAN : Enter(code, quiet, InProcess)
  BY DEF process, Declare, ParseAndExecute
<1>3. UNCHANGED <<Globals, Code, exports>> /\ ~misreported'
  <2>1. UNCHANGED <<Globals, Code, exports>>
    BY DEF process, Declare, ParseAndExecute, Keeps
  <2>2. CASE process(code, InProcess) \/ ParseAndExecute(code, InProcess)
    <3>1. Tell(EnterResult(code, FALSE), Ran(code))
      BY <2>2 DEF process, ParseAndExecute
    <3>2. EnterResult(code, FALSE) = 0 <=> Ran(code)
      BY Told
    <3>. QED
      BY <1>1, <2>1, <3>1, <3>2 DEF Tell
  <2>3. CASE Declare(code, silent, InProcess)
    <3>1. Tell(DeclareAnswer(code, silent), Ran(code))
      BY <2>3 DEF Declare
    <3>2. DeclareAnswer(code, silent) = 0 <=> Ran(code)
      BY Told
    <3>. QED
      BY <1>1, <2>1, <3>1, <3>2 DEF Tell
  <2>. QED
    BY <2>1, <2>2, <2>3
<1>4. InputsOK(ptus', exports, DedupedWeakTLS', undone', InProcess)
  BY <1>1, <1>2, Entering
<1>5. InProcess' = InProcess
  BY DEF InProcess
<1>. QED
  BY <1>1, <1>3, <1>4, <1>5 DEF InputInv

\* evaluate adds a unit the passes do not see.
LEMMA EvaluatingInputs ==
  ASSUME NEW code \in Codes, InputInv, interp.made, interp' = interp, evaluate(code)
  PROVE  InputInv'
<1>1. /\ Globals = Program.globals /\ Code = Program.code /\ ~misreported
      /\ code \in DOMAIN Program.code /\ InProcess \in BOOLEAN
      /\ InputsOK(ptus, exports, DedupedWeakTLS, undone, InProcess)
  BY DEF InputInv, Codes, InProcess
<1>2. UNCHANGED <<Globals, Code, exports, misreported>>
  BY DEF evaluate, Keeps
<1>3. InputsOK(ptus', exports, DedupedWeakTLS', undone', InProcess)
  BY <1>1, Evaluating
<1>4. InProcess' = InProcess
  BY DEF InProcess
<1>. QED
  BY <1>1, <1>2, <1>3, <1>4 DEF InputInv

\* What is left: the engine's own first input, Undo and a loaded library.
LEMMA OtherInputs ==
  ASSUME InputInv, interp.made, interp' = interp,
         \/ makeEngineOnce
         \/ \E n \in 1 .. 2 : Undo(n)
         \/ \E symbols \in Libraries : LoadLibrary(symbols)
  PROVE  InputInv'
<1>1. /\ Globals = Program.globals /\ Code = Program.code /\ ~misreported
      /\ InProcess \in BOOLEAN
      /\ InputsOK(ptus, exports, DedupedWeakTLS, undone, InProcess)
  BY DEF InputInv, InProcess
<1>2. UNCHANGED <<Globals, Code, misreported>>
  BY DEF makeEngineOnce, Undo, LoadLibrary, Keeps
<1>3. InProcess' = InProcess
  BY DEF InProcess
<1>4. CASE makeEngineOnce
  <2>1. InputsOK(ptus', exports, DedupedWeakTLS', undone', InProcess)
    BY <1>1, <1>4, MakingEngine
  <2>2. exports' = exports
    BY <1>4 DEF makeEngineOnce
  <2>. QED
    BY <1>1, <1>2, <1>3, <2>1, <2>2 DEF InputInv
<1>5. ASSUME NEW n \in 1 .. 2, Undo(n) PROVE InputInv'
  <2>1. InputsOK(ptus', exports, DedupedWeakTLS', undone', InProcess)
    BY <1>1, <1>5, Undoing
  <2>. QED
    BY <1>1, <1>2, <1>3, <1>5, <2>1 DEF InputInv, Undo, Keeps
<1>6. ASSUME NEW symbols \in Libraries, LoadLibrary(symbols) PROVE InputInv'
  <2>1. InputsOK(ptus, exports \cup symbols, DedupedWeakTLS, undone, InProcess)
    BY <1>1, Loading
  <2>. QED
    BY <1>1, <1>2, <1>3, <1>6, <2>1 DEF InputInv, LoadLibrary
<1>. QED
  BY <1>4, <1>5, <1>6

\* Every step of a session keeps what is known of the units.
LEMMA InputInvStep == InputInv /\ [Next]_vars => InputInv'
<1>. SUFFICES ASSUME InputInv, [Next]_vars PROVE InputInv'
  OBVIOUS
<1>1. CASE UNCHANGED vars
  BY <1>1, InputsKept DEF vars
<1>2. CASE Created \/ CreationFails
  BY <1>2, CreatedInputs, InputsKept DEF CreationFails, vars
<1>3. ASSUME NEW code \in Codes,
             \/ Process(code)
             \/ \E silent \in BOOLEAN : DeclareCode(code, silent)
             \/ MakeWrapper(code)
             \/ \E b \in BoxNames, p \in Payloads : Evaluate(code, b, p)
      PROVE  InputInv'
  BY <1>3, EnteringInputs, EvaluatingInputs
     DEF Process, DeclareCode, MakeWrapper, Evaluate, Running
<1>4. CASE \/ GetAddress
           \/ \E n \in 1 .. 2 : UndoInputs(n)
           \/ \E symbols \in Libraries : Load(symbols)
  BY <1>4, OtherInputs DEF GetAddress, UndoInputs, Load, Running
<1>5. CASE \/ \E dir \in Directories : OnPaths(AddIncludePath(dir)) \/ OnPaths(MakeDirectory(dir))
           \/ \E b, o \in BoxNames :
                \/ OnBoxes(CopyConstruct(b, o)) \/ OnBoxes(CopyAssign(b, o))
                \/ OnBoxes(MoveConstruct(b, o)) \/ OnBoxes(MoveAssign(b, o))
           \/ \E b \in BoxNames : OnBoxes(Destroy(b))
           \/ \E p \in Payloads : OnBoxes(Delete(p))
  BY <1>5, InputsKept DEF OnPaths, OnBoxes, Running
<1>. QED
  BY <1>1, <1>2, <1>3, <1>4, <1>5 DEF Next

-----------------------------------------------------------------------------
(* What the invariant says of the inputs *)

\* The earliest definition of a symbol is one.
LEMMA OneEarliest ==
  ASSUME NEW p, NEW s, NEW i \in Nat, NEW j \in Nat, i > 0, j > 0,
         Earliest(p, i, s), Earliest(p, j, s)
  PROVE  i = j
<1>1. CASE i < j
  BY <1>1 DEF Earliest
<1>2. CASE j < i
  BY <1>2 DEF Earliest
<1>. QED
  BY <1>1, <1>2

\* The invariant, unit by unit.
LEMMA InputFacts ==
  ASSUME InputInv
  PROVE  /\ DOMAIN ptus = 1 .. Len(ptus) /\ Len(ptus) \in Nat
         /\ \A i \in 1 .. Len(ptus) :
              /\ UnitOK(ptus, i, exports, DedupedWeakTLS, undone, InProcess)
              /\ ptus[i].via \in {"passes", "evaluate"} /\ ptus[i].ran \in BOOLEAN
              /\ DOMAIN ptus[i].bound = DOMAIN ptus[i].linkage
              /\ DOMAIN ptus[i].linkage \subseteq Symbols
         /\ \A s \in Symbols : Globals[s].guard = GuardOf(s) /\ (IsGuard(s) <=> IsAGuard(s))
                             /\ Globals[s].threadLocal = ThreadLocal(s)
                             /\ Globals[s].constant = Constant(s)
         /\ DOMAIN Globals = Symbols
<1>1. ptus \in Seq(Units) /\ \A i \in 1 .. Len(ptus) :
                               UnitOK(ptus, i, exports, DedupedWeakTLS, undone, InProcess)
  BY DEF InputInv, InputsOK
<1>2. DOMAIN ptus = 1 .. Len(ptus) /\ Len(ptus) \in Nat /\ \A i \in 1 .. Len(ptus) : ptus[i] \in Units
  BY <1>1
<1>3. \A u \in Units : u.via \in {"passes", "evaluate"} /\ u.ran \in BOOLEAN
  BY DEF Units
<1>4. Globals = Program.globals
  BY DEF InputInv
<1>. QED
  BY <1>1, <1>2, <1>3, <1>4 DEF UnitOK, UnitForm, Whole, GuardOf, IsGuard, IsAGuard, Symbols,
                                ThreadLocal, Constant

\* A unit binds a variable as it binds its guard, so no initialisation runs
\* on another copy's guard.
LEMMA GuardsTogether == InputInv => GuardWithData
<1>. SUFFICES ASSUME InputInv,
                     NEW i \in 1 .. Len(ptus), NEW s \in DOMAIN ptus[i].linkage,
                     GuardOf(s) \in DOMAIN ptus[i].linkage
              PROVE  ptus[i].bound[GuardOf(s)] = ptus[i].bound[s]
  BY InputFacts DEF GuardWithData
<1>. DEFINE g == GuardOf(s)
<1>1. s \in Symbols /\ g \in Symbols /\ HasGuard(s)
  BY InputFacts DEF HasGuard
<1>2. \A k \in 1 .. i : Weak(ptus, k, g) <=> Weak(ptus, k, s)
  <2>. SUFFICES ASSUME NEW k \in 1 .. i PROVE Weak(ptus, k, g) <=> Weak(ptus, k, s)
    OBVIOUS
  <2>1. UnitOK(ptus, k, exports, DedupedWeakTLS, undone, InProcess)
    BY InputFacts
  <2>2. s \in DOMAIN ptus[k].linkage <=> g \in DOMAIN ptus[k].linkage
    BY <1>1, <2>1 DEF UnitOK, UnitForm, Whole
  <2>3. s \in DOMAIN ptus[k].linkage => ptus[k].linkage[g] = ptus[k].linkage[s]
    BY <1>1, <2>1 DEF UnitOK, LinkageOK
  <2>. QED
    BY <2>2, <2>3 DEF Weak
<1>3. /\ BoundOK(ptus, i, s) /\ BoundOK(ptus, i, g) /\ ptus[i].linkage[g] = ptus[i].linkage[s]
      /\ i \in Nat
  BY <1>1, InputFacts DEF UnitOK, LinkageOK
<1>4. NoneBefore(ptus, i, g) <=> NoneBefore(ptus, i, s)
  BY <1>2, <1>3 DEF NoneBefore
<1>5. \A k \in 1 .. i - 1 : /\ Earliest(ptus, k, g) <=> Earliest(ptus, k, s)
                            /\ Earliest(ptus, k, s) => ~NoneBefore(ptus, i, s)
  BY <1>2, <1>3 DEF Earliest, NoneBefore
<1>. HIDE DEF g
<1>6. CASE NoneBefore(ptus, i, s)
  <2>1. \A k \in 1 .. i - 1 : ~Earliest(ptus, k, s) /\ ~Earliest(ptus, k, g)
    BY <1>5, <1>6
  <2>2. \A x \in {s, g} :
          \/ ptus[i].linkage[x] = "weak" /\ ptus[i].bound[x] = <<"unit", i>>
          \/ ptus[i].linkage[x] = "external" /\ ptus[i].bound[x] = <<"process", 0>>
          \/ ptus[i].linkage[x] = "available" /\ ptus[i].bound[x] = <<"nowhere", 0>>
    BY <1>3, <2>1 DEF BoundOK
  <2>3. ptus[i].bound[g] = ptus[i].bound[s]
    BY <1>3, <2>2
  <2>. QED
    BY <2>3 DEF g
<1>7. CASE ~NoneBefore(ptus, i, s)
  <2>1. PICK k \in 1 .. i - 1 : Earliest(ptus, k, s) /\ ptus[i].bound[s] = <<"unit", k>>
    BY <1>3, <1>7 DEF BoundOK
  <2>2. PICK j \in 1 .. i - 1 : Earliest(ptus, j, g) /\ ptus[i].bound[g] = <<"unit", j>>
    BY <1>3, <1>4, <1>7 DEF BoundOK
  <2>3. j = k
    BY <1>3, <1>5, <2>1, <2>2, OneEarliest
  <2>. QED
    BY <2>1, <2>2, <2>3 DEF g
<1>. QED
  BY <1>6, <1>7

\* A unit and a later one that both ran and that the passes saw share s.
LEMMA SameBound ==
  ASSUME InputInv, NEW i \in 1 .. Len(ptus), NEW j \in 1 .. Len(ptus), i < j,
         NEW s \in DOMAIN ptus[i].linkage, s \in DOMAIN ptus[j].linkage, s \notin Bypassed,
         ptus[i].ran, ptus[j].ran
  PROVE  ptus[i].bound[s] = ptus[j].bound[s]
<1>1. /\ UnitOK(ptus, i, exports, DedupedWeakTLS, undone, InProcess)
      /\ UnitOK(ptus, j, exports, DedupedWeakTLS, undone, InProcess)
      /\ i \in Nat /\ j \in Nat /\ s \in Symbols
  BY InputFacts
<1>2. BoundOK(ptus, i, s) /\ BoundOK(ptus, j, s) /\ ptus[i].bound[s][1] # "nowhere"
  BY <1>1 DEF UnitOK, UnitForm
<1>3. \A k \in 1 .. Len(ptus) : s \in DOMAIN ptus[k].linkage => ptus[k].via = "passes"
  BY <1>1, InputFacts DEF Bypassed, ByPasses
<1>4. \A k \in 1 .. j - 1 : Earliest(ptus, k, s) => ~NoneBefore(ptus, j, s)
  BY DEF Earliest, NoneBefore
<1>5. ASSUME NEW k \in 1 .. j - 1, Earliest(ptus, k, s) PROVE ptus[j].bound[s] = <<"unit", k>>
  <2>1. PICK m \in 1 .. j - 1 : Earliest(ptus, m, s) /\ ptus[j].bound[s] = <<"unit", m>>
    BY <1>2, <1>4, <1>5 DEF BoundOK
  <2>2. m = k
    BY <1>1, <1>5, <2>1, OneEarliest
  <2>. QED
    BY <2>1, <2>2
<1>6. CASE \E k \in 1 .. i - 1 : Earliest(ptus, k, s) /\ ptus[i].bound[s] = <<"unit", k>>
  BY <1>1, <1>5, <1>6
<1>7. CASE NoneBefore(ptus, i, s) /\ ptus[i].linkage[s] = "weak" /\ ptus[i].bound[s] = <<"unit", i>>
  <2>1. Earliest(ptus, i, s)
    BY <1>7 DEF Earliest, NoneBefore, Weak
  <2>. QED
    BY <1>1, <1>5, <1>7, <2>1
<1>8. CASE NoneBefore(ptus, i, s) /\ ptus[i].linkage[s] = "external"
             /\ ptus[i].bound[s] = <<"process", 0>>
  <2>1. ASSUME NEW k \in i + 1 .. j, s \in DOMAIN ptus[k].linkage
        PROVE  ptus[k].linkage[s] = "external"
    <3>1. AfterOK(ptus, k, s) /\ i \in 1 .. k - 1
      BY <1>1, <2>1, InputFacts DEF UnitOK
    <3>. QED
      BY <1>3, <1>8, <2>1, <3>1 DEF AfterOK
  <2>2. NoneBefore(ptus, j, s)
    BY <1>1, <1>8, <2>1 DEF NoneBefore, Weak
  <2>3. ptus[j].linkage[s] = "external"
    BY <1>1, <2>1
  <2>. QED
    BY <1>2, <1>4, <1>8, <2>2, <2>3 DEF BoundOK
<1>. QED
  BY <1>2, <1>6, <1>7, <1>8 DEF BoundOK

\* The units that use a variable and ran all use one copy of it.
LEMMA InstancesShared == InputInv => OneInstance
<1>. SUFFICES ASSUME InputInv PROVE OneInstance
  OBVIOUS
<1>1. ASSUME NEW i \in DOMAIN ptus, NEW j \in DOMAIN ptus,
             NEW s \in (DOMAIN ptus[i].bound \cap DOMAIN ptus[j].bound) \ Bypassed,
             ptus[i].ran, ptus[j].ran
      PROVE  ptus[i].bound[s] = ptus[j].bound[s]
  <2>1. /\ i \in 1 .. Len(ptus) /\ j \in 1 .. Len(ptus) /\ s \notin Bypassed
        /\ s \in DOMAIN ptus[i].linkage /\ s \in DOMAIN ptus[j].linkage
    BY InputFacts
  <2>2. CASE i < j
    BY <1>1, <2>1, <2>2, SameBound
  <2>3. CASE j < i
    BY <1>1, <2>1, <2>3, SameBound
  <2>. QED
    BY <2>1, <2>2, <2>3
<1>2. ASSUME NEW i \in DOMAIN ptus, NEW s \in DOMAIN ptus[i].bound,
             ptus[i].bound[s] = <<"unit", i>>,
             ~Globals[s].threadLocal, ~Globals[s].constant, ~IsGuard(s)
      PROVE  ~({s} \cup ({Globals[s].guard} \cap DOMAIN ptus[i].linkage) \subseteq ptus[i].had)
  <2>1. HadOK(ptus, i, s) /\ s \in Symbols
    BY <1>2, InputFacts DEF UnitOK
  <2>. QED
    BY <1>2, <2>1, InputFacts DEF HadOK
<1>. QED
  BY <1>1, <1>2 DEF OneInstance

\* At most one unit hands the JIT a definition of a thread_local.
LEMMA ThreadLocalsOnce == InputInv => OneThreadLocal
<1>. SUFFICES ASSUME InputInv, NEW i \in 1 .. Len(ptus), NEW j \in 1 .. Len(ptus), i < j,
                     NEW s \in Symbols \ Bypassed, ThreadLocal(s),
                     s \in DOMAIN ptus[i].linkage, s \in DOMAIN ptus[j].linkage,
                     ptus[i].linkage[s] = "weak", ptus[j].linkage[s] = "weak"
              PROVE  FALSE
  BY InputFacts DEF OneThreadLocal
<1>1. ptus[i].via = "passes" /\ ptus[j].via = "passes"
  BY InputFacts DEF Bypassed, ByPasses
<1>2. AfterOK(ptus, j, s) /\ i \in 1 .. j - 1
  BY InputFacts DEF UnitOK
<1>. QED
  BY <1>1, <1>2 DEF AfterOK

\* What a pass demoted to a declaration is found elsewhere.
LEMMA ReferencesResolve == InputInv => DemotedResolves
BY InputFacts DEF DemotedResolves, UnitOK, MissingOK

\* The inputs of a session share every variable, thread_local and guard as one
\* program would, however they were entered (process, Declare, ParseAndExecute,
\* evaluate), taken back (Undo) or preceded by libraries: what the passes
\* dedupeWeakEmulatedTLS and bindProcessWeakGlobals take out of a module is
\* found in an earlier one or in the process, a variable with its guard, and
\* the caller is told exactly whether an input ran.
THEOREM SessionInputs == Spec => []InputsExact
<1>1. InputInv => InputsExact
  BY GuardsTogether, InstancesShared, ThreadLocalsOnce, ReferencesResolve
     DEF InputsExact, ErrorsAreTold, InputInv
<1>. QED
  BY <1>1, InputInvInit, InputInvStep, PTL DEF Spec

-----------------------------------------------------------------------------
(* Include paths: the members of a sequence that are chosen. *)

\* Induction up to n: a set with 0 and the successors of its members.
LEMMA UpTo ==
  ASSUME NEW n \in Nat, NEW S, 0 \in S, \A i \in 1..n : i - 1 \in S => i \in S
  PROVE  \A i \in 0..n : i \in S
<1>. DEFINE lacking == {i \in 0..n : i \notin S}
<1>. SUFFICES ASSUME lacking # {} PROVE FALSE
  OBVIOUS
<1>1. lacking \in SUBSET Nat
  OBVIOUS
<1>2. PICK i \in lacking : \A j \in lacking : i <= j
  BY <1>1, Least
<1>3. i \in 1..n /\ i \notin S /\ i - 1 \in S
  BY <1>2
<1>. QED
  BY <1>3

\* The turns of Chosen's loop.
ChosenTurns(s, K, f) ==
  [i \in 0..Len(s) |-> IF i = 0 THEN <<>> ELSE Including(f[i - 1], s[i], i \in K)]

\* One by one.
LEMMA ChosenTurn ==
  ASSUME NEW s, NEW n \in Nat, n = Len(s), NEW K, NEW f, f = ChosenTurns(s, K, f)
  PROVE  /\ f = [i \in 0..n |-> f[i]] /\ f[0] = <<>>
         /\ \A i \in 1..n : f[i] = Including(f[i - 1], s[i], i \in K)
<1>. DEFINE turn(i) == IF i = 0 THEN <<>> ELSE Including(f[i - 1], s[i], i \in K)
<1>1. f = [i \in 0..n |-> turn(i)]
  BY DEF ChosenTurns
<1>2. turn(0) = <<>>
  OBVIOUS
<1>3. \A i \in 1..n : turn(i) = Including(f[i - 1], s[i], i \in K)
  OBVIOUS
<1>. HIDE DEF turn
<1>4. \A i \in 0..n : f[i] = turn(i)
  BY <1>1
<1>5. f = [i \in 0..n |-> f[i]]
  BY <1>1
<1>. QED
  BY <1>2, <1>3, <1>4, <1>5

\* What the first m of them lead to.
TurnsUpTo(s, K, m, f) ==
  f[0] = <<>> /\ \A i \in 1..m : f[i] = Including(f[i - 1], s[i], i \in K)

\* The loop can be run.
LEMMA TurnsRun ==
  ASSUME NEW S, NEW s \in Seq(S), NEW K, NEW n \in Nat, n = Len(s)
  PROVE  \E f \in [0..n -> Seq(S)] : TurnsUpTo(s, K, n, f)
<1>. DEFINE done == {m \in 0..n : \E f \in [0..m -> Seq(S)] : TurnsUpTo(s, K, m, f)}
<1>1. 0 \in done
  <2>. DEFINE f == [i \in 0..0 |-> <<>>]
  <2>1. f \in [0..0 -> Seq(S)]
    OBVIOUS
  <2>2. TurnsUpTo(s, K, 0, f)
    BY DEF TurnsUpTo
  <2>. HIDE DEF f
  <2>. QED
    BY <2>1, <2>2
<1>2. ASSUME NEW m \in 1..n, m - 1 \in done PROVE m \in done
  <2>1. PICK f \in [0..(m - 1) -> Seq(S)] : TurnsUpTo(s, K, m - 1, f)
    BY <1>2
  <2>. DEFINE new == Including(f[m - 1], s[m], m \in K)
              g == [i \in 0..m |-> IF i < m THEN f[i] ELSE new]
  <2>2. new \in Seq(S)
    BY DEF Including
  <2>3. g[0] = f[0] /\ g[m] = new /\ g[m - 1] = f[m - 1]
    OBVIOUS
  <2>4. ASSUME NEW i \in 1..m, i # m PROVE g[i] = f[i] /\ g[i - 1] = f[i - 1] /\ i \in 1..(m - 1)
    BY <2>4
  <2>5. g \in [0..m -> Seq(S)]
    BY <2>2
  <2>. HIDE DEF g
  <2>6. TurnsUpTo(s, K, m, g)
    BY <2>1, <2>3, <2>4 DEF TurnsUpTo
  <2>. QED
    BY <2>5, <2>6
<1>. HIDE DEF done
<1>3. \A m \in 0..n : m \in done
  BY <1>1, <1>2, UpTo
<1>4. n \in done
  BY <1>3
<1>. QED
  BY <1>4 DEF done

\* Chosen is where they lead to.
RunsTo(S, s, K, n, f) == f \in [0..n -> Seq(S)] /\ TurnsUpTo(s, K, n, f) /\ Chosen(s, K) = f[n]

\* They do.
LEMMA ChosenRuns ==
  ASSUME NEW S, NEW s \in Seq(S), NEW K, NEW n \in Nat, n = Len(s)
  PROVE  \E f : RunsTo(S, s, K, n, f)
<1>1. PICK f \in [0..n -> Seq(S)] : TurnsUpTo(s, K, n, f)
  BY TurnsRun
<1>2. f = ChosenTurns(s, K, f)
  <2>. DEFINE turn(i) == IF i = 0 THEN <<>> ELSE Including(f[i - 1], s[i], i \in K)
  <2>1. \A i \in 0..n : f[i] = turn(i)
    BY <1>1 DEF TurnsUpTo
  <2>. HIDE DEF turn
  <2>2. f = [i \in 0..n |-> turn(i)]
    BY <2>1
  <2>. QED
    BY <2>2 DEF ChosenTurns, turn
<1>. DEFINE g == CHOOSE h : h = [i \in 0..Len(s) |->
                                   IF i = 0 THEN <<>> ELSE Including(h[i - 1], s[i], i \in K)]
<1>3. Chosen(s, K) = g[Len(s)]
  BY DEF Chosen
<1>4. g = ChosenTurns(s, K, g)
  BY <1>2 DEF ChosenTurns
<1>. HIDE DEF g
<1>5. /\ g[0] = <<>>
      /\ \A i \in 1..n : g[i] = Including(g[i - 1], s[i], i \in K)
  BY <1>4, ChosenTurn
<1>. DEFINE same == {i \in 0..n : g[i] = f[i]}
<1>6. 0 \in same
  BY <1>1, <1>5 DEF TurnsUpTo
<1>7. ASSUME NEW i \in 1..n, i - 1 \in same PROVE i \in same
  BY <1>1, <1>5, <1>7 DEF TurnsUpTo
<1>8. \A i \in 0..n : i \in same
  <2>. HIDE DEF same
  <2>. QED
    BY <1>6, <1>7, UpTo
<1>9. g[n] = f[n]
  BY <1>8
<1>10. RunsTo(S, s, K, n, f)
  BY <1>1, <1>3, <1>9 DEF RunsTo
<1>. QED
  BY <1>10

\* The members of s at K are in turns; one more is chosen if its index is.
LEMMA ChosenType == ASSUME NEW S, NEW s \in Seq(S), NEW K PROVE Chosen(s, K) \in Seq(S)
<1>1. Len(s) \in Nat
  OBVIOUS
<1>2. PICK f : RunsTo(S, s, K, Len(s), f)
  BY <1>1, ChosenRuns
<1>. QED
  BY <1>1, <1>2 DEF RunsTo

\* Nothing is chosen of an empty sequence.
LEMMA ChosenNone == ASSUME NEW K PROVE Chosen(<<>>, K) = <<>>
<1>1. <<>> \in Seq({}) /\ Len(<<>>) = 0 /\ 0 \in Nat
  OBVIOUS
<1>2. PICK f : RunsTo({}, <<>>, K, 0, f)
  BY <1>1, ChosenRuns
<1>. QED
  BY <1>2 DEF RunsTo, TurnsUpTo

\* A member more is chosen if its index is.
LEMMA ChosenMore ==
  ASSUME NEW S, NEW s \in Seq(S), NEW x \in S, NEW K, NEW L, \A i \in 1..Len(s) : i \in K <=> i \in L
  PROVE  Chosen(Append(s, x), L) = Including(Chosen(s, K), x, Len(s) + 1 \in L)
<1>. DEFINE n == Len(s)
            t == Append(s, x)
<1>1. n \in Nat /\ n + 1 \in Nat /\ t \in Seq(S) /\ Len(t) = n + 1 /\ t[n + 1] = x /\ \A i \in 1..n : t[i] = s[i]
  OBVIOUS
<1>a. PICK f : RunsTo(S, s, K, n, f)
  BY <1>1, ChosenRuns
<1>2. f \in [0..n -> Seq(S)] /\ TurnsUpTo(s, K, n, f) /\ Chosen(s, K) = f[n]
  BY <1>a DEF RunsTo
<1>. HIDE DEF t
<1>b. PICK g : RunsTo(S, t, L, n + 1, g)
  <2>. DEFINE m == n + 1
  <2>1. m \in Nat /\ m = Len(t)
    BY <1>1
  <2>. HIDE DEF m, n
  <2>2. \E g : RunsTo(S, t, L, m, g)
    BY <1>1, <2>1, ChosenRuns
  <2>. QED
    BY <2>2 DEF m
<1>3. g \in [0..(n + 1) -> Seq(S)] /\ TurnsUpTo(t, L, n + 1, g) /\ Chosen(t, L) = g[n + 1]
  BY <1>b DEF RunsTo
<1>. HIDE DEF n
<1>. DEFINE same == {i \in 0..n : g[i] = f[i]}
<1>4. 0 \in same
  BY <1>1, <1>2, <1>3 DEF TurnsUpTo
<1>5. ASSUME NEW i \in 1..n, i - 1 \in same PROVE i \in same
  <2>1. i \in 1..(n + 1) /\ t[i] = s[i] /\ (i \in K <=> i \in L) /\ g[i - 1] = f[i - 1]
    BY <1>1, <1>5 DEF n
  <2>2. f[i] = Including(f[i - 1], s[i], i \in K)
    BY <1>2 DEF TurnsUpTo
  <2>3. g[i] = Including(g[i - 1], t[i], i \in L)
    BY <2>1, <1>3 DEF TurnsUpTo
  <2>4. g[i] = f[i]
    BY <2>1, <2>2, <2>3 DEF Including
  <2>. QED
    BY <2>4
<1>6. \A i \in 0..n : i \in same
  <2>. HIDE DEF same
  <2>. QED
    BY <1>1, <1>4, <1>5, UpTo
<1>7. g[n] = f[n]
  BY <1>1, <1>6
<1>8. g[n + 1] = Including(g[n], x, n + 1 \in L)
  <2>1. n + 1 \in 1..(n + 1) /\ (n + 1) - 1 = n
    BY <1>1
  <2>2. g[n + 1] = Including(g[(n + 1) - 1], t[n + 1], n + 1 \in L)
    BY <2>1, <1>3 DEF TurnsUpTo
  <2>. QED
    BY <2>1, <2>2, <1>1
<1>. QED
  BY <1>2, <1>3, <1>7, <1>8 DEF n, t

\* Where the members of a choice stand: in order, and each in its place.
Places(s, K, n, c, g) ==
  /\ g \in [1..Len(c) -> {i \in 1..n : i \in K}]
  /\ \A k \in 1..Len(c) : c[k] = s[g[k]]
  /\ \A j, k \in 1..Len(c) : j < k => g[j] < g[k]
  /\ \A i \in 1..n : i \in K => \E k \in 1..Len(c) : g[k] = i

\* They have places.
LEMMA ChosenPlaces ==
  ASSUME NEW S, NEW s \in Seq(S), NEW K, NEW n, n = Len(s)
  PROVE  \E g : Places(s, K, n, Chosen(s, K), g)
<1>1. n \in Nat
  OBVIOUS
<1>a. PICK f : RunsTo(S, s, K, n, f)
  BY <1>1, ChosenRuns
<1>2. f \in [0..n -> Seq(S)] /\ TurnsUpTo(s, K, n, f) /\ Chosen(s, K) = f[n]
  BY <1>a DEF RunsTo
<1>. DEFINE found == {i \in 0..n : \E g : Places(s, K, i, f[i], g)}
<1>3. 0 \in found
  <2>1. f[0] = <<>> /\ 0 \in 0..n
    BY <1>1, <1>2 DEF TurnsUpTo
  <2>. DEFINE g == [k \in 1..0 |-> k]
  <2>2. Places(s, K, 0, <<>>, g)
    BY DEF Places
  <2>. HIDE DEF g
  <2>. QED
    BY <2>1, <2>2
<1>4. ASSUME NEW i \in 1..n, i - 1 \in found PROVE i \in found
  <2>1. PICK g : Places(s, K, i - 1, f[i - 1], g)
    BY <1>4
  <2>. DEFINE c == f[i - 1]
              m == Len(c)
  <2>a. i - 1 \in 0..n /\ i \in 0..n /\ s[i] \in S
    BY <1>1
  <2>b. c \in Seq(S)
    BY <2>a, <1>2
  <2>2. c \in Seq(S) /\ m \in Nat /\ s[i] \in S /\ i \in 0..n
    BY <2>a, <2>b
  <2>3. f[i] = Including(c, s[i], i \in K)
    BY <1>2 DEF TurnsUpTo
  <2>4. CASE i \notin K
    <3>1. f[i] = c
      BY <2>3, <2>4 DEF Including
    <3>2. \A j \in 1..i : j \in K => j \in 1..(i - 1)
      BY <2>4
    <3>3. {j \in 1..i : j \in K} = {j \in 1..(i - 1) : j \in K}
      BY <3>2
    <3>4. Places(s, K, i, c, g)
      BY <2>1, <3>2, <3>3 DEF Places
    <3>. QED
      BY <3>1, <3>4, <2>2
  <2>5. CASE i \in K
    <3>. DEFINE d == Append(c, s[i])
                h == [k \in 1..(m + 1) |-> IF k = m + 1 THEN i ELSE g[k]]
    <3>1. f[i] = d
      BY <2>3, <2>5 DEF Including
    <3>2. Len(d) = m + 1 /\ d[m + 1] = s[i] /\ \A k \in 1..m : d[k] = c[k]
      BY <2>2
    <3>3. /\ g \in [1..m -> {j \in 1..(i - 1) : j \in K}]
          /\ \A k \in 1..m : c[k] = s[g[k]]
          /\ \A j, k \in 1..m : j < k => g[j] < g[k]
          /\ \A j \in 1..(i - 1) : j \in K => \E k \in 1..m : g[k] = j
      BY <2>1 DEF Places
    <3>. HIDE DEF c, m, d
    <3>4. \A k \in 1..(m + 1) : k = m + 1 \/ k \in 1..m
      BY <2>2
    <3>5. h \in [1..(m + 1) -> {j \in 1..i : j \in K}]
      BY <2>2, <2>5, <3>3, <3>4
    <3>6. m + 1 \in 1..(m + 1) /\ h[m + 1] = i /\ \A k \in 1..m : h[k] = g[k] /\ k \in 1..(m + 1)
      BY <2>2
    <3>. HIDE DEF h
    <3>7. \A k \in 1..(m + 1) : d[k] = s[h[k]]
      BY <3>2, <3>3, <3>4, <3>6
    <3>8. ASSUME NEW j \in 1..(m + 1), NEW k \in 1..(m + 1), j < k PROVE h[j] < h[k]
      <4>1. j \in 1..m
        BY <3>8, <2>2
      <4>2. g[j] \in 1..(i - 1)
        BY <4>1, <3>3
      <4>3. CASE k = m + 1
        BY <4>1, <4>2, <4>3, <3>6
      <4>4. CASE k \in 1..m
        BY <4>1, <4>4, <3>3, <3>6, <3>8
      <4>. QED
        BY <4>3, <4>4, <3>4
    <3>9. ASSUME NEW j \in 1..i, j \in K PROVE \E k \in 1..(m + 1) : h[k] = j
      <4>1. CASE j = i
        BY <4>1, <3>6
      <4>2. CASE j # i
        <5>1. j \in 1..(i - 1)
          BY <4>2
        <5>2. PICK k \in 1..m : g[k] = j
          BY <5>1, <3>3, <3>9
        <5>. QED
          BY <5>2, <3>6
      <4>. QED
        BY <4>1, <4>2
    <3>10. Places(s, K, i, d, h)
      BY <3>2, <3>5, <3>7, <3>8, <3>9 DEF Places
    <3>. QED
      BY <3>1, <3>10, <2>2
  <2>. QED
    BY <2>4, <2>5
<1>. HIDE DEF found
<1>5. \A i \in 0..n : i \in found
  BY <1>1, <1>3, <1>4, UpTo
<1>6. n \in found
  BY <1>1, <1>5
<1>. QED
  BY <1>2, <1>6 DEF found

\* A choice from one.
LEMMA ChosenOne == ASSUME NEW x, NEW K PROVE Chosen(<<x>>, K) = IF 1 \in K THEN <<x>> ELSE <<>>
<1>1. <<>> \in Seq({x}) /\ Append(<<>>, x) = <<x>> /\ Len(<<>>) + 1 = 1
  OBVIOUS
<1>2. Chosen(Append(<<>>, x), K) = Including(Chosen(<<>>, K), x, Len(<<>>) + 1 \in K)
  BY <1>1, ChosenMore
<1>3. Chosen(<<x>>, K) = Including(<<>>, x, 1 \in K)
  BY <1>1, <1>2, ChosenNone
<1>. QED
  BY <1>1, <1>3 DEF Including

\* The paths of an entry more.
LEMMA PathsOfMore ==
  ASSUME NEW S, NEW c \in Seq(S), NEW x \in S
  PROVE  /\ PathsOf(Append(c, x)) = PathsOf(c) \o <<x.path>>
         /\ Len(PathsOf(c)) = Len(c) /\ \A k \in 1..Len(c) : PathsOf(c)[k] = c[k].path
<1>1. DOMAIN c = 1..Len(c) /\ Len(c) \in Nat
  OBVIOUS
<1>. DEFINE d == Append(c, x)
            n == Len(c)
            T == {e.path : e \in S}
<1>2. d \in Seq(S) /\ Len(d) = n + 1 /\ d[n + 1] = x /\ (\A k \in 1..n : d[k] = c[k]) /\ DOMAIN d = 1..(n + 1)
  OBVIOUS
<1>3. PathsOf(c) \in Seq(T) /\ Len(PathsOf(c)) = n /\ \A k \in 1..n : PathsOf(c)[k] = c[k].path
  <2>1. \A k \in 1..n : c[k].path \in T
    OBVIOUS
  <2>. QED
    BY <1>1, <2>1 DEF PathsOf
<1>4. PathsOf(d) \in Seq(T) /\ Len(PathsOf(d)) = n + 1 /\ \A k \in 1..(n + 1) : PathsOf(d)[k] = d[k].path
  <2>1. \A k \in 1..(n + 1) : d[k] \in S
    BY <1>2
  <2>2. \A k \in 1..(n + 1) : d[k].path \in T
    BY <2>1
  <2>3. PathsOf(d) = [k \in 1..(n + 1) |-> d[k].path]
    BY <1>2 DEF PathsOf
  <2>. QED
    BY <1>1, <2>2, <2>3
<1>5. <<x.path>> \in Seq(T) /\ Len(<<x.path>>) = 1 /\ <<x.path>>[1] = x.path
  OBVIOUS
<1>. DEFINE p == PathsOf(d)
            q == PathsOf(c)
            r == <<x.path>>
<1>6. q \o r \in Seq(T) /\ Len(q \o r) = n + 1 /\ (\A k \in 1..n : (q \o r)[k] = q[k]) /\ (q \o r)[n + 1] = x.path
  BY <1>1, <1>3, <1>5
<1>7. \A k \in 1..(n + 1) : k = n + 1 \/ k \in 1..n
  BY <1>1
<1>. HIDE DEF p, q, d
<1>8. \A k \in 1..(n + 1) : p[k] = (q \o r)[k]
  BY <1>2, <1>3, <1>4, <1>6, <1>7 DEF p, q
<1>9. p = q \o r
  BY <1>4, <1>6, <1>8, SeqEqual DEF p
<1>. QED
  BY <1>3, <1>9 DEF p, q, d

\* Sequences of one member each, joined.
LEMMA FlattenSingles ==
  ASSUME NEW S, NEW s \in Seq(S)
  PROVE  FlattenSeq([i \in DOMAIN s |-> <<s[i]>>]) = s
<1>. DEFINE n == Len(s)
            q == [i \in DOMAIN s |-> <<s[i]>>]
            h == [i \in 1..n |-> SubSeq(s, 1, i)]
<1>1. n \in Nat /\ DOMAIN s = 1..n /\ Len(q) = n /\ \A i \in 1..n : q[i] = <<s[i]>>
  OBVIOUS
<1>2. CASE n = 0
  <2>1. s = <<>> /\ q = <<>>
    BY <1>1, <1>2
  <2>. QED
    BY <2>1, <1>1, <1>2 DEF FlattenSeq
<1>3. CASE n # 0
  <2>1. ASSUME NEW i \in 1..n, i # 1 PROVE SubSeq(s, 1, i) = SubSeq(s, 1, i - 1) \o <<s[i]>>
    <3>1. SubSeq(s, 1, i - 1) \in Seq(S) /\ Len(SubSeq(s, 1, i - 1)) = i - 1 /\ \A k \in 1..(i - 1) : SubSeq(s, 1, i - 1)[k] = s[k]
      BY <2>1
    <3>2. SubSeq(s, 1, i) \in Seq(S) /\ Len(SubSeq(s, 1, i)) = i /\ \A k \in 1..i : SubSeq(s, 1, i)[k] = s[k]
      BY <2>1
    <3>. DEFINE a == SubSeq(s, 1, i - 1)
                b == SubSeq(s, 1, i)
                z == <<s[i]>>
    <3>3. z \in Seq(S) /\ Len(z) = 1 /\ z[1] = s[i] /\ \A k \in 1..i : k = i \/ k \in 1..(i - 1)
      OBVIOUS
    <3>. HIDE DEF a, b, z
    <3>4. a \o z \in Seq(S) /\ Len(a \o z) = i /\ (\A k \in 1..(i - 1) : (a \o z)[k] = a[k]) /\ (a \o z)[i] = s[i]
      <4>1. a \in Seq(S) /\ Len(a) = i - 1 /\ i \in Nat /\ i > 0
        BY <1>1, <3>1 DEF a
      <4>2. /\ a \o z \in Seq(S) /\ Len(a \o z) = Len(a) + Len(z)
            /\ \A k \in 1..(Len(a) + Len(z)) : (a \o z)[k] = IF k <= Len(a) THEN a[k] ELSE z[k - Len(a)]
        BY <4>1, <3>3, ConcatProperties
      <4>. QED
        BY <4>1, <4>2, <3>3
    <3>5. \A k \in 1..i : b[k] = (a \o z)[k]
      BY <3>1, <3>2, <3>3, <3>4 DEF a, b
    <3>6. b = a \o z
      BY <3>2, <3>4, <3>5, SeqEqual DEF b
    <3>. QED
      BY <3>6 DEF a, b, z
  <2>2. SubSeq(s, 1, 1) = <<s[1]>>
    <3>1. 1 \in 1..n /\ s[1] \in S
      BY <1>1, <1>3
    <3>2. SubSeq(s, 1, 1) \in Seq(S) /\ Len(SubSeq(s, 1, 1)) = 1 /\ SubSeq(s, 1, 1)[1] = s[1]
      BY <1>1, <3>1
    <3>. DEFINE a == SubSeq(s, 1, 1)
    <3>. HIDE DEF a
    <3>3. a = <<s[1]>>
      <4>1. <<s[1]>> \in Seq(S) /\ Len(<<s[1]>>) = 1 /\ <<s[1]>>[1] = s[1]
        BY <3>1
      <4>2. a \in Seq(S) /\ Len(a) = 1 /\ a[1] = s[1]
        BY <3>2 DEF a
      <4>. DEFINE z == <<s[1]>>
      <4>. HIDE DEF z
      <4>3. \A k \in 1..Len(a) : a[k] = z[k]
        BY <4>1, <4>2 DEF z
      <4>. QED
        BY <4>1, <4>2, <4>3, SeqEqual DEF z
    <3>. QED
      BY <3>3 DEF a
  <2>3. h = [i \in 1..n |-> IF i = 1 THEN q[i] ELSE h[i - 1] \o q[i]]
    <3>. DEFINE turn(i) == IF i = 1 THEN q[i] ELSE h[i - 1] \o q[i]
    <3>1. ASSUME NEW i \in 1..n PROVE SubSeq(s, 1, i) = turn(i)
      <4>1. CASE i = 1
        BY <4>1, <2>2, <1>1
      <4>2. CASE i # 1
        <5>1. h[i - 1] = SubSeq(s, 1, i - 1)
          BY <4>2
        <5>2. q[i] = <<s[i]>>
          BY <1>1
        <5>. HIDE DEF h, q
        <5>. QED
          BY <5>1, <5>2, <4>2, <2>1
      <4>. QED
        BY <4>1, <4>2
    <3>. HIDE DEF turn
    <3>2. h = [i \in 1..n |-> turn(i)]
      BY <3>1
    <3>. QED
      BY <3>2 DEF turn
  <2>. DEFINE g == CHOOSE f : f = [i \in 1..Len(q) |-> IF i = 1 THEN q[i] ELSE f[i - 1] \o q[i]]
  <2>4. FlattenSeq(q) = g[Len(q)]
    <3>. HIDE DEF q
    <3>. QED
      BY <1>1, <1>3 DEF FlattenSeq
  <2>5. g = [i \in 1..n |-> IF i = 1 THEN q[i] ELSE g[i - 1] \o q[i]]
    <3>. HIDE DEF h, q, n
    <3>1. h = [i \in 1..Len(q) |-> IF i = 1 THEN q[i] ELSE h[i - 1] \o q[i]]
      BY <2>3, <1>1
    <3>2. g = [i \in 1..Len(q) |-> IF i = 1 THEN q[i] ELSE g[i - 1] \o q[i]]
      BY <3>1
    <3>. HIDE DEF g
    <3>. QED
      BY <3>2, <1>1
  <2>. HIDE DEF g, h, q, n
  <2>6. /\ g[1] = q[1] /\ h[1] = q[1]
        /\ \A i \in 1..n : i # 1 => g[i] = g[i - 1] \o q[i] /\ h[i] = h[i - 1] \o q[i]
    <3>1. ASSUME NEW f, f = [i \in 1..n |-> IF i = 1 THEN q[i] ELSE f[i - 1] \o q[i]]
          PROVE  f[1] = q[1] /\ \A i \in 1..n : i # 1 => f[i] = f[i - 1] \o q[i]
      <4>. DEFINE turn(i) == IF i = 1 THEN q[i] ELSE f[i - 1] \o q[i]
      <4>1. f = [i \in 1..n |-> turn(i)]
        BY <3>1
      <4>2. turn(1) = q[1] /\ \A i \in 1..n : i # 1 => turn(i) = f[i - 1] \o q[i]
        OBVIOUS
      <4>3. 1 \in 1..n
        BY <1>1, <1>3
      <4>. HIDE DEF turn
      <4>4. \A i \in 1..n : f[i] = turn(i)
        BY <4>1
      <4>5. f[1] = q[1]
        BY <4>2, <4>3, <4>4
      <4>6. ASSUME NEW i \in 1..n, i # 1 PROVE f[i] = f[i - 1] \o q[i]
        BY <4>2, <4>4, <4>6
      <4>. QED
        BY <4>5, <4>6
    <3>. QED
      BY <2>3, <2>5, <3>1
  <2>. DEFINE same == {i \in 0..n : i = 0 \/ g[i] = h[i]}
  <2>7. 0 \in same
    BY <1>1
  <2>8. ASSUME NEW i \in 1..n, i - 1 \in same PROVE i \in same
    <3>1. CASE i = 1
      BY <3>1, <2>6, <1>1
    <3>2. CASE i # 1
      <4>1. i - 1 # 0 /\ i \in 0..n
        BY <3>2, <1>1
      <4>2. g[i - 1] = h[i - 1]
        BY <4>1, <2>8
      <4>. QED
        BY <3>2, <4>1, <4>2, <2>6
    <3>. QED
      BY <3>1, <3>2
  <2>9. \A i \in 0..n : i \in same
    <3>. HIDE DEF same
    <3>. QED
      BY <1>1, <2>7, <2>8, UpTo
  <2>10. g[n] = h[n]
    BY <2>9, <1>1, <1>3
  <2>11. h[n] = s
    <3>1. h[n] = SubSeq(s, 1, n)
      BY <1>1, <1>3 DEF h
    <3>2. SubSeq(s, 1, n) = s
      BY DEF n
    <3>. QED
      BY <3>1, <3>2
  <2>. QED
    BY <1>1, <2>4, <2>10, <2>11 DEF q
<1>. QED
  BY <1>2, <1>3

-----------------------------------------------------------------------------
(* Include paths: what is recorded, searched and reported. *)

\* The directories that may be recorded, the entries, and what is remembered of an addition.
Dirs == Directories \cup {"/usr/include"}
Entries == [path : Dirs, group : {"System", "Angled"}]
Askings == [path : Dirs, existed : BOOLEAN]

\* The additions of directories that existed.
Existed(a) == {i \in 1..Len(a) : a[i].existed}

\* The entries u are what was added (a), each path once, and the directories
\* d those of them that existed.
PathsOK(u, a, d) ==
  /\ u \in Seq(Entries) /\ a \in Seq(Askings) /\ Len(u) = Len(a)
  /\ \A i \in 1..Len(u) : u[i].path = a[i].path
  /\ \A i, j \in 1..Len(u) : u[i].path = u[j].path => i = j
  /\ d = PathsOf(Chosen(a, Existed(a)))

\* The inductive invariant of the include directories.
PathsInv == PathsOK(UserEntries, asked, SearchDirs)

\* The path of one entry, or of none.
LEMMA PathsOfFew == ASSUME NEW x PROVE PathsOf(<<x>>) = <<x.path>> /\ PathsOf(<<>>) = <<>>
  BY DEF PathsOf

\* A directory that is added first is searched last, if it exists.
LEMMA AddedLast ==
  ASSUME NEW u, NEW a, NEW d, PathsOK(u, a, d), NEW e \in Entries, NEW x \in Askings,
         e.path = x.path, \A i \in 1..Len(u) : u[i].path # e.path
  PROVE  PathsOK(Append(u, e), Append(a, x), d \o (IF x.existed THEN <<x.path>> ELSE <<>>))
<1>. DEFINE n == Len(u)
            v == Append(u, e)
            b == Append(a, x)
<1>1. /\ u \in Seq(Entries) /\ a \in Seq(Askings) /\ Len(a) = n /\ n \in Nat
      /\ \A i \in 1..n : u[i].path = a[i].path
      /\ \A i, j \in 1..n : u[i].path = u[j].path => i = j
      /\ d = PathsOf(Chosen(a, Existed(a)))
  BY DEF PathsOK
<1>2. v \in Seq(Entries) /\ Len(v) = n + 1 /\ v[n + 1] = e /\ \A i \in 1..n : v[i] = u[i]
  BY <1>1
<1>3. b \in Seq(Askings) /\ Len(b) = n + 1 /\ b[n + 1] = x /\ \A i \in 1..n : b[i] = a[i]
  BY <1>1
<1>4. \A i \in 1..(n + 1) : i = n + 1 \/ i \in 1..n
  BY <1>1
<1>. HIDE DEF n, v, b
<1>5. \A i \in 1..(n + 1) : v[i].path = b[i].path
  BY <1>1, <1>2, <1>3, <1>4
<1>6. \A i, j \in 1..(n + 1) : v[i].path = v[j].path => i = j
  BY <1>1, <1>2, <1>4 DEF n
<1>7. Chosen(b, Existed(b)) = Including(Chosen(a, Existed(a)), x, n + 1 \in Existed(b))
  <2>1. \A i \in 1..Len(a) : i \in Existed(a) <=> i \in Existed(b)
    BY <1>1, <1>3 DEF Existed
  <2>. DEFINE K == Existed(a)
              L == Existed(b)
  <2>. HIDE DEF K, L
  <2>2. Chosen(Append(a, x), L) = Including(Chosen(a, K), x, Len(a) + 1 \in L)
    BY <2>1, <1>1, ChosenMore DEF K, L
  <2>. QED
    BY <2>2, <1>1 DEF b, K, L
<1>8. n + 1 \in Existed(b) <=> x.existed
  BY <1>1, <1>3 DEF Existed
<1>. DEFINE c == Chosen(a, Existed(a))
<1>9. c \in Seq(Askings)
  BY <1>1, ChosenType
<1>10. PathsOf(c) \in Seq(Dirs)
  <2>. HIDE DEF c
  <2>1. ASSUME NEW k \in 1..Len(c) PROVE c[k].path \in Dirs
    <3>1. c[k] \in Askings
      BY <1>9
    <3>. QED
      BY <3>1 DEF Askings
  <2>2. DOMAIN c = 1..Len(c) /\ Len(c) \in Nat
    BY <1>9
  <2>. QED
    BY <2>1, <2>2 DEF PathsOf
<1>11. PathsOf(Chosen(b, Existed(b))) = d \o (IF x.existed THEN <<x.path>> ELSE <<>>)
  <2>. HIDE DEF c
  <2>1. CASE x.existed
    <3>1. Chosen(b, Existed(b)) = Append(c, x)
      BY <2>1, <1>7, <1>8 DEF Including, c
    <3>2. PathsOf(Append(c, x)) = PathsOf(c) \o <<x.path>>
      BY <1>9, PathsOfMore
    <3>. QED
      BY <2>1, <3>1, <3>2, <1>1 DEF c
  <2>2. CASE ~x.existed
    <3>1. Chosen(b, Existed(b)) = c
      BY <2>2, <1>7, <1>8 DEF Including, c
    <3>. DEFINE q == PathsOf(c)
    <3>2. q \in Seq(Dirs) /\ d = q
      BY <1>1, <1>10 DEF c
    <3>. HIDE DEF q
    <3>3. q \o <<>> = q
      BY <3>2
    <3>. QED
      BY <2>2, <3>1, <3>2, <3>3 DEF q
  <2>. QED
    BY <2>1, <2>2
<1>. DEFINE z == d \o (IF x.existed THEN <<x.path>> ELSE <<>>)
<1>12. z = PathsOf(Chosen(b, Existed(b)))
  BY <1>11
<1>. HIDE DEF z
<1>13. PathsOK(v, b, z)
  BY <1>2, <1>3, <1>5, <1>6, <1>12 DEF PathsOK
<1>. QED
  BY <1>13 DEF v, b, z

\* What the preprocessor is given of one entry.
LEMMA PresentOne ==
  ASSUME NEW e, NEW D
  PROVE  Present(<<e>>, D) = IF e.path \in D THEN <<e.path>> ELSE <<>>
<1>. DEFINE K == {i \in DOMAIN <<e>> : <<e>>[i].path \in D}
<1>1. 1 \in K <=> e.path \in D
  OBVIOUS
<1>2. Present(<<e>>, D) = PathsOf(Chosen(<<e>>, K))
  BY DEF Present
<1>. HIDE DEF K
<1>3. Chosen(<<e>>, K) = IF 1 \in K THEN <<e>> ELSE <<>>
  BY ChosenOne
<1>. QED
  BY <1>1, <1>2, <1>3, PathsOfFew

\* A directory that is added keeps the two lists in step.
LEMMA AddingPath ==
  ASSUME PathsInv, NEW dir \in Directories, AddIncludePath(dir)
  PROVE  PathsInv'
<1>. DEFINE given == <<dir>>
            news == PathsChecked(given)
            more == [i \in DOMAIN news |-> [path |-> news[i], group |-> "Angled"]]
            first == Chosen(given, {i \in DOMAIN given : ~Asked(given[i])})
            told == [i \in DOMAIN first |-> [path |-> first[i], existed |-> first[i] \in onDisk]]
            e == [path |-> dir, group |-> "Angled"]
            x == [path |-> dir, existed |-> dir \in onDisk]
<1>1. /\ UserEntries' = UserEntries \o more
      /\ SearchDirs' = SearchDirs \o Present(NewEntries(UserEntries \o more), onDisk)
      /\ asked' = asked \o told
  BY DEF AddIncludePath, AddIncludePaths
<1>2. /\ UserEntries \in Seq(Entries) /\ asked \in Seq(Askings) /\ Len(UserEntries) = Len(asked)
      /\ \A i \in 1..Len(UserEntries) : UserEntries[i].path = asked[i].path
      /\ SearchDirs = PathsOf(Chosen(asked, Existed(asked)))
  BY DEF PathsInv, PathsOK
<1>3. Recorded(dir) <=> Asked(dir)
  BY <1>2 DEF Recorded, Asked
<1>4. news = IF Recorded(dir) THEN <<>> ELSE given
  <2>. DEFINE K == {i \in DOMAIN given : ~Recorded(given[i])}
  <2>1. 1 \in K <=> ~Recorded(dir)
    OBVIOUS
  <2>2. news = Chosen(<<dir>>, K)
    BY DEF PathsChecked
  <2>. HIDE DEF K, news
  <2>3. Chosen(<<dir>>, K) = IF 1 \in K THEN <<dir>> ELSE <<>>
    BY ChosenOne
  <2>. QED
    BY <2>1, <2>2, <2>3
<1>5. first = IF Recorded(dir) THEN <<>> ELSE given
  <2>. DEFINE K == {i \in DOMAIN given : ~Asked(given[i])}
  <2>1. 1 \in K <=> ~Asked(dir)
    OBVIOUS
  <2>2. first = Chosen(<<dir>>, K)
    OBVIOUS
  <2>. HIDE DEF K, first
  <2>3. Chosen(<<dir>>, K) = IF 1 \in K THEN <<dir>> ELSE <<>>
    BY ChosenOne
  <2>. QED
    BY <1>3, <2>1, <2>2, <2>3
<1>6. CASE Recorded(dir)
  <2>1. news = <<>> /\ first = <<>>
    BY <1>4, <1>5, <1>6
  <2>. HIDE DEF news, first
  <2>2. more = <<>> /\ told = <<>>
    BY <2>1
  <2>3. UserEntries \o <<>> = UserEntries /\ asked \o <<>> = asked
    BY <1>2
  <2>4. NewEntries(UserEntries) = <<>>
    BY <1>2 DEF NewEntries
  <2>5. Present(<<>>, onDisk) = <<>>
    BY ChosenNone, PathsOfFew DEF Present
  <2>. HIDE DEF more, told
  <2>6. SearchDirs \o <<>> = SearchDirs
    <3>1. SearchDirs \in Seq({y.path : y \in Askings})
      <4>. DEFINE c == Chosen(asked, Existed(asked))
      <4>1. c \in Seq(Askings) /\ SearchDirs = PathsOf(c)
        BY <1>2, ChosenType
      <4>. HIDE DEF c
      <4>2. DOMAIN c = 1..Len(c) /\ Len(c) \in Nat /\ \A k \in 1..Len(c) : c[k] \in Askings
        BY <4>1
      <4>. QED
        BY <4>1, <4>2 DEF PathsOf
    <3>. QED
      BY <3>1
  <2>7. UserEntries' = UserEntries /\ asked' = asked /\ SearchDirs' = SearchDirs
    BY <1>1, <2>2, <2>3, <2>4, <2>5, <2>6
  <2>. QED
    BY <2>7 DEF PathsInv
<1>7. CASE ~Recorded(dir)
  <2>1. news = <<dir>> /\ first = <<dir>>
    BY <1>4, <1>5, <1>7
  <2>. HIDE DEF news, first
  <2>2. more = <<e>> /\ told = <<x>>
    BY <2>1
  <2>3. e \in Entries /\ x \in Askings /\ e.path = x.path /\ e.path = dir /\ x.existed = (dir \in onDisk)
    BY DEF Entries, Askings, Dirs
  <2>. HIDE DEF e, x, more, told
  <2>4. UserEntries \o <<e>> = Append(UserEntries, e) /\ asked \o <<x>> = Append(asked, x)
    BY <1>2, <2>3
  <2>5. NewEntries(Append(UserEntries, e)) = <<e>>
    <3>. DEFINE n == Len(UserEntries)
                t == Append(UserEntries, e)
                w == SubSeq(t, n + 1, n + 1)
    <3>1. n \in Nat /\ t \in Seq(Entries) /\ Len(t) = n + 1 /\ t[n + 1] = e
      BY <1>2, <2>3
    <3>. HIDE DEF n, t
    <3>2. w \in Seq(Entries) /\ Len(w) = 1 /\ w[1] = e
      BY <3>1
    <3>. HIDE DEF w
    <3>3. w = <<e>>
      BY <3>2
    <3>. QED
      BY <3>1, <3>3 DEF NewEntries, w, t, n
  <2>6. SearchDirs' = SearchDirs \o (IF x.existed THEN <<x.path>> ELSE <<>>)
    <3>1. SearchDirs' = SearchDirs \o Present(<<e>>, onDisk)
      BY <1>1, <2>2, <2>4, <2>5
    <3>2. Present(<<e>>, onDisk) = IF e.path \in onDisk THEN <<e.path>> ELSE <<>>
      BY PresentOne
    <3>. QED
      BY <3>1, <3>2, <2>3
  <2>7. \A i \in 1..Len(UserEntries) : UserEntries[i].path # e.path
    BY <1>2, <1>7, <2>3 DEF Recorded
  <2>8. PathsOK(Append(UserEntries, e), Append(asked, x), SearchDirs \o (IF x.existed THEN <<x.path>> ELSE <<>>))
    BY <2>3, <2>7, AddedLast DEF PathsInv
  <2>. QED
    BY <1>1, <2>2, <2>4, <2>6, <2>8 DEF PathsInv
<1>. QED
  BY <1>6, <1>7

\* The entries u at K that seq names, one by one.
Leads(seq, u, K, p) ==
  /\ p \in [1..Len(seq) -> {i \in 1..Len(u) : i \in K}]
  /\ \A k \in 1..Len(seq) : seq[k] = u[p[k]].path
  /\ \A j, k \in 1..Len(seq) : j < k => p[j] < p[k]

\* What the entries at K report.
Report(u, K) == <<"">> \o PathsOf(Chosen(u, K))

\* A report has the paths of what was chosen, after the empty string.
LEMMA ReportIs ==
  ASSUME NEW u \in Seq(Entries), NEW K, NEW c, c = Chosen(u, K), NEW m, m = Len(c)
  PROVE  /\ m \in Nat /\ DOMAIN Report(u, K) = 1..(m + 1)
         /\ \A k \in 1..m : Report(u, K)[k + 1] = c[k].path
<1>1. c \in Seq(Entries) /\ m \in Nat
  BY ChosenType
<1>2. ASSUME NEW k \in 1..m PROVE c[k].path \in Dirs
  <2>1. c[k] \in Entries
    BY <1>1
  <2>. QED
    BY <2>1 DEF Entries
<1>. DEFINE q == PathsOf(c)
            z == <<"">>
            T == Dirs \cup {""}
<1>3. q \in Seq(T) /\ Len(q) = m /\ \A k \in 1..m : q[k] = c[k].path
  <2>1. DOMAIN c = 1..m
    BY <1>1
  <2>2. q = [k \in 1..m |-> c[k].path]
    BY <2>1 DEF PathsOf
  <2>3. \A k \in 1..m : c[k].path \in T
    BY <1>2
  <2>. HIDE DEF q, T
  <2>. QED
    BY <1>1, <2>2, <2>3
<1>4. z \in Seq(T) /\ Len(z) = 1
  OBVIOUS
<1>. HIDE DEF q, z, T
<1>5. /\ Len(z \o q) = m + 1 /\ z \o q \in Seq(T)
      /\ \A k \in 1..m : (z \o q)[k + 1] = q[k]
  <2>1. /\ z \o q \in Seq(T) /\ Len(z \o q) = Len(z) + Len(q)
        /\ \A k \in 1..(Len(z) + Len(q)) : (z \o q)[k] = IF k <= Len(z) THEN z[k] ELSE q[k - Len(z)]
    BY <1>3, <1>4, ConcatProperties
  <2>2. ASSUME NEW k \in 1..m PROVE (z \o q)[k + 1] = q[k]
    <3>1. k + 1 \in 1..(Len(z) + Len(q)) /\ ~(k + 1 <= Len(z)) /\ (k + 1) - Len(z) = k
      BY <1>1, <1>3, <1>4
    <3>. QED
      BY <2>1, <3>1
  <2>. QED
    BY <1>1, <1>3, <1>4, <2>1, <2>2
<1>6. Report(u, K) = z \o q
  BY DEF Report, z, q
<1>. QED
  BY <1>1, <1>3, <1>5, <1>6

\* Those that are named in order are reported in order.
LEMMA LedInOrder ==
  ASSUME NEW T, NEW seq \in Seq(T), NEW u \in Seq(Entries), NEW K, NEW p, Leads(seq, u, K, p)
  PROVE  InOrder(seq, Report(u, K))
<1>. DEFINE n == Len(u)
            c == Chosen(u, K)
            m == Len(c)
            l == Len(seq)
            all == Report(u, K)
<1>1. n \in Nat /\ l \in Nat /\ DOMAIN seq = 1..l
  OBVIOUS
<1>2. PICK g : Places(u, K, n, c, g)
  BY ChosenPlaces
<1>3. /\ g \in [1..m -> {i \in 1..n : i \in K}]
      /\ \A k \in 1..m : c[k] = u[g[k]]
      /\ \A j, k \in 1..m : j < k => g[j] < g[k]
      /\ \A i \in 1..n : i \in K => \E k \in 1..m : g[k] = i
  BY <1>2 DEF Places
<1>4. /\ p \in [1..l -> {i \in 1..n : i \in K}]
      /\ \A k \in 1..l : seq[k] = u[p[k]].path
      /\ \A j, k \in 1..l : j < k => p[j] < p[k]
  BY DEF Leads
<1>5. m \in Nat /\ DOMAIN all = 1..(m + 1) /\ \A k \in 1..m : all[k + 1] = c[k].path
  <2>1. c = Chosen(u, K) /\ m = Len(c)
    OBVIOUS
  <2>. HIDE DEF c, m
  <2>. QED
    BY <2>1, ReportIs
<1>. HIDE DEF n, c, m, l, all
<1>. DEFINE turn(k) == CHOOSE x \in 1..m : g[x] = p[k]
            f == [k \in 1..l |-> turn(k) + 1]
<1>6. ASSUME NEW k \in 1..l PROVE turn(k) \in 1..m /\ g[turn(k)] = p[k]
  <2>1. \E x \in 1..m : g[x] = p[k]
    BY <1>3, <1>4
  <2>. QED
    BY <2>1
<1>. HIDE DEF turn
<1>7. \A k \in 1..l : turn(k) + 1 \in 1..(m + 1)
  BY <1>5, <1>6
<1>8. f \in [1..l -> 1..(m + 1)] /\ \A k \in 1..l : f[k] = turn(k) + 1
  BY <1>7
<1>. HIDE DEF f
<1>9. ASSUME NEW k \in 1..l PROVE all[f[k]] = seq[k]
  <2>1. all[turn(k) + 1] = c[turn(k)].path
    BY <1>5, <1>6
  <2>2. c[turn(k)] = u[p[k]]
    BY <1>3, <1>6
  <2>. QED
    BY <2>1, <2>2, <1>4, <1>8
<1>10. ASSUME NEW j \in 1..l, NEW k \in 1..l, j < k PROVE f[j] < f[k]
  <2>1. p[j] < p[k] /\ p[j] \in Nat /\ p[k] \in Nat
    BY <1>1, <1>4, <1>10
  <2>. DEFINE a == turn(j)
              b == turn(k)
  <2>2. a \in 1..m /\ b \in 1..m /\ g[a] = p[j] /\ g[b] = p[k]
    BY <1>6
  <2>. HIDE DEF a, b
  <2>3. b < a => g[b] < g[a]
    BY <2>2, <1>3
  <2>4. b # a
    BY <2>1, <2>2
  <2>5. a < b
    BY <2>1, <2>2, <2>3, <2>4, <1>5
  <2>. QED
    BY <2>2, <2>5, <1>5, <1>8 DEF a, b
<1>. QED
  BY <1>1, <1>5, <1>8, <1>9, <1>10 DEF InOrder, all

\* The entries GetIncludePaths lists.
Listed(withSystem) ==
  {i \in DOMAIN UserEntries : withSystem \/ UserEntries[i].group \notin SystemGroups}

\* GetIncludePaths without flags is a report.
LEMMA GivesReport ==
  ASSUME UserEntries \in Seq(Entries), NEW w \in BOOLEAN
  PROVE  GetIncludePaths(w, FALSE, "") = Report(UserEntries, Listed(w))
<1>. DEFINE c == Chosen(UserEntries, Listed(w))
            s == PathsOf(c)
            q == [i \in DOMAIN c |-> <<c[i].path>>]
<1>1. CopyIncludePaths(w, FALSE, "") = FlattenSeq(q) \o <<>>
  BY DEF CopyIncludePaths, Listed
<1>2. c \in Seq(Entries)
  BY ChosenType
<1>3. Report(UserEntries, Listed(w)) = <<"">> \o s
  BY DEF Report
<1>. HIDE DEF c
<1>4. DOMAIN c = 1..Len(c) /\ Len(c) \in Nat /\ \A k \in 1..Len(c) : c[k] \in Entries
  BY <1>2
<1>5. DOMAIN s = DOMAIN c /\ s \in Seq({y.path : y \in Entries}) /\ \A k \in DOMAIN c : s[k] = c[k].path
  BY <1>4 DEF PathsOf
<1>. HIDE DEF s
<1>6. q = [i \in DOMAIN s |-> <<s[i]>>]
  BY <1>5
<1>. HIDE DEF q
<1>7. FlattenSeq(q) = s
  BY <1>5, <1>6, FlattenSingles
<1>8. s \o <<>> = s
  BY <1>5
<1>. QED
  BY <1>1, <1>3, <1>7, <1>8 DEF GetIncludePaths

\* The searched directories come from entries, in order.
LEMMA SearchedLead ==
  ASSUME PathsInv
  PROVE  /\ SearchDirs \in Seq(Dirs)
         /\ \E p : Leads(SearchDirs, UserEntries, Listed(TRUE), p)
<1>. DEFINE n == Len(asked)
            c == Chosen(asked, Existed(asked))
            m == Len(c)
<1>1. /\ UserEntries \in Seq(Entries) /\ asked \in Seq(Askings) /\ Len(UserEntries) = n /\ n \in Nat
      /\ \A i \in 1..n : UserEntries[i].path = asked[i].path
      /\ SearchDirs = PathsOf(c)
  BY DEF PathsInv, PathsOK
<1>2. c \in Seq(Askings)
  BY <1>1, ChosenType
<1>3. PICK g : Places(asked, Existed(asked), n, c, g)
  BY <1>1, ChosenPlaces
<1>. HIDE DEF n, c
<1>4. /\ g \in [1..m -> {i \in 1..n : i \in Existed(asked)}]
      /\ \A k \in 1..m : c[k] = asked[g[k]]
      /\ \A j, k \in 1..m : j < k => g[j] < g[k]
  BY <1>3 DEF Places
<1>5. ASSUME NEW k \in 1..m PROVE c[k].path \in Dirs
  <2>1. c[k] \in Askings
    BY <1>2
  <2>. QED
    BY <2>1 DEF Askings
<1>6. DOMAIN c = 1..m /\ m \in Nat
  BY <1>2
<1>7. SearchDirs \in Seq(Dirs) /\ Len(SearchDirs) = m /\ \A k \in 1..m : SearchDirs[k] = c[k].path
  BY <1>1, <1>5, <1>6 DEF PathsOf
<1>8. DOMAIN UserEntries = 1..n /\ Listed(TRUE) = 1..n
  BY <1>1 DEF Listed
<1>9. Leads(SearchDirs, UserEntries, Listed(TRUE), g)
  <2>1. g \in [1..m -> {i \in 1..n : i \in 1..n}]
    BY <1>4
  <2>2. ASSUME NEW k \in 1..m PROVE SearchDirs[k] = UserEntries[g[k]].path
    <3>1. g[k] \in 1..n /\ c[k] = asked[g[k]]
      BY <1>4
    <3>. QED
      BY <3>1, <1>1, <1>7
  <2>. HIDE DEF m
  <2>. QED
    BY <2>1, <2>2, <1>1, <1>4, <1>7, <1>8 DEF Leads
<1>. QED
  BY <1>7, <1>9

\* The directories of a user that are searched come from entries of users.
LEMMA UsersLead ==
  ASSUME PathsInv, NEW K, K = {i \in DOMAIN SearchDirs : ~OfSystem(SearchDirs[i])}
  PROVE  \E p : Leads(Chosen(SearchDirs, K), UserEntries, Listed(FALSE), p)
<1>1. /\ UserEntries \in Seq(Entries) /\ SearchDirs \in Seq(Dirs)
      /\ DOMAIN UserEntries = 1..Len(UserEntries) /\ DOMAIN SearchDirs = 1..Len(SearchDirs)
  <2>1. UserEntries \in Seq(Entries)
    BY DEF PathsInv, PathsOK
  <2>2. SearchDirs \in Seq(Dirs)
    BY SearchedLead
  <2>. QED
    BY <2>1, <2>2
<1>2. PICK g : Leads(SearchDirs, UserEntries, Listed(TRUE), g)
  BY SearchedLead
<1>. DEFINE l == Len(SearchDirs)
            n == Len(UserEntries)
            s == Chosen(SearchDirs, K)
            m == Len(s)
<1>a. l = Len(SearchDirs)
  OBVIOUS
<1>. HIDE DEF l
<1>3. PICK h : Places(SearchDirs, K, l, s, h)
  BY <1>a, <1>1, ChosenPlaces
<1>4. /\ g \in [1..l -> 1..n]
      /\ \A k \in 1..l : SearchDirs[k] = UserEntries[g[k]].path
      /\ \A j, k \in 1..l : j < k => g[j] < g[k]
  BY <1>2, <1>a DEF Leads
<1>. HIDE DEF n, s
<1>5. /\ h \in [1..m -> {i \in 1..l : i \in K}]
      /\ \A k \in 1..m : s[k] = SearchDirs[h[k]]
      /\ \A j, k \in 1..m : j < k => h[j] < h[k]
  BY <1>3 DEF Places
<1>. HIDE DEF m
<1>. DEFINE p == [k \in 1..m |-> g[h[k]]]
<1>6. ASSUME NEW k \in 1..m
      PROVE  /\ p[k] = g[h[k]] /\ h[k] \in 1..l /\ p[k] \in 1..n
             /\ s[k] = UserEntries[p[k]].path /\ p[k] \in Listed(FALSE)
  <2>1. p[k] = g[h[k]] /\ h[k] \in 1..l /\ h[k] \in K
    BY <1>5
  <2>. HIDE DEF p
  <2>2. p[k] \in 1..n /\ s[k] = SearchDirs[h[k]] /\ SearchDirs[h[k]] = UserEntries[p[k]].path
    BY <2>1, <1>4, <1>5
  <2>3. ~OfSystem(SearchDirs[h[k]])
    BY <2>1
  <2>4. UserEntries[p[k]].group \notin SystemGroups
    BY <2>2, <2>3, <1>1 DEF OfSystem, n
  <2>. QED
    BY <2>1, <2>2, <2>4, <1>1 DEF Listed, n
<1>7. p \in [1..m -> {i \in 1..n : i \in Listed(FALSE)}]
  BY <1>6
<1>. HIDE DEF p
<1>8. ASSUME NEW j \in 1..m, NEW k \in 1..m, j < k PROVE p[j] < p[k]
  <2>1. h[j] < h[k]
    BY <1>5, <1>8
  <2>2. h[j] \in 1..l /\ h[k] \in 1..l /\ p[j] = g[h[j]] /\ p[k] = g[h[k]]
    BY <1>6
  <2>. QED
    BY <2>1, <2>2, <1>4
<1>9. Leads(s, UserEntries, Listed(FALSE), p)
  <2>1. \A k \in 1..m : s[k] = UserEntries[p[k]].path
    BY <1>6
  <2>. QED
    BY <1>7, <1>8, <2>1 DEF Leads, m, n
<1>. QED
  BY <1>9 DEF s

\* The recorded and the searched directories are in step.
LEMMA InStep == PathsInv => PathsInStep
<1>. SUFFICES ASSUME PathsInv PROVE PathsInStep
  OBVIOUS
<1>1. /\ UserEntries \in Seq(Entries) /\ asked \in Seq(Askings)
      /\ Len(UserEntries) = Len(asked) /\ DOMAIN asked = 1..Len(asked)
      /\ \A i \in 1..Len(asked) : UserEntries[i].path = asked[i].path
      /\ \A i, j \in 1..Len(asked) : UserEntries[i].path = UserEntries[j].path => i = j
      /\ SearchDirs = PathsOf(Chosen(asked, Existed(asked)))
  BY DEF PathsInv, PathsOK
<1>2. SearchedAsAdded
  <2>. DEFINE K == {i \in DOMAIN asked : (\A j \in 1 .. i - 1 : asked[j].path # asked[i].path) /\ asked[i].existed}
  <2>1. ASSUME NEW i \in 1..Len(asked), NEW j \in 1 .. i - 1 PROVE asked[j].path # asked[i].path
    <3>1. j \in 1..Len(asked) /\ i # j
      BY <1>1
    <3>. QED
      BY <3>1, <1>1
  <2>2. K = Existed(asked)
    BY <2>1, <1>1 DEF Existed
  <2>3. SearchedAsAdded <=> SearchDirs = PathsOf(Chosen(asked, K))
    BY DEF SearchedAsAdded
  <2>. QED
    BY <2>2, <2>3, <1>1
<1>3. InOrder(SearchDirs, GetIncludePaths(TRUE, FALSE, ""))
  <2>1. PICK p : Leads(SearchDirs, UserEntries, Listed(TRUE), p)
    BY SearchedLead
  <2>2. InOrder(SearchDirs, Report(UserEntries, Listed(TRUE)))
    BY <2>1, <1>1, SearchedLead, LedInOrder
  <2>. QED
    BY <2>2, <1>1, GivesReport
<1>4. ASSUME NEW K, K = {i \in DOMAIN SearchDirs : ~OfSystem(SearchDirs[i])}
      PROVE  InOrder(Chosen(SearchDirs, K), GetIncludePaths(FALSE, FALSE, ""))
  <2>1. PICK p : Leads(Chosen(SearchDirs, K), UserEntries, Listed(FALSE), p)
    BY <1>4, UsersLead
  <2>2. Chosen(SearchDirs, K) \in Seq(Dirs)
    BY SearchedLead, ChosenType
  <2>3. InOrder(Chosen(SearchDirs, K), Report(UserEntries, Listed(FALSE)))
    BY <2>1, <2>2, <1>1, LedInOrder
  <2>. QED
    BY <2>3, <1>1, GivesReport
<1>. QED
  BY <1>2, <1>3, <1>4 DEF PathsInStep, SearchedIsReported

\* They are at first.
LEMMA PathsInvInit == Init => PathsInv
<1>. SUFFICES ASSUME Init PROVE PathsInv
  OBVIOUS
<1>. DEFINE e == [path |-> "/usr/include", group |-> "System"]
            x == [path |-> "/usr/include", existed |-> "/usr/include" \in Existing]
<1>1. PathsInit(Existing, <<e>>)
  BY DEF Init
<1>2. UserEntries = <<e>> /\ SearchDirs = Present(<<e>>, Existing) /\ asked = <<x>>
  BY <1>1 DEF PathsInit
<1>3. e \in Entries /\ x \in Askings /\ e.path = x.path /\ x.existed = (e.path \in Existing)
  BY DEF Entries, Askings, Dirs
<1>. HIDE DEF e, x
<1>4. <<e>> \in Seq(Entries) /\ <<x>> \in Seq(Askings) /\ Len(<<e>>) = 1 /\ Len(<<x>>) = 1
      /\ <<e>>[1] = e /\ <<x>>[1] = x
  BY <1>3
<1>5. SearchDirs = PathsOf(Chosen(asked, Existed(asked)))
  <2>. DEFINE K == Existed(<<x>>)
  <2>1. 1 \in K <=> x.existed
    BY <1>4 DEF Existed
  <2>. HIDE DEF K
  <2>2. Chosen(<<x>>, K) = IF 1 \in K THEN <<x>> ELSE <<>>
    BY ChosenOne
  <2>3. PathsOf(Chosen(<<x>>, K)) = IF x.existed THEN <<x.path>> ELSE <<>>
    BY <2>1, <2>2, PathsOfFew
  <2>4. Present(<<e>>, Existing) = IF e.path \in Existing THEN <<e.path>> ELSE <<>>
    BY PresentOne
  <2>. QED
    BY <2>3, <2>4, <1>2, <1>3 DEF K
<1>. QED
  BY <1>2, <1>3, <1>4, <1>5 DEF PathsInv, PathsOK

\* What leaves the directories alone keeps them in step.
LEMMA PathsKept == ASSUME PathsInv, UNCHANGED <<UserEntries, SearchDirs, asked>> PROVE PathsInv'
  BY DEF PathsInv

\* Only what a client does with include directories changes them.
LEMMA PathsInvStep == PathsInv /\ [Next]_vars => PathsInv'
<1>. SUFFICES ASSUME PathsInv, [Next]_vars PROVE PathsInv'
  OBVIOUS
<1>1. CASE UNCHANGED vars
  BY <1>1, PathsKept DEF vars, pathVars
<1>2. CASE Created \/ CreationFails
  BY <1>2, PathsKept DEF Created, CreationFails, vars, pathVars
<1>3. ASSUME NEW code \in Codes,
             \/ Process(code)
             \/ \E silent \in BOOLEAN : DeclareCode(code, silent)
             \/ MakeWrapper(code)
             \/ \E b \in BoxNames, p \in Payloads : Evaluate(code, b, p)
      PROVE  PathsInv'
  BY <1>3, PathsKept
     DEF Process, DeclareCode, MakeWrapper, Evaluate, process, Declare, ParseAndExecute, evaluate, Keeps, pathVars
<1>4. CASE \/ GetAddress
           \/ \E n \in 1 .. 2 : UndoInputs(n)
           \/ \E symbols \in Libraries : Load(symbols)
  BY <1>4, PathsKept DEF GetAddress, makeEngineOnce, UndoInputs, Undo, Load, LoadLibrary, Keeps, pathVars
<1>5. ASSUME NEW dir \in Directories, OnPaths(AddIncludePath(dir)) \/ OnPaths(MakeDirectory(dir))
      PROVE  PathsInv'
  <2>1. CASE OnPaths(AddIncludePath(dir))
    BY <2>1, AddingPath DEF OnPaths
  <2>2. CASE OnPaths(MakeDirectory(dir))
    BY <2>2, PathsKept DEF OnPaths, MakeDirectory
  <2>. QED
    BY <1>5, <2>1, <2>2
<1>6. ASSUME NEW b \in BoxNames, NEW o \in BoxNames,
             \/ OnBoxes(CopyConstruct(b, o)) \/ OnBoxes(CopyAssign(b, o))
             \/ OnBoxes(MoveConstruct(b, o)) \/ OnBoxes(MoveAssign(b, o))
      PROVE  PathsInv'
  BY <1>6, PathsKept DEF OnBoxes, pathVars
<1>7. CASE \/ \E b \in BoxNames : OnBoxes(Destroy(b))
           \/ \E p \in Payloads : OnBoxes(Delete(p))
  BY <1>7, PathsKept DEF OnBoxes, pathVars
<1>. QED
  BY <1>1, <1>2, <1>3, <1>4, <1>5, <1>6, <1>7 DEF Next

\* The directories that are searched are the ones that existed when they were
\* first added, once each and in that order, and are reported in it, with and
\* without the system's, through any additions and whatever appears on disk
\* (AddIncludePaths, GetIncludePaths).
THEOREM SessionPaths == Spec => []PathsInStep
  BY InStep, PathsInvInit, PathsInvStep, PTL DEF Spec

-----------------------------------------------------------------------------
(* Creation: the last resource directory of a command line. *)

\* What stands on a command line: strings, two of them in any.
Words == STRING \cup {ResourceDirFlag, "-std=c++14"}

\* A string that is not empty.
Some(d) == d # ""

\* Arguments that name a resource directory at most once, and name one.
NamesOnce(args) ==
  \A i \in 1..Len(args) :
    args[i] = ResourceDirFlag =>
      /\ i < Len(args) /\ Some(args[i + 1])
      /\ \A j \in 1..Len(args) : args[j] = ResourceDirFlag => j = i

\* The command line ends in the flag.
EndsInFlag(h) ==
  /\ Len(h.args) > 0 /\ h.args[Len(h.args)] = ResourceDirFlag
  /\ h.gpu = <<>> /\ h.env = <<>>

\* Strings that could be a directory's name, and are no flag.
DirectoryNames == Words \ (OwnFlags \cup {ResourceDirFlag})

\* A host whose packager and embedder name one resource directory each, or none.
Plainly(h) ==
  /\ h.baked \in Seq(Words) /\ h.args \in Seq(Words)
  /\ h.gpu \in Seq(Words) /\ h.env \in Seq(Words)
  /\ h.directories \subseteq DirectoryNames
  /\ h.clangSays \in Seq([dir : DirectoryNames, compatible : BOOLEAN])
  /\ NamesOnce(h.baked)
  /\ NamesOnce(h.args) \/ EndsInFlag(h)
  /\ \A i \in 1..Len(h.gpu) : h.gpu[i] # ResourceDirFlag

HostsNameOnce == \A h \in Hosts : Plainly(h)

\* The last resource directory of args is d, at place i.
LastNamed(args, i, d) ==
  /\ i \in 1..Len(args) /\ i + 1 \in 1..Len(args)
  /\ args[i] = ResourceDirFlag /\ args[i + 1] = d
  /\ \A j \in 1..Len(args) : args[j] = ResourceDirFlag => j <= i

\* args names no resource directory.
NamesNone(args) == \A i \in 1..Len(args) : args[i] # ResourceDirFlag

\* args name d and nothing else, at place i, or nothing.
OnlyNamed(args, i, d) ==
  \/ NamesNone(args) /\ ~Some(d)
  \/ LastNamed(args, i, d) /\ \A j \in 1..Len(args) : args[j] = ResourceDirFlag => j = i

\* What is named once is extracted; and if nothing is, nothing.
LEMMA Extracted ==
  ASSUME NEW args \in Seq(Words), NEW i, NEW d, OnlyNamed(args, i, d)
  PROVE  ExtractArgument(args, ResourceDirFlag) = d
<1>. DEFINE at == {k \in 1 .. Len(args) - 1 : args[k] = ResourceDirFlag}
            x == CHOOSE k \in at : \A j \in at : k <= j
<1>1. ExtractArgument(args, ResourceDirFlag) = IF at = {} THEN "" ELSE args[x + 1]
  BY DEF ExtractArgument
<1>2. Len(args) \in Nat
  OBVIOUS
<1>3. CASE NamesNone(args) /\ ~Some(d)
  <2>1. \A k \in 1 .. Len(args) - 1 : k \in 1..Len(args)
    BY <1>2
  <2>2. at = {}
    BY <2>1, <1>3 DEF NamesNone
  <2>3. ExtractArgument(args, ResourceDirFlag) = ""
    BY <2>2, <1>1
  <2>. QED
    BY <2>3, <1>3 DEF Some
<1>4. CASE LastNamed(args, i, d) /\ \A j \in 1..Len(args) : args[j] = ResourceDirFlag => j = i
  <2>1. at = {i} /\ i \in Nat /\ args[i + 1] = d
    BY <1>2, <1>4 DEF LastNamed
  <2>. HIDE DEF at
  <2>2. x = i
    BY <2>1
  <2>. QED
    BY <2>1, <2>2, <1>1
<1>. QED
  BY <1>3, <1>4 DEF OnlyNamed

\* What NamesOnce says of arguments.
LEMMA NamedOrNot ==
  ASSUME NEW args \in Seq(Words), NamesOnce(args)
  PROVE  \/ NamesNone(args) /\ ~Some(ExtractArgument(args, ResourceDirFlag))
         \/ \E i : /\ LastNamed(args, i, ExtractArgument(args, ResourceDirFlag))
                   /\ \A j \in 1..Len(args) : args[j] = ResourceDirFlag => j = i
                   /\ Some(ExtractArgument(args, ResourceDirFlag))
<1>1. Len(args) \in Nat
  OBVIOUS
<1>2. CASE NamesNone(args)
  <2>. DEFINE d == ""
  <2>1. ~Some(d)
    BY DEF Some
  <2>. HIDE DEF d
  <2>2. OnlyNamed(args, 1, d)
    BY <1>2, <2>1 DEF OnlyNamed
  <2>3. ExtractArgument(args, ResourceDirFlag) = d
    BY <2>2, Extracted
  <2>. QED
    BY <1>2, <2>1, <2>3
<1>3. CASE ~NamesNone(args)
  <2>1. PICK i \in 1..Len(args) : args[i] = ResourceDirFlag
    BY <1>3 DEF NamesNone
  <2>2. i < Len(args) /\ \A j \in 1..Len(args) : args[j] = ResourceDirFlag => j = i
    BY <2>1 DEF NamesOnce
  <2>a. Some(args[i + 1])
    BY <2>1 DEF NamesOnce
  <2>. DEFINE d == args[i + 1]
  <2>3. LastNamed(args, i, d) 
    <3>1. i + 1 \in 1..Len(args)
      BY <1>1, <2>1, <2>2
    <3>2. \A j \in 1..Len(args) : args[j] = ResourceDirFlag => j <= i
      BY <1>1, <2>1, <2>2
    <3>. QED
      BY <2>1, <2>2, <3>1, <3>2 DEF LastNamed
  <2>. HIDE DEF d
  <2>4. ExtractArgument(args, ResourceDirFlag) = d
    <3>1. OnlyNamed(args, i, d)
      BY <2>2, <2>3 DEF OnlyNamed
    <3>. QED
      BY <3>1, Extracted
  <2>. QED
    BY <2>2, <2>3, <2>4, <2>a DEF d
<1>. QED
  BY <1>2, <1>3

\* A part in front moves the place of a name.
LEMMA NamedBehind ==
  ASSUME NEW a \in Seq(Words), NEW b \in Seq(Words), NEW i, NEW d, LastNamed(b, i, d)
  PROVE  LastNamed(a \o b, Len(a) + i, d)
<1>1. /\ a \o b \in Seq(Words) /\ Len(a \o b) = Len(a) + Len(b) /\ Len(a) \in Nat /\ Len(b) \in Nat
      /\ \A k \in 1..(Len(a) + Len(b)) : (a \o b)[k] = IF k <= Len(a) THEN a[k] ELSE b[k - Len(a)]
  BY ConcatProperties
<1>2. i \in 1..Len(b) /\ i + 1 \in 1..Len(b) /\ b[i] = ResourceDirFlag /\ b[i + 1] = d
  BY DEF LastNamed
<1>. DEFINE c == a \o b
            n == Len(a)
            m == Len(b)
<1>. HIDE DEF c, n, m
<1>3. n + i \in 1..(n + m) /\ (n + i) + 1 \in 1..(n + m)
  BY <1>1, <1>2 DEF n, m
<1>4. ~(n + i <= n) /\ ~((n + i) + 1 <= n) /\ (n + i) - n = i /\ ((n + i) + 1) - n = i + 1
  BY <1>1, <1>2 DEF n, m
<1>5. c[n + i] = ResourceDirFlag /\ c[(n + i) + 1] = d
  BY <1>1, <1>2, <1>3, <1>4 DEF c, n, m
<1>6. ASSUME NEW k \in 1..(n + m), c[k] = ResourceDirFlag PROVE k <= n + i
  <2>1. CASE k <= n
    BY <2>1, <1>1, <1>2 DEF n
  <2>2. CASE ~(k <= n)
    <3>1. k - n \in 1..m /\ b[k - n] = ResourceDirFlag
      BY <2>2, <1>1, <1>6 DEF n, m, c
    <3>2. k - n <= i
      BY <3>1 DEF LastNamed, m
    <3>. QED
      BY <3>1, <3>2, <1>1, <1>2 DEF n, m
  <2>. QED
    BY <2>1, <2>2
<1>7. Len(c) = n + m
  BY <1>1 DEF c, n, m
<1>8. LastNamed(c, n + i, d)
  BY <1>3, <1>5, <1>6, <1>7 DEF LastNamed
<1>. QED
  BY <1>8 DEF c, n

\* A part behind that names none changes nothing.
LEMMA NamedBefore ==
  ASSUME NEW a \in Seq(Words), NEW b \in Seq(Words), NamesNone(b)
  PROVE  /\ NamesNone(a) => NamesNone(a \o b)
         /\ \A i, d : LastNamed(a, i, d) => LastNamed(a \o b, i, d)
         /\ \A i, d : OnlyNamed(a, i, d) => OnlyNamed(a \o b, i, d)
<1>1. /\ a \o b \in Seq(Words) /\ Len(a \o b) = Len(a) + Len(b) /\ Len(a) \in Nat /\ Len(b) \in Nat
      /\ \A k \in 1..(Len(a) + Len(b)) : (a \o b)[k] = IF k <= Len(a) THEN a[k] ELSE b[k - Len(a)]
  BY ConcatProperties
<1>. DEFINE c == a \o b
            n == Len(a)
            m == Len(b)
<1>. HIDE DEF c, n, m
<1>2. ASSUME NEW k \in 1..(n + m), c[k] = ResourceDirFlag PROVE k \in 1..n /\ a[k] = ResourceDirFlag
  <2>1. CASE k <= n
    BY <2>1, <1>1, <1>2 DEF n, m, c
  <2>2. CASE ~(k <= n)
    <3>1. k - n \in 1..m /\ b[k - n] = ResourceDirFlag
      BY <2>2, <1>1, <1>2 DEF n, m, c
    <3>. QED
      BY <3>1 DEF NamesNone, m
  <2>. QED
    BY <2>1, <2>2
<1>3. Len(c) = n + m
  BY <1>1 DEF c, n, m
<1>4. NamesNone(a) => NamesNone(c)
  BY <1>2, <1>3 DEF NamesNone, n
<1>5. ASSUME NEW i, NEW d, LastNamed(a, i, d) PROVE LastNamed(c, i, d)
  <2>1. i \in 1..n /\ i + 1 \in 1..n /\ a[i] = ResourceDirFlag /\ a[i + 1] = d
    BY <1>5 DEF LastNamed, n
  <2>2. i \in 1..(n + m) /\ i + 1 \in 1..(n + m) /\ i <= n /\ i + 1 <= n
    BY <2>1, <1>1 DEF n, m
  <2>3. c[i] = ResourceDirFlag /\ c[i + 1] = d
    BY <2>1, <2>2, <1>1 DEF c, n, m
  <2>4. \A k \in 1..(n + m) : c[k] = ResourceDirFlag => k <= i
    BY <1>2, <1>5 DEF LastNamed, n
  <2>. QED
    BY <2>2, <2>3, <2>4, <1>3 DEF LastNamed
<1>6. ASSUME NEW i, NEW d, OnlyNamed(a, i, d) PROVE OnlyNamed(c, i, d)
  <2>1. CASE NamesNone(a) /\ ~Some(d)
    BY <2>1, <1>4 DEF OnlyNamed
  <2>2. CASE LastNamed(a, i, d) /\ \A j \in 1..Len(a) : a[j] = ResourceDirFlag => j = i
    <3>1. \A k \in 1..(n + m) : c[k] = ResourceDirFlag => k = i
      BY <1>2, <2>2 DEF n
    <3>. QED
      BY <3>1, <2>2, <1>3, <1>5 DEF OnlyNamed
  <2>. QED
    BY <1>6, <2>1, <2>2 DEF OnlyNamed
<1>. QED
  BY <1>4, <1>5, <1>6 DEF c

\* What clang makes of the command line.
LEMMA ClangTakes ==
  ASSUME NEW i, NEW d \in DirectoryNames, LastNamed(Argv, i, d), DOMAIN Argv = 1..Len(Argv), Len(Argv) \in Nat
  PROVE  ClangResourceDir = d
<1>. DEFINE after(k) == {j \in CompilerArgs : k < j}
            at == {k \in CompilerArgs : Argv[k] = ResourceDirFlag /\ after(k) # {}}
            last == CHOOSE k \in at : \A j \in at : j <= k
            next == CHOOSE j \in after(last) : \A k \in after(last) : j <= k
<1>1. ClangResourceDir = IF at = {} THEN "driver's" ELSE Argv[next]
  BY DEF ClangResourceDir
<1>2. /\ i \in 1..Len(Argv) /\ i + 1 \in 1..Len(Argv) /\ Argv[i] = ResourceDirFlag /\ Argv[i + 1] = d
      /\ \A j \in 1..Len(Argv) : Argv[j] = ResourceDirFlag => j <= i
  BY DEF LastNamed
<1>3. ResourceDirFlag \notin OwnFlags /\ d \notin OwnFlags
  BY DEF DirectoryNames, OwnFlags, CudaFlags, ResourceDirFlag
<1>4. i \in CompilerArgs /\ i + 1 \in CompilerArgs /\ CompilerArgs \subseteq 1..Len(Argv)
  BY <1>2, <1>3 DEF CompilerArgs
<1>. HIDE DEF next
<1>5. i \in at /\ \A j \in at : j \in Nat /\ j <= i
  BY <1>2, <1>4
<1>. HIDE DEF at
<1>6. last = i
  BY <1>5
<1>. HIDE DEF last
<1>7. i + 1 \in after(last) /\ \A j \in after(last) : j \in Nat /\ i + 1 <= j
  BY <1>4, <1>6
<1>. HIDE DEF after
<1>8. next = i + 1
  BY <1>7 DEF next
<1>. QED
  BY <1>1, <1>2, <1>5, <1>8

-----------------------------------------------------------------------------
(* Creation: the resource directory of a host. *)

\* There is a resource directory, the one that is named if there is one.
DirectoriesExist == Some(ResourceDir) /\ (Some(Wanted) => Wanted \in host.directories)

\* The directory the embedder names, if one, is used.
EmbeddersUsed ==
  LET named == ExtractArgument(host.args, ResourceDirFlag)
  IN  Some(named) => named = ResourceDir

\* The resource directory that is used is a directory's name.
LEMMA ResourceDirIs ==
  ASSUME Plainly(host), Some(ResourceDir)
  PROVE  ResourceDir \in DirectoryNames
<1>. DEFINE dir == IF Some(Wanted) THEN Wanted ELSE MakeResourcesPath
<1>1. ResourceDir = IF dir \in host.directories THEN dir ELSE DetectResourceDir
  BY DEF ResourceDir, Some
<1>. HIDE DEF dir
<1>2. CASE dir \in host.directories
  BY <1>1, <1>2 DEF Plainly
<1>3. CASE dir \notin host.directories
  <2>. DEFINE says == host.clangSays
              Answers == [dir : DirectoryNames, compatible : BOOLEAN]
              none == ""
  <2>1. says \in Seq(Answers)
    BY DEF Plainly
  <2>2. DetectResourceDir = IF Len(says) = 1 /\ says[1].compatible THEN says[1].dir ELSE none
    BY DEF DetectResourceDir
  <2>3. ~Some(none)
    BY DEF Some
  <2>4. \A x \in Answers : x.dir \in DirectoryNames
    OBVIOUS
  <2>. HIDE DEF says, Answers, none
  <2>5. Len(says) = 1 => says[1] \in Answers
    BY <2>1
  <2>. QED
    BY <2>2, <2>3, <2>4, <2>5, <1>1, <1>3
<1>. QED
  BY <1>2, <1>3

\* The last directory named on the command line is the one the library uses.
LEMMA NamedLast ==
  ASSUME Plainly(host), NamesOnce(host.args), NamesNone(host.env),
         DirectoriesExist
  PROVE  /\ \E i : LastNamed(Argv, i, ResourceDir)
         /\ Argv \in Seq(Words)
         /\ EmbeddersUsed
<1>. DEFINE F == ResourceDirFlag
            pre == Detected \o <<"-std=c++14">>
            R == ResourceDir
            own == ExtractArgument(host.args, F)
            all == ExtractArgument(AllArgs, F)
            most == pre \o AllArgs
<1>1. /\ host.baked \in Seq(Words) /\ host.args \in Seq(Words)
      /\ host.gpu \in Seq(Words) /\ host.env \in Seq(Words)
      /\ NamesOnce(host.baked) /\ NamesNone(host.gpu)
  BY DEF Plainly, NamesNone
<1>2. R \in Words /\ Detected = <<F, R>>
  <2>1. R \in Words
    BY ResourceDirIs DEF DirectoryNames, DirectoriesExist
  <2>2. Detected = <<F, R>>
    BY DEF Detected, DirectoriesExist, Some
  <2>. QED
    BY <2>1, <2>2
<1>3. pre \in Seq(Words) /\ LastNamed(pre, 1, R)
  <2>. DEFINE std == "-std=c++14"
              y == <<F, R>>
              z == <<std>>
  <2>1. F \in Words /\ std \in Words /\ F # std
    BY DEF ResourceDirFlag, Words
  <2>2. R # F
    BY ResourceDirIs DEF DirectoryNames, DirectoriesExist
  <2>. HIDE DEF F, R, std
  <2>3. y \in Seq(Words) /\ Len(y) = 2 /\ y[1] = F /\ y[2] = R /\ z \in Seq(Words) /\ Len(z) = 1 /\ z[1] = std
    BY <1>2, <2>1
  <2>4. pre = y \o z
    BY <1>2 DEF std
  <2>. HIDE DEF y, z, pre
  <2>5. /\ y \o z \in Seq(Words) /\ Len(y \o z) = Len(y) + Len(z)
        /\ \A k \in 1..(Len(y) + Len(z)) : (y \o z)[k] = IF k <= Len(y) THEN y[k] ELSE z[k - Len(y)]
    BY <2>3, ConcatProperties
  <2>6. pre \in Seq(Words) /\ Len(pre) = 3 /\ pre[1] = F /\ pre[2] = R /\ pre[3] = std
    BY <2>3, <2>4, <2>5
  <2>7. 1 \in 1..3 /\ 1 + 1 \in 1..3 /\ 1 + 1 = 2
    OBVIOUS
  <2>8. ASSUME NEW j \in 1..3, pre[j] = F PROVE j <= 1
    BY <2>1, <2>2, <2>6, <2>8
  <2>. QED
    BY <2>6, <2>7, <2>8 DEF LastNamed, F
<1>4. AllArgs \in Seq(Words) /\ AllArgs = host.baked \o host.args
  BY <1>1 DEF AllArgs
<1>5. most \in Seq(Words) /\ most \o host.gpu \in Seq(Words) /\ (most \o host.gpu) \o host.env \in Seq(Words)
  <2>1. most \in Seq(Words)
    BY <1>3, <1>4
  <2>. HIDE DEF most
  <2>2. most \o host.gpu \in Seq(Words)
    BY <1>1, <2>1
  <2>. QED
    BY <1>1, <2>1, <2>2
<1>6. Argv = (most \o host.gpu) \o host.env
  BY DEF Argv
<1>7. Wanted = IF Some(own) THEN own ELSE all
  BY DEF Wanted, Some
<1>8. Some(Wanted) => R = Wanted
  <2>1. Some(Wanted) => Wanted \in host.directories
    BY DEF DirectoriesExist
  <2>. QED
    BY <2>1 DEF ResourceDir, Some
<1>. HIDE DEF F, R, own, all, pre
<1>9. \E i : LastNamed(most, i, R)
  <2>1. CASE \E i : LastNamed(host.args, i, own) /\ Some(own)
    <3>1. PICK i : LastNamed(host.args, i, own) /\ Some(own)
      BY <2>1
    <3>2. R = own
      BY <3>1, <1>7, <1>8
    <3>3. LastNamed(AllArgs, Len(host.baked) + i, own)
      BY <3>1, <1>1, <1>4, NamedBehind
    <3>4. LastNamed(most, Len(pre) + (Len(host.baked) + i), own)
      BY <3>3, <1>3, <1>4, NamedBehind
    <3>. QED
      BY <3>2, <3>4
  <2>2. CASE NamesNone(host.args) /\ ~Some(own)
    <3>1. CASE NamesNone(host.baked)
      <4>1. NamesNone(AllArgs)
        BY <3>1, <2>2, <1>1, <1>4, NamedBefore
      <4>2. LastNamed(most, 1, R)
        BY <4>1, <1>3, <1>4, NamedBefore
      <4>. QED
        BY <4>2
    <3>2. ASSUME NEW i, NEW d, LastNamed(host.baked, i, d), OnlyNamed(host.baked, i, d), Some(d)
          PROVE  \E k : LastNamed(most, k, R)
      <4>1. LastNamed(AllArgs, i, d) /\ OnlyNamed(AllArgs, i, d)
        BY <3>2, <2>2, <1>1, <1>4, NamedBefore
      <4>2. all = d
        BY <4>1, <1>4, Extracted DEF all, F
      <4>3. R = d
        BY <4>2, <3>2, <2>2, <1>7, <1>8
      <4>4. LastNamed(most, Len(pre) + i, d)
        BY <4>1, <1>3, <1>4, NamedBehind
      <4>. QED
        BY <4>3, <4>4
    <3>. QED
      BY <3>1, <3>2, <1>1, NamedOrNot DEF OnlyNamed
  <2>. QED
    BY <2>1, <2>2, <1>1, NamedOrNot DEF own, F
<1>. HIDE DEF most
<1>10. \E i : LastNamed(Argv, i, R)
  <2>1. PICK i : LastNamed(most, i, R)
    BY <1>9
  <2>2. LastNamed(most \o host.gpu, i, R)
    BY <2>1, <1>1, <1>5, NamedBefore
  <2>3. LastNamed((most \o host.gpu) \o host.env, i, R)
    BY <2>2, <1>1, <1>5, NamedBefore
  <2>. QED
    BY <2>3, <1>6
<1>11. (Some(own) => own = R)
  BY <1>7, <1>8
<1>. QED
  BY <1>5, <1>6, <1>10, <1>11 DEF R, own, F, EmbeddersUsed

\* Two sequences end as the second does.
LEMMA EndOfBoth ==
  ASSUME NEW T, NEW a \in Seq(T), NEW b \in Seq(T), Len(b) > 0
  PROVE  a \o b \in Seq(T) /\ Len(a \o b) > 0 /\ (a \o b)[Len(a \o b)] = b[Len(b)]
<1>1. /\ a \o b \in Seq(T) /\ Len(a \o b) = Len(a) + Len(b) /\ Len(a) \in Nat /\ Len(b) \in Nat
      /\ \A k \in 1..(Len(a) + Len(b)) : (a \o b)[k] = IF k <= Len(a) THEN a[k] ELSE b[k - Len(a)]
  BY ConcatProperties
<1>. QED
  BY <1>1

\* A command line that ends in the flag is refused.
LEMMA FlagAtEnd ==
  ASSUME Plainly(host), EndsInFlag(host), Detected \in Seq(Words)
  PROVE  ~CompilerBuilds
<1>. DEFINE pre == Detected \o <<"-std=c++14">>
            most == pre \o AllArgs
            n == Len(Argv)
<1>1. /\ host.baked \in Seq(Words) /\ host.args \in Seq(Words)
      /\ host.gpu = <<>> /\ host.env = <<>>
      /\ Len(host.args) > 0 /\ host.args[Len(host.args)] = ResourceDirFlag
  BY DEF Plainly, EndsInFlag
<1>2. AllArgs \in Seq(Words) /\ Len(AllArgs) > 0 /\ AllArgs[Len(AllArgs)] = ResourceDirFlag
  BY <1>1, EndOfBoth DEF AllArgs
<1>3. pre \in Seq(Words)
  <2>. DEFINE z == <<"-std=c++14">>
  <2>1. z \in Seq(Words)
    BY DEF Words
  <2>. HIDE DEF z
  <2>2. Detected \o z \in Seq(Words)
    BY <2>1, ConcatProperties
  <2>. QED
    BY <2>2 DEF z
<1>. HIDE DEF pre
<1>4. most \in Seq(Words) /\ Len(most) > 0 /\ most[Len(most)] = ResourceDirFlag
  BY <1>2, <1>3, EndOfBoth
<1>5. Argv = (most \o host.gpu) \o host.env
  BY DEF Argv, pre
<1>. HIDE DEF most
<1>6. Argv = most
  BY <1>1, <1>4, <1>5
<1>7. n \in CompilerArgs /\ Argv[n] = ResourceDirFlag /\ \A j \in CompilerArgs : j <= n
  <2>1. ResourceDirFlag \notin OwnFlags
    BY DEF ResourceDirFlag, OwnFlags, CudaFlags
  <2>. QED
    BY <2>1, <1>4, <1>6 DEF CompilerArgs
<1>8. n \in Nat /\ CompilerArgs \subseteq Nat
  BY <1>4, <1>6 DEF CompilerArgs
<1>. QED
  BY <1>7, <1>8 DEF CompilerBuilds

\* Libraries are searched for in the resource directory first.
LEMMA FirstSearched == ASSUME NEW dir PROVE AddLibrarySearchPaths(dir)[1].dir = dir
<1>. DEFINE x == [dir |-> dir, part |-> "lib"]
            y == [dir |-> dir, part |-> "above llvm-"]
            w == [dir |-> dir, part |-> "above clang"]
            a == IF dir \in host.underLlvm THEN <<y>> ELSE <<>>
            b == IF dir \notin host.underClang THEN <<>> ELSE <<w>>
            S == {x, y, w}
            z == <<x>>
<1>1. AddLibrarySearchPaths(dir) = (z \o a) \o b
  BY DEF AddLibrarySearchPaths
<1>2. x.dir = dir /\ x \in S /\ y \in S /\ w \in S
  OBVIOUS
<1>. HIDE DEF S, x, y, w
<1>3. z \in Seq(S) /\ Len(z) = 1 /\ z[1] = x
  BY <1>2
<1>4. a \in Seq(S) /\ b \in Seq(S)
  <2>1. <<y>> \in Seq(S) /\ <<w>> \in Seq(S) /\ <<>> \in Seq(S)
    BY <1>2
  <2>. QED
    BY <2>1
<1>. HIDE DEF a, b, z
<1>. DEFINE za == z \o a
<1>5. /\ za \in Seq(S) /\ Len(za) = Len(z) + Len(a)
      /\ \A k \in 1..(Len(z) + Len(a)) : za[k] = IF k <= Len(z) THEN z[k] ELSE a[k - Len(z)]
  BY <1>3, <1>4, ConcatProperties
<1>6. Len(a) \in Nat /\ Len(b) \in Nat
  BY <1>4
<1>7. Len(za) >= 1 /\ za[1] = x
  BY <1>3, <1>5, <1>6
<1>. HIDE DEF za
<1>8. \A k \in 1..(Len(za) + Len(b)) : (za \o b)[k] = IF k <= Len(za) THEN za[k] ELSE b[k - Len(za)]
  BY <1>4, <1>5, ConcatProperties
<1>9. 1 \in 1..(Len(za) + Len(b)) /\ 1 <= Len(za)
  BY <1>5, <1>6, <1>7
<1>10. (za \o b)[1] = x
  BY <1>7, <1>8, <1>9
<1>. QED
  BY <1>1, <1>2, <1>10 DEF za

-----------------------------------------------------------------------------
(* Creation: the interpreter that is made. *)

\* What was made is what the arguments ask for, in this process.
CreationInv ==
  /\ host \in Hosts /\ interp.made \in BOOLEAN
  /\ interp.made => interp = CreateInterpreter /\ Succeeds

\* An interpreter has one resource directory.
LEMMA OneDirectory ==
  ASSUME HostsNameOnce, CreationInv
  PROVE  OneResourceDir
<1>. SUFFICES ASSUME interp.made, ResourceDirFlag \notin Range(host.env), DirectoriesExist
              PROVE  /\ interp.resourceDir = interp.libraryPaths[1].dir
                     /\ Some(ExtractArgument(host.args, ResourceDirFlag))
                          => ExtractArgument(host.args, ResourceDirFlag) = interp.resourceDir
  BY DEF OneResourceDir, DirectoriesExist, Some
<1>1. Plainly(host) /\ Succeeds /\ interp = CreateInterpreter
  BY DEF HostsNameOnce, CreationInv
<1>2. interp.resourceDir = ClangResourceDir /\ interp.libraryPaths = AddLibrarySearchPaths(ResourceDir)
  BY <1>1 DEF CreateInterpreter
<1>3. AddLibrarySearchPaths(ResourceDir)[1].dir = ResourceDir
  BY FirstSearched
<1>4. ~EndsInFlag(host)
  <2>1. ResourceDir \in Words
    BY <1>1, ResourceDirIs DEF DirectoryNames, DirectoriesExist
  <2>2. Detected \in Seq(Words)
    <3>1. ResourceDirFlag \in Words
      BY DEF Words
    <3>2. <<>> \in Seq(Words) /\ <<ResourceDirFlag, ResourceDir>> \in Seq(Words)
      BY <2>1, <3>1
    <3>. QED
      BY <3>2 DEF Detected
  <2>3. CompilerBuilds
    BY <1>1 DEF Succeeds, createClangInterpreter
  <2>. QED
    BY <2>2, <2>3, <1>1, FlagAtEnd
<1>5. NamesOnce(host.args)
  BY <1>1, <1>4 DEF Plainly
<1>6. NamesNone(host.env)
  <2>1. host.env \in Seq(Words)
    BY <1>1 DEF Plainly
  <2>2. DOMAIN host.env = 1..Len(host.env)
    BY <2>1
  <2>. QED
    BY <2>2 DEF NamesNone, Range
<1>7. PICK i : LastNamed(Argv, i, ResourceDir)
  BY <1>1, <1>5, <1>6, NamedLast
<1>8. Argv \in Seq(Words) /\ EmbeddersUsed
  BY <1>1, <1>5, <1>6, NamedLast
<1>9. ClangResourceDir = ResourceDir
  <2>1. ResourceDir \in DirectoryNames
    BY <1>1, ResourceDirIs DEF DirectoriesExist
  <2>2. DOMAIN Argv = 1..Len(Argv) /\ Len(Argv) \in Nat
    BY <1>8
  <2>. QED
    BY <1>7, <2>1, <2>2, ClangTakes
<1>. QED
  BY <1>2, <1>3, <1>8, <1>9 DEF EmbeddersUsed

\* What CreateInterpreter makes depends on the host only.
LEMMA SameHost ==
  ASSUME host' = host
  PROVE  CreateInterpreter' = CreateInterpreter /\ (Succeeds' <=> Succeeds)
<1>1. AllArgs' = AllArgs
  BY DEF AllArgs
<1>2. Wanted' = Wanted
  BY <1>1 DEF Wanted
<1>3. MakeResourcesPath' = MakeResourcesPath /\ DetectResourceDir' = DetectResourceDir
  BY DEF MakeResourcesPath, DetectResourceDir
<1>4. ResourceDir' = ResourceDir
  BY <1>2, <1>3 DEF ResourceDir
<1>5. Argv' = Argv
  <2>1. Detected' = Detected
    BY <1>4 DEF Detected
  <2>. QED
    BY <2>1, <1>1 DEF Argv
<1>6. (CudaEnabled' <=> CudaEnabled) /\ CompilerArgs' = CompilerArgs
  BY <1>5 DEF CudaEnabled, CompilerArgs
<1>7. ClangResourceDir' = ClangResourceDir
  BY <1>5, <1>6 DEF ClangResourceDir
<1>8. CompilerBuilds' <=> CompilerBuilds
  BY <1>5, <1>6 DEF CompilerBuilds
<1>9. Language' = Language /\ OffloadArch' = OffloadArch /\ CudaPath' = CudaPath
  BY <1>5, <1>6 DEF Language, OffloadArch, CudaPath
<1>10. (outOfProcess' <=> outOfProcess) /\ configureBundledOOPRuntime' = configureBundledOOPRuntime
  BY <1>5 DEF outOfProcess, configureBundledOOPRuntime
<1>11. /\ ExecutorElsewhere' <=> ExecutorElsewhere
       /\ installsGlibcNonsharedSupport' <=> installsGlibcNonsharedSupport
  BY <1>6, <1>10 DEF ExecutorElsewhere, installsGlibcNonsharedSupport
<1>12. AddLibrarySearchPaths(ResourceDir)' = AddLibrarySearchPaths(ResourceDir)
  BY <1>4 DEF AddLibrarySearchPaths
<1>13. Succeeds' <=> Succeeds
  <2>1. GpuArgsAccepted' <=> GpuArgsAccepted
    BY DEF GpuArgsAccepted
  <2>2. FilesOpen' <=> FilesOpen
    BY <1>10 DEF FilesOpen
  <2>3. createClangInterpreter' <=> createClangInterpreter
    BY <1>6, <1>8 DEF createClangInterpreter
  <2>. QED
    BY <2>1, <2>2, <2>3 DEF Succeeds
<1>14. (IF CudaEnabled THEN <<OffloadArch, CudaPath>> ELSE <<>>)'
         = IF CudaEnabled THEN <<OffloadArch, CudaPath>> ELSE <<>>
  BY <1>6, <1>9
<1>15. (IF ExecutorElsewhere THEN configureBundledOOPRuntime ELSE "")'
         = IF ExecutorElsewhere THEN configureBundledOOPRuntime ELSE ""
  BY <1>10, <1>11
<1>16. /\ outOfProcess' = outOfProcess /\ ExecutorElsewhere' = ExecutorElsewhere
       /\ installsGlibcNonsharedSupport' = installsGlibcNonsharedSupport
  <2>1. outOfProcess' = outOfProcess
    BY <1>5 DEF outOfProcess
  <2>2. installsGlibcNonsharedSupport' = installsGlibcNonsharedSupport
    BY <2>1 DEF installsGlibcNonsharedSupport
  <2>3. ExecutorElsewhere \in BOOLEAN /\ ExecutorElsewhere' \in BOOLEAN
    BY DEF ExecutorElsewhere
  <2>4. ExecutorElsewhere' = ExecutorElsewhere
    BY <2>3, <1>11
  <2>. QED
    BY <2>1, <2>2, <2>4
<1>17. CreateInterpreter' = CreateInterpreter
  BY <1>4, <1>7, <1>9, <1>12, <1>13, <1>14, <1>15, <1>16 DEF CreateInterpreter
<1>. QED
  BY <1>13, <1>17

\* An interpreter is made once, of its host.
LEMMA CreationInvStep == CreationInv /\ [Next]_vars => CreationInv'
<1>. SUFFICES ASSUME CreationInv, [Next]_vars PROVE CreationInv'
  OBVIOUS
<1>1. host' = host /\ (interp' = interp \/ Created)
  <2>1. CASE UNCHANGED vars
    BY <2>1 DEF vars
  <2>2. CASE Created \/ CreationFails
    BY <2>2 DEF Created, CreationFails, vars
  <2>3. ASSUME NEW code \in Codes,
               \/ Process(code)
               \/ \E silent \in BOOLEAN : DeclareCode(code, silent)
               \/ MakeWrapper(code)
               \/ \E b \in BoxNames, p \in Payloads : Evaluate(code, b, p)
        PROVE  UNCHANGED <<host, interp>>
    BY <2>3 DEF Process, DeclareCode, MakeWrapper, Evaluate, Running
  <2>4. CASE \/ GetAddress
             \/ \E n \in 1 .. 2 : UndoInputs(n)
             \/ \E symbols \in Libraries : Load(symbols)
    BY <2>4 DEF GetAddress, UndoInputs, Load, Running
  <2>5. CASE \E dir \in Directories : OnPaths(AddIncludePath(dir)) \/ OnPaths(MakeDirectory(dir))
    BY <2>5 DEF OnPaths, Running
  <2>6. ASSUME NEW b \in BoxNames, NEW o \in BoxNames,
               \/ OnBoxes(CopyConstruct(b, o)) \/ OnBoxes(CopyAssign(b, o))
               \/ OnBoxes(MoveConstruct(b, o)) \/ OnBoxes(MoveAssign(b, o))
        PROVE  UNCHANGED <<host, interp>>
    BY <2>6 DEF OnBoxes, Running
  <2>7. CASE \/ \E b \in BoxNames : OnBoxes(Destroy(b))
             \/ \E p \in Payloads : OnBoxes(Delete(p))
    BY <2>7 DEF OnBoxes, Running
  <2>. QED
    BY <2>1, <2>2, <2>3, <2>4, <2>5, <2>6, <2>7 DEF Next
<1>2. CreateInterpreter' = CreateInterpreter /\ (Succeeds' <=> Succeeds)
  BY <1>1, SameHost
<1>3. CASE interp' = interp
  BY <1>1, <1>2, <1>3 DEF CreationInv
<1>4. CASE Created
  <2>1. interp' = CreateInterpreter /\ interp'.made
    BY <1>4 DEF Created
  <2>2. Succeeds /\ interp'.made \in BOOLEAN
    <3>1. ~Succeeds => CreateInterpreter.made = FALSE
      BY DEF CreateInterpreter, NoInterpreter
    <3>2. Succeeds => CreateInterpreter.made = TRUE
      BY DEF CreateInterpreter
    <3>. QED
      BY <2>1, <3>1, <3>2
  <2>. QED
    BY <1>1, <1>2, <2>1, <2>2 DEF CreationInv
<1>. QED
  BY <1>1, <1>3, <1>4

\* At first there is none.
LEMMA CreationInvInit == Init => CreationInv
  BY DEF Init, CreationInv, NoInterpreter

\* The shims are where code runs in this process.
LEMMA ShimsInPlace == CreationInv => ShimsWhereCodeRuns
<1>. SUFFICES ASSUME CreationInv, interp.made, ~FellBack
              PROVE  interp.glibcShims = ~interp.elsewhere
  BY DEF ShimsWhereCodeRuns
<1>1. interp = CreateInterpreter /\ Succeeds
  BY DEF CreationInv
<1>2. interp.glibcShims = installsGlibcNonsharedSupport /\ interp.elsewhere = ExecutorElsewhere
  BY <1>1 DEF CreateInterpreter
<1>3. installsGlibcNonsharedSupport = ~ExecutorElsewhere
  BY DEF FellBack, installsGlibcNonsharedSupport, ExecutorElsewhere
<1>. QED
  BY <1>2, <1>3

\* Every variable has its type.
LEMMA SessionTypes ==
  ASSUME InputInv, BoxInv, CreationInv
  PROVE  TypeOK
<1>1. /\ Globals = Program.globals /\ ptus \in Seq(Units)
      /\ exports \subseteq Symbols /\ DedupedWeakTLS \subseteq Symbols
      /\ \A i \in 1 .. Len(ptus) : UnitOK(ptus, i, exports, DedupedWeakTLS, undone, InProcess)
  BY DEF InputInv, InputsOK
<1>2. DOMAIN Globals = Symbols
  BY <1>1 DEF Symbols
<1>3. DOMAIN ptus = 1 .. Len(ptus) /\ Len(ptus) \in Nat
  BY <1>1
<1>4. ASSUME NEW i \in 1 .. Len(ptus)
      PROVE  /\ ptus[i].via \in {"passes", "evaluate"}
             /\ DOMAIN ptus[i].linkage \subseteq Symbols
             /\ \A s \in DOMAIN ptus[i].linkage :
                  /\ ptus[i].linkage[s] \in {"weak", "available", "external"}
                  /\ ptus[i].bound[s][2] \in 0 .. i
  <2>1. ptus[i] \in Units
    BY <1>1
  <2>2. ptus[i].via \in {"passes", "evaluate"}
    BY <2>1 DEF Units
  <2>3. UnitForm(ptus, i) /\ \A s \in DOMAIN ptus[i].linkage :
          /\ LinkageOK(ptus, i, s, exports, DedupedWeakTLS, InProcess) /\ BoundOK(ptus, i, s)
    BY <1>1 DEF UnitOK
  <2>4. DOMAIN ptus[i].linkage \subseteq Symbols
    BY <2>3 DEF UnitForm, Whole
  <2>5. ASSUME NEW s \in DOMAIN ptus[i].linkage
        PROVE  ptus[i].linkage[s] \in {"weak", "available", "external"}
    BY <2>3 DEF LinkageOK
  <2>6. ASSUME NEW s \in DOMAIN ptus[i].linkage
        PROVE  ptus[i].bound[s][2] \in 0 .. i
    <3>. DEFINE x == ptus[i].bound[s]
    <3>1. \/ \E k \in 1 .. i - 1 : x = <<"unit", k>>
          \/ x \in {<<"unit", i>>, <<"process", 0>>, <<"nowhere", 0>>}
      BY <2>3 DEF BoundOK
    <3>. HIDE DEF x
    <3>2. x[2] \in 0 .. i
      BY <3>1
    <3>. QED
      BY <3>2 DEF x
  <2>. QED
    BY <2>2, <2>4, <2>5, <2>6
<1>5. /\ box \in [BoxNames -> BoxValues \cup {Null}]
      /\ rc \in [Payloads -> Nat \cup {Null}] /\ doomed \subseteq Payloads
  BY DEF BoxInv, BoxesOK, BoxTypes
<1>6. interp.made \in BOOLEAN
  BY DEF CreationInv
<1>. QED
  BY <1>1, <1>2, <1>3, <1>4, <1>5, <1>6 DEF TypeOK

\* For hosts whose packager and embedder name at most one resource directory
\* each: the compiler and the library search agree on the directory, it is the
\* embedder's if there is one, and the shims of this process are installed
\* exactly where code runs in it (CreateInterpreter, Interpreter::create).
THEOREM SessionCreated == HostsNameOnce => (Spec => []CreatedAsAsked)
<1>. SUFFICES ASSUME HostsNameOnce PROVE Spec => []CreatedAsAsked
  OBVIOUS
<1>. DEFINE Inv == InputInv /\ BoxInv /\ CreationInv
<1>1. Init => Inv
  BY InputInvInit, BoxInvInit, CreationInvInit
<1>2. Inv /\ [Next]_vars => Inv'
  BY InputInvStep, BoxInvStep, CreationInvStep
<1>3. Inv => CreatedAsAsked
  BY SessionTypes, OneDirectory, ShimsInPlace DEF CreatedAsAsked
<1>. QED
  BY <1>1, <1>2, <1>3, PTL DEF Spec

-----------------------------------------------------------------------------
(* Templates: integers. *)

\* Every power of two is a positive number: that many sets can be made of n things.
LEMMA Power == ASSUME NEW n \in Nat PROVE 2^n \in Nat /\ 2^n > 0
<1>1. IsFiniteSet(1..n) /\ Cardinality(1..n) = n
  BY FS_Interval
<1>2. IsFiniteSet(SUBSET (1..n)) /\ Cardinality(SUBSET (1..n)) = 2^n
  BY <1>1, FS_SUBSET
<1>3. Cardinality(SUBSET (1..n)) \in Nat /\ (Cardinality(SUBSET (1..n)) = 0 => SUBSET (1..n) = {})
  BY <1>2, FS_CardinalityType, FS_EmptySet
<1>. QED
  BY <1>2, <1>3

\* Remainders of numbers of one turn.
LEMMA Remainder ==
  ASSUME NEW m \in Nat, m > 0, NEW v \in Int
  PROVE  /\ 0 <= v /\ v < m => v % m = v
         /\ 0 - m <= v /\ v < 0 => v % m = v + m
OBVIOUS

\* A value that fits a type is not changed by widening or cutting it.
LEMMA FittingKept ==
  ASSUME lib = Library, NEW t \in DOMAIN Library.widths, NEW v \in Int, Fits(v, t)
  PROVE  extOrTrunc(v, t) = v
<1>. DEFINE m == 2^(IntWidth[t].bits)
<1>1. m \in Nat /\ m > 0 /\ IntWidth[t].signed \in BOOLEAN
  BY Power, LibraryAssumption DEF IntWidth
<1>2. IF IntWidth[t].signed THEN 0 - m <= 2 * v /\ 2 * v < m ELSE 0 <= v /\ v < m
  BY DEF Fits
<1>3. extOrTrunc(v, t) = IF IntWidth[t].signed /\ 2 * (v % m) >= m THEN (v % m) - m ELSE v % m
  BY DEF extOrTrunc
<1>. HIDE DEF m
<1>4. 0 <= v /\ v < m => v % m = v
  BY <1>1, Remainder
<1>5. 0 - m <= v /\ v < 0 => v % m = v + m
  BY <1>1, Remainder
<1>6. CASE ~IntWidth[t].signed
  BY <1>2, <1>3, <1>4, <1>6
<1>7. CASE IntWidth[t].signed /\ 0 <= v
  BY <1>1, <1>2, <1>3, <1>4, <1>7
<1>8. CASE IntWidth[t].signed /\ v < 0
  BY <1>1, <1>2, <1>3, <1>5, <1>8
<1>. QED
  BY <1>1, <1>6, <1>7, <1>8

-----------------------------------------------------------------------------
(* The arguments of a specialization. *)

\* A list of arguments a client can name, as TemplateArguments makes it.
LEMMA Named ==
  ASSUME lib = Library, NEW infos \in TemplateArgInfos, NEW A, A = TemplateArguments(infos)
  PROVE  /\ Len(infos) \in Nat /\ DOMAIN A = 1..Len(infos) /\ Len(A) = Len(infos)
         /\ \A i \in DOMAIN A :
              IF infos[i].value = NoDecl THEN A[i] = TypeArgument(infos[i].type)
              ELSE A[i] = IntegralArgument(infos[i].type, extOrTrunc(infos[i].value, infos[i].type))
<1>1. Len(infos) \in Nat /\ DOMAIN infos = 1..Len(infos)
  BY LibraryAssumption DEF TemplateArgInfos
<1>2. A = [i \in 1..Len(infos) |->
             IF infos[i].value = NoDecl THEN TypeArgument(infos[i].type)
             ELSE IntegralArgument(infos[i].type, extOrTrunc(infos[i].value, infos[i].type))]
  BY <1>1 DEF TemplateArguments
<1>. QED
  BY <1>1, <1>2

\* The parameters of a template.
LEMMA Parameters ==
  ASSUME lib = Library, NEW tmpl \in DOMAIN TemplateDecls, NEW ps, ps = TemplateDecls[tmpl].params
  PROVE  /\ Len(ps) \in Nat /\ Len(ps) > 0 /\ DOMAIN ps = 1..Len(ps) /\ Last(ps) = ps[Len(ps)]
         /\ \A i \in DOMAIN ps :
              /\ ps[i].pack \in BOOLEAN
              /\ ps[i].pack /\ TemplateDecls[tmpl].kind = "class" => i = Len(ps)
              /\ ~ps[i].pack /\ ps[i].default # NoDecl =>
                   IF ps[i].kind = "type" THEN ps[i].default = TypeArgument(ps[i].default.type)
                   ELSE ps[i].default = IntegralArgument(ps[i].type, ps[i].default.value)
BY LibraryAssumption DEF TemplateDecls, Last

\* The kinds of arguments.
LEMMA Kinds ==
  ASSUME NEW t, NEW v, NEW as
  PROVE  /\ TypeArgument(t).k = "Type" /\ TypeArgument(t).type = t
         /\ IntegralArgument(t, v).k = "Integral" /\ IntegralArgument(t, v).value = v
         /\ PackArgument(as).k = "Pack" /\ PackArgument(as).pack = as
BY DEF TypeArgument, IntegralArgument, PackArgument

\* A type argument is what it was named.
LEMMA OnlyTypes ==
  ASSUME NEW p, NEW a, NEW t, NEW v, a = TypeArgument(t) \/ a = IntegralArgument(t, v),
         Matches(p, a), AsParameter(p, a).k = "Type"
  PROVE  p.kind = "type" /\ AsParameter(p, a) = a /\ a = TypeArgument(a.type)
<1>1. a = IntegralArgument(t, v) => a.k = "Integral" /\ [a EXCEPT !.type = p.type].k = "Integral"
  BY DEF IntegralArgument
<1>2. a = TypeArgument(t) => a.k = "Type"
  BY Kinds
<1>3. p.kind = "type"
  BY <1>1, <1>2 DEF Matches, AsParameter
<1>4. a = TypeArgument(t)
  BY <1>1, <1>3 DEF Matches
<1>. QED
  BY <1>3, <1>4, Kinds DEF AsParameter

\* An accepted argument matches the parameter it is for.
LEMMA Fitting ==
  ASSUME lib = Library, NEW tmpl \in DOMAIN TemplateDecls, NEW ps, ps = TemplateDecls[tmpl].params,
         NEW A, Accepts(tmpl, A), NEW i \in DOMAIN A
  PROVE  /\ i <= Len(ps) => Matches(ps[i], A[i])
         /\ ~(i <= Len(ps)) => ps[Len(ps)].pack /\ Matches(ps[Len(ps)], A[i])
<1>1. Last(ps) = ps[Len(ps)]
  BY Parameters
<1>. QED
  BY <1>1 DEF Accepts, ParameterFor

\* A pack of n types.
TookTypes(p, a, n, P) ==
  /\ n \in Nat /\ a = PackArgument(P) /\ P = [j \in 1..n |-> P[j]]
  /\ \A j \in 1..n : p.kind = "type" /\ P[j] = TypeArgument(P[j].type)

\* The canonical arguments of a class, of types only: each that is no pack is a
\* type for a parameter of types, and so is each that a pack took.
LEMMA TypesOnly ==
  ASSUME lib = Library, NEW tmpl \in DOMAIN TemplateDecls, TemplateDecls[tmpl].kind = "class",
         NEW infos \in TemplateArgInfos, NEW A, A = TemplateArguments(infos), Accepts(tmpl, A),
         NEW ps, ps = TemplateDecls[tmpl].params, NEW C, C = Canonical(tmpl, A),
         OfTypes(Instance(tmpl, C))
  PROVE  /\ DOMAIN C = 1..Len(ps)
         /\ \A i \in 1..Len(ps) : ~ps[i].pack =>
              ps[i].kind = "type" /\ C[i] = TypeArgument(C[i].type)
         /\ \A i \in 1..Len(ps) : ps[i].pack =>
              /\ i = Len(ps)
              /\ \E n, P : TookTypes(ps[i], C[i], n, P)
<1>1. /\ Len(ps) \in Nat /\ Len(ps) > 0 /\ DOMAIN ps = 1..Len(ps)
      /\ \A i \in 1..Len(ps) :
              /\ ps[i].pack \in BOOLEAN
              /\ ps[i].pack => i = Len(ps)
              /\ ~ps[i].pack /\ ps[i].default # NoDecl =>
                   IF ps[i].kind = "type" THEN ps[i].default = TypeArgument(ps[i].default.type)
                   ELSE ps[i].default = IntegralArgument(ps[i].type, ps[i].default.value)
  BY Parameters
<1>2. /\ Len(A) \in Nat /\ DOMAIN A = 1..Len(A)
      /\ \A i \in 1..Len(A) : \E t, v : A[i] = TypeArgument(t) \/ A[i] = IntegralArgument(t, v)
  BY Named
<1>3. /\ DOMAIN C = 1..Len(ps)
      /\ \A i \in 1..Len(ps) :
           /\ ps[i].pack => C[i] = PackArgument([j \in 1..(Len(A) - i + 1) |-> AsParameter(ps[i], A[i + j - 1])])
           /\ ~ps[i].pack /\ i \in DOMAIN A => C[i] = AsParameter(ps[i], A[i])
           /\ ~ps[i].pack /\ i \notin DOMAIN A => C[i] = ps[i].default
  BY <1>1 DEF Canonical
<1>4. \A i \in 1..Len(ps) : \/ C[i].k = "Type"
                            \/ C[i].k = "Pack" /\ \A j \in DOMAIN C[i].pack : C[i].pack[j].k = "Type"
  BY <1>3 DEF OfTypes, Instance
<1>5. ASSUME NEW i \in 1..Len(ps), ~ps[i].pack
      PROVE  ps[i].kind = "type" /\ C[i] = TypeArgument(C[i].type)
  <2>1. CASE i \in DOMAIN A
    <3>1. Matches(ps[i], A[i]) /\ C[i] = AsParameter(ps[i], A[i])
      <4>1. i <= Len(ps)
        BY <1>1
      <4>2. Matches(ps[i], A[i])
        BY <2>1, <4>1, Fitting
      <4>. QED
        BY <1>3, <1>5, <2>1, <4>2
    <3>2. PICK t, v : A[i] = TypeArgument(t) \/ A[i] = IntegralArgument(t, v)
      BY <1>2, <2>1
    <3>3. A[i].k \in {"Type", "Integral"} /\ C[i].k \in {"Type", "Integral"}
      <4>1. A[i] = TypeArgument(t) => A[i].k = "Type" /\ [A[i] EXCEPT !.type = ps[i].type].k = "Type"
        BY DEF TypeArgument
      <4>2. A[i] = IntegralArgument(t, v) =>
              A[i].k = "Integral" /\ [A[i] EXCEPT !.type = ps[i].type].k = "Integral"
        BY DEF IntegralArgument
      <4>. QED
        BY <3>1, <3>2, <4>1, <4>2 DEF AsParameter
    <3>4. C[i].k = "Type"
      BY <1>4, <3>3
    <3>5. ps[i].kind = "type" /\ AsParameter(ps[i], A[i]) = A[i] /\ A[i] = TypeArgument(A[i].type)
      <4>1. AsParameter(ps[i], A[i]).k = "Type"
        BY <3>1, <3>4
      <4>. QED
        BY <3>1, <3>2, <4>1, OnlyTypes
    <3>. QED
      BY <3>1, <3>5
  <2>2. CASE i \notin DOMAIN A
    <3>1. C[i] = ps[i].default
      BY <1>3, <1>5, <2>2
    <3>2. ps[i].default # NoDecl
      BY <1>1, <1>2, <1>5, <2>2 DEF Accepts
    <3>3. ps[i].kind # "type" => C[i].k = "Integral"
      BY <1>1, <1>5, <3>1, <3>2, Kinds
    <3>4. ps[i].kind = "type"
      BY <1>4, <3>3
    <3>. QED
      BY <1>1, <1>5, <3>1, <3>2, <3>4
  <2>. QED
    BY <2>1, <2>2
<1>6. ASSUME NEW i \in 1..Len(ps), ps[i].pack
      PROVE  \E n, P : TookTypes(ps[i], C[i], n, P)
  <2>. DEFINE n == Len(A) - i + 1
              P == [j \in 1..n |-> AsParameter(ps[i], A[i + j - 1])]
  <2>1. C[i] = PackArgument(P) /\ i = Len(ps) /\ n \in Int
    BY <1>1, <1>2, <1>3, <1>6
  <2>2. DOMAIN P = 1..n /\ P = [j \in 1..n |-> P[j]] /\ \A j \in 1..n : P[j] = AsParameter(ps[i], A[i + j - 1])
    OBVIOUS
  <2>3. n = Len(A) - i + 1
    OBVIOUS
  <2>. HIDE DEF P, n
  <2>4. C[i].k = "Pack" /\ C[i].pack = P
    BY <2>1, Kinds
  <2>5. \A j \in 1..n : P[j].k = "Type"
    <3>1. C[i].k # "Type"
      BY <2>4
    <3>2. \A j \in DOMAIN C[i].pack : C[i].pack[j].k = "Type"
      BY <1>4, <3>1
    <3>. QED
      BY <2>2, <2>4, <3>2
  <2>6. ASSUME NEW j \in 1..n
        PROVE  ps[i].kind = "type" /\ P[j] = TypeArgument(P[j].type)
    <3>1. i + j - 1 \in DOMAIN A /\ (i + j - 1 <= Len(ps) => i + j - 1 = i)
      BY <1>1, <1>2, <2>1, <2>3
    <3>2. Matches(ps[i], A[i + j - 1])
      BY <2>1, <3>1, Fitting
    <3>3. P[j] = AsParameter(ps[i], A[i + j - 1]) /\ P[j].k = "Type"
      BY <2>2, <2>5
    <3>4. PICK t, v : A[i + j - 1] = TypeArgument(t) \/ A[i + j - 1] = IntegralArgument(t, v)
      BY <1>2, <3>1
    <3>5. /\ ps[i].kind = "type" /\ AsParameter(ps[i], A[i + j - 1]) = A[i + j - 1]
          /\ A[i + j - 1] = TypeArgument(A[i + j - 1].type)
      BY <3>2, <3>3, <3>4, OnlyTypes
    <3>. QED
      BY <3>3, <3>5
  <2>7. \E k \in Nat : 1..n = 1..k
    <3>1. n < 0 => 1..n = 1..0
      BY <2>1
    <3>2. n >= 0 => n \in Nat
      BY <2>1
    <3>. QED
      BY <2>1, <3>1, <3>2
  <2>8. PICK k \in Nat : 1..n = 1..k
    BY <2>7
  <2>9. P = [j \in 1..k |-> P[j]] /\ \A j \in 1..k : ps[i].kind = "type" /\ P[j] = TypeArgument(P[j].type)
    BY <2>2, <2>6, <2>8, Zenon
  <2>10. TookTypes(ps[i], C[i], k, P)
    BY <2>1, <2>9 DEF TookTypes
  <2>. QED
    BY <2>1, <2>8, <2>10
<1>. QED
  BY <1>1, <1>3, <1>5, <1>6

\* The arguments of a class specialization, packs unpacked.
Shown(ps, m, C, B) ==
  /\ \A i \in 1..m : i < m \/ ~ps[m].pack => B[i] = C[i]
  /\ ~ps[m].pack => DOMAIN B = 1..m /\ Len(B) = m
  /\ ps[m].pack => \E n \in Nat : \E P :
       /\ TookTypes(ps[m], C[m], n, P)
       /\ DOMAIN B = 1..(m - 1 + n) /\ Len(B) = m - 1 + n
       /\ \A j \in 1..n : B[m - 1 + j] = P[j]

\* Named again, they make the same specialization.
LEMMA NamesIt ==
  ASSUME lib = Library, NEW tmpl \in DOMAIN TemplateDecls, TemplateDecls[tmpl].kind = "class",
         NEW infos \in TemplateArgInfos, NEW A, A = TemplateArguments(infos), Accepts(tmpl, A),
         NEW ps, ps = TemplateDecls[tmpl].params, NEW C, C = Canonical(tmpl, A),
         OfTypes(Instance(tmpl, C)), NEW B, Shown(ps, Len(ps), C, B)
  PROVE  Accepts(tmpl, B) /\ Canonical(tmpl, B) = C
<1>. DEFINE m == Len(ps)
<1>1. m \in Nat /\ m > 0 /\ DOMAIN ps = 1..m /\ Last(ps) = ps[m]
      /\ \A i \in 1..m : ps[i].pack \in BOOLEAN /\ (ps[i].pack => i = m)
  BY Parameters
<1>2. /\ DOMAIN C = 1..m
      /\ \A i \in 1..m : ~ps[i].pack => ps[i].kind = "type" /\ C[i] = TypeArgument(C[i].type)
  BY TypesOnly
<1>3. C = [i \in 1..m |-> C[i]]
  <2>1. C = [i \in 1..m |->
               IF ps[i].pack
               THEN PackArgument([j \in 1..(Len(A) - i + 1) |-> AsParameter(ps[i], A[i + j - 1])])
               ELSE IF i \in DOMAIN A THEN AsParameter(ps[i], A[i]) ELSE ps[i].default]
    BY <1>1 DEF Canonical
  <2>. QED
    BY <2>1
<1>4. Canonical(tmpl, B) =
        [i \in 1..m |->
           IF ps[i].pack
           THEN PackArgument([j \in 1..(Len(B) - i + 1) |-> AsParameter(ps[i], B[i + j - 1])])
           ELSE IF i \in DOMAIN B THEN AsParameter(ps[i], B[i]) ELSE ps[i].default]
  BY <1>1 DEF Canonical
<1>5. Accepts(tmpl, B) <=>
        /\ \A i \in DOMAIN B : /\ i <= m \/ ps[m].pack
                               /\ Matches(IF i <= m THEN ps[i] ELSE ps[m], B[i])
        /\ \A i \in (Len(B) + 1)..m : ps[i].pack \/ ps[i].default # NoDecl
  BY <1>1 DEF Accepts, ParameterFor
<1>6. \A p, a : p.kind = "type" /\ a = TypeArgument(a.type) => Matches(p, a) /\ AsParameter(p, a) = a
  BY Kinds DEF Matches, AsParameter
<1>7. /\ \A i \in 1..m : i < m \/ ~ps[m].pack => B[i] = C[i]
      /\ ~ps[m].pack => DOMAIN B = 1..m /\ Len(B) = m
      /\ ps[m].pack => \E n \in Nat : \E P :
           /\ TookTypes(ps[m], C[m], n, P)
           /\ DOMAIN B = 1..(m - 1 + n) /\ Len(B) = m - 1 + n
           /\ \A j \in 1..n : B[m - 1 + j] = P[j]
  BY DEF Shown
<1>. HIDE DEF m
<1>8. \A i \in 1..m : i < m \/ ~ps[m].pack =>
        ~ps[i].pack /\ Matches(ps[i], B[i]) /\ AsParameter(ps[i], B[i]) = C[i]
  <2>1. ASSUME NEW i \in 1..m, i < m \/ ~ps[m].pack
        PROVE  ~ps[i].pack /\ Matches(ps[i], B[i]) /\ AsParameter(ps[i], B[i]) = C[i]
    <3>1. ~ps[i].pack
      BY <1>1, <2>1
    <3>2. B[i] = C[i] /\ ps[i].kind = "type" /\ C[i] = TypeArgument(C[i].type)
      BY <1>2, <1>7, <2>1, <3>1
    <3>. QED
      BY <1>6, <3>1, <3>2
  <2>. QED
    BY <2>1
<1>9. CASE ~ps[m].pack
  <2>1. DOMAIN B = 1..m /\ Len(B) = m
    BY <1>7, <1>9
  <2>2. Accepts(tmpl, B)
    BY <1>1, <1>5, <1>8, <1>9, <2>1
  <2>3. \A i \in 1..m : ~ps[i].pack /\ i \in DOMAIN B /\ AsParameter(ps[i], B[i]) = C[i]
    BY <1>8, <1>9, <2>1
  <2>. QED
    BY <1>3, <1>4, <2>2, <2>3
<1>10. CASE ps[m].pack
  <2>0. PICK n \in Nat : \E P :
           /\ TookTypes(ps[m], C[m], n, P)
           /\ DOMAIN B = 1..(m - 1 + n) /\ Len(B) = m - 1 + n
           /\ \A j \in 1..n : B[m - 1 + j] = P[j]
    BY <1>7, <1>10 DEF TookTypes
  <2>1. PICK P :
           /\ TookTypes(ps[m], C[m], n, P)
           /\ DOMAIN B = 1..(m - 1 + n) /\ Len(B) = m - 1 + n
           /\ \A j \in 1..n : B[m - 1 + j] = P[j]
    BY <2>0
  <2>2. /\ n \in Nat /\ C[m] = PackArgument(P) /\ P = [j \in 1..n |-> P[j]]
        /\ \A j \in 1..n : ps[m].kind = "type" /\ P[j] = TypeArgument(P[j].type)
    BY <2>1 DEF TookTypes
  <2>3. \A j \in 1..n : Matches(ps[m], B[m + j - 1]) /\ AsParameter(ps[m], B[m + j - 1]) = P[j]
    <3>1. ASSUME NEW j \in 1..n
          PROVE  Matches(ps[m], B[m + j - 1]) /\ AsParameter(ps[m], B[m + j - 1]) = P[j]
      <4>1. m + j - 1 = m - 1 + j
        BY <1>1
      <4>2. B[m + j - 1] = P[j]
        BY <2>1, <4>1
      <4>. QED
        BY <1>6, <2>2, <4>2
    <3>. QED
      BY <3>1
  <2>4. Accepts(tmpl, B)
    <3>1. ASSUME NEW i \in DOMAIN B
          PROVE  Matches(IF i <= m THEN ps[i] ELSE ps[m], B[i])
      <4>1. CASE i < m
        BY <1>1, <1>8, <2>1, <4>1
      <4>2. CASE ~(i < m)
        <5>1. i - m + 1 \in 1..n /\ m + (i - m + 1) - 1 = i
          BY <1>1, <2>1, <4>2
        <5>2. Matches(ps[m], B[i])
          BY <2>3, <5>1
        <5>. QED
          BY <1>1, <2>1, <4>2, <5>2
      <4>. QED
        BY <4>1, <4>2
    <3>2. \A i \in (Len(B) + 1)..m : ps[i].pack
      BY <1>1, <1>10, <2>1
    <3>. QED
      BY <1>5, <1>10, <3>1, <3>2
  <2>5. ASSUME NEW i \in 1..m, i < m
        PROVE  ~ps[i].pack /\ i \in DOMAIN B /\ AsParameter(ps[i], B[i]) = C[i]
    BY <1>1, <1>8, <2>1, <2>5
  <2>6. PackArgument([j \in 1..(Len(B) - m + 1) |-> AsParameter(ps[m], B[m + j - 1])]) = C[m]
    <3>1. Len(B) - m + 1 = n
      BY <1>1, <2>1
    <3>2. [j \in 1..n |-> AsParameter(ps[m], B[m + j - 1])] = P
      BY <2>2, <2>3
    <3>. QED
      BY <2>2, <3>1, <3>2
  <2>7. ASSUME NEW i \in 1..m
        PROVE  C[i] = IF ps[i].pack
                      THEN PackArgument([j \in 1..(Len(B) - i + 1) |-> AsParameter(ps[i], B[i + j - 1])])
                      ELSE IF i \in DOMAIN B THEN AsParameter(ps[i], B[i]) ELSE ps[i].default
    <3>1. CASE i < m
      BY <2>5, <3>1
    <3>2. CASE i = m
      BY <1>10, <2>6, <3>2
    <3>. QED
      BY <1>1, <3>1, <3>2
  <2>. QED
    BY <1>3, <1>4, <2>4, <2>7
<1>. QED
  BY <1>1, <1>9, <1>10

-----------------------------------------------------------------------------
(* Reading arguments back. *)

\* The i-th turn of Unpacked's loop adds what the i-th argument shows.
Turns(args, g) == [i \in 0..Len(args) |-> IF i = 0 THEN <<>> ELSE g[i - 1] \o InfosOf(args[i])]

\* Unpacked runs the loop, if it can be run at all.
LEMMA UnpackedRuns ==
  ASSUME NEW args, \E f : f = Turns(args, f)
  PROVE  \E g : g = Turns(args, g) /\ Unpacked(args) = g[Len(args)]
<1>. DEFINE g == CHOOSE f : f = [i \in 0..Len(args) |->
                                   IF i = 0 THEN <<>> ELSE f[i - 1] \o InfosOf(args[i])]
<1>1. Unpacked(args) = g[Len(args)]
  BY DEF Unpacked
<1>2. g = Turns(args, g)
  BY DEF Turns
<1>. QED
  BY <1>1, <1>2

\* It can be run in one way.
LEMMA TurnsAgree ==
  ASSUME NEW args, Len(args) \in Nat, NEW f, f = Turns(args, f), NEW g, g = Turns(args, g)
  PROVE  f[Len(args)] = g[Len(args)]
<1>. DEFINE differ == {i \in 0..Len(args) : f[i] # g[i]}
<1>. SUFFICES ASSUME differ # {} PROVE FALSE
  OBVIOUS
<1>1. differ \in SUBSET Nat
  OBVIOUS
<1>2. PICK i \in differ : \A j \in differ : i <= j
  BY <1>1, Least
<1>3. /\ i \in 0..Len(args) /\ f[i] # g[i]
      /\ i # 0 => f[i - 1] = g[i - 1]
  BY <1>2
<1>. HIDE DEF differ
<1>4. /\ f[i] = IF i = 0 THEN <<>> ELSE f[i - 1] \o InfosOf(args[i])
      /\ g[i] = IF i = 0 THEN <<>> ELSE g[i - 1] \o InfosOf(args[i])
  BY <1>3 DEF Turns
<1>. QED
  BY <1>3, <1>4

\* The first n of the arguments, shown.
FirstShown(args, n) == [i \in 1..n |-> InfoOf(args[i])]

\* The arguments of a class, only the last of which may be a pack.
PackLast(C, m, n) ==
  /\ m \in Nat /\ m > 0 /\ DOMAIN C = 1..m /\ Len(C) = m /\ n \in Nat
  /\ \A i \in 1..m : i < m => C[i].k # "Pack"
  /\ C[m].k = "Pack" => DOMAIN C[m].pack = 1..n

\* Shown in order, those in the pack after the others.
ShownInOrder(C, m, n, I) ==
  /\ \A i \in 1..m : i < m \/ C[m].k # "Pack" => I[i] = InfoOf(C[i])
  /\ C[m].k # "Pack" => DOMAIN I = 1..m /\ Len(I) = m
  /\ C[m].k = "Pack" => /\ DOMAIN I = 1..(m - 1 + n) /\ Len(I) = m - 1 + n
                        /\ \A j \in 1..n : I[m - 1 + j] = InfoOf(C[m].pack[j])

\* That is how Unpacked shows them.
LEMMA UnpackedIs ==
  ASSUME NEW C, NEW m, NEW n, PackLast(C, m, n)
  PROVE  ShownInOrder(C, m, n, Unpacked(C))
<1>packs. /\ m \in Nat /\ m > 0 /\ DOMAIN C = 1..m /\ Len(C) = m /\ n \in Nat
          /\ \A i \in 1..m : i < m => C[i].k # "Pack"
          /\ C[m].k = "Pack" => DOMAIN C[m].pack = 1..n
  BY DEF PackLast
<1>. DEFINE I == Unpacked(C)
<1>shown. I = Unpacked(C)
  OBVIOUS
<1>. HIDE DEF I
<1>. USE <1>packs, <1>shown
<1>. DEFINE S == {InfoOf(C[i]) : i \in 1..m} \cup {InfoOf(C[m].pack[j]) : j \in 1..n}
            f == [i \in 0..m |-> IF i < m THEN FirstShown(C, i) ELSE FirstShown(C, m - 1) \o InfosOf(C[m])]
<1>1. ASSUME NEW i \in 0..m
      PROVE  FirstShown(C, i) \in Seq(S) /\ Len(FirstShown(C, i)) = i
  BY DEF FirstShown
<1>2. /\ InfosOf(C[m]) \in Seq(S)
      /\ C[m].k # "Pack" => Len(InfosOf(C[m])) = 1 /\ InfosOf(C[m])[1] = InfoOf(C[m])
      /\ C[m].k = "Pack" => Len(InfosOf(C[m])) = n /\ \A j \in 1..n : InfosOf(C[m])[j] = InfoOf(C[m].pack[j])
  <2>1. CASE C[m].k # "Pack"
    <3>1. InfosOf(C[m]) = <<InfoOf(C[m])>> /\ InfoOf(C[m]) \in S
      BY <2>1 DEF InfosOf
    <3>. HIDE DEF S
    <3>. QED
      BY <2>1, <3>1
  <2>2. CASE C[m].k = "Pack"
    <3>1. InfosOf(C[m]) = [j \in 1..n |-> InfoOf(C[m].pack[j])] /\ \A j \in 1..n : InfoOf(C[m].pack[j]) \in S
      BY <2>2 DEF InfosOf
    <3>. HIDE DEF S
    <3>. QED
      BY <2>2, <3>1
  <2>. QED
    BY <2>1, <2>2
<1>. HIDE DEF S
<1>3. ASSUME NEW i \in 1..m, i < m
      PROVE  FirstShown(C, i) = FirstShown(C, i - 1) \o InfosOf(C[i])
  <2>. DEFINE s == FirstShown(C, i - 1)
              t == InfosOf(C[i])
              r == FirstShown(C, i)
  <2>1. t = <<InfoOf(C[i])>>
    BY <1>3 DEF InfosOf
  <2>2. r[i] = InfoOf(C[i]) /\ \A j \in 1..(i - 1) : r[j] = s[j]
    BY DEF FirstShown
  <2>3. s \in Seq(S) /\ Len(s) = i - 1 /\ r \in Seq(S) /\ Len(r) = i
    BY <1>1
  <2>. HIDE DEF s, t, r
  <2>4. InfoOf(C[i]) \in S
    BY DEF S
  <2>5. t \in Seq(S) /\ Len(t) = 1 /\ t[1] = InfoOf(C[i])
    BY <2>1, <2>4
  <2>6. /\ s \o t \in Seq(S) /\ Len(s \o t) = i
        /\ \A j \in 1..i : (s \o t)[j] = IF j <= i - 1 THEN s[j] ELSE t[j - (i - 1)]
    <3>1. /\ s \o t \in Seq(S) /\ Len(s \o t) = Len(s) + Len(t)
          /\ \A j \in 1..(Len(s) + Len(t)) : (s \o t)[j] = IF j <= Len(s) THEN s[j] ELSE t[j - Len(s)]
      BY <2>3, <2>5, ConcatProperties
    <3>2. Len(s) = i - 1 /\ Len(s) + Len(t) = i
      BY <2>3, <2>5
    <3>. QED
      BY <3>1, <3>2
  <2>7. \A j \in 1..i : r[j] = (s \o t)[j]
    BY <2>2, <2>5, <2>6
  <2>8. r = s \o t
    BY <2>3, <2>6, <2>7, SeqEqual
  <2>. QED
    BY <2>8 DEF s, t, r
<1>4. f = Turns(C, f)
  <2>1. FirstShown(C, 0) = <<>>
    BY DEF FirstShown
  <2>2. ASSUME NEW i \in 0..m
        PROVE  f[i] = IF i = 0 THEN <<>> ELSE f[i - 1] \o InfosOf(C[i])
    <3>1. i # 0 => i - 1 \in 0..m /\ i - 1 < m /\ f[i - 1] = FirstShown(C, i - 1)
      OBVIOUS
    <3>2. i # 0 /\ i < m => f[i] = FirstShown(C, i) /\ i \in 1..m
      OBVIOUS
    <3>3. i = 0 => f[i] = FirstShown(C, 0)
      OBVIOUS
    <3>4. i = m => f[i] = FirstShown(C, i - 1) \o InfosOf(C[i])
      OBVIOUS
    <3>. HIDE DEF f
    <3>5. i = 0 \/ (i # 0 /\ i < m) \/ (i # 0 /\ i = m)
      OBVIOUS
    <3>. QED
      BY <1>3, <2>1, <3>1, <3>2, <3>3, <3>4, <3>5
  <2>3. f = [i \in 0..m |-> f[i]]
    OBVIOUS
  <2>. HIDE DEF f
  <2>. QED
    BY <2>2, <2>3 DEF Turns
<1>5. I = f[m]
  <2>. HIDE DEF f
  <2>1. PICK g : g = Turns(C, g) /\ Unpacked(C) = g[Len(C)]
    BY <1>4, UnpackedRuns
  <2>. QED
    BY <1>4, <2>1, TurnsAgree
<1>6. I = FirstShown(C, m - 1) \o InfosOf(C[m])
  BY <1>5
<1>. HIDE DEF f
<1>. DEFINE s == FirstShown(C, m - 1)
            t == InfosOf(C[m])
<1>7. s \in Seq(S) /\ Len(s) = m - 1 /\ \A i \in 1..(m - 1) : s[i] = InfoOf(C[i])
  <2>1. m - 1 \in 0..m
    OBVIOUS
  <2>2. \A i \in 1..(m - 1) : s[i] = InfoOf(C[i])
    BY DEF FirstShown
  <2>. QED
    BY <1>1, <2>1, <2>2
<1>8. /\ t \in Seq(S) /\ Len(t) \in Nat
      /\ C[m].k # "Pack" => Len(t) = 1 /\ t[1] = InfoOf(C[m])
      /\ C[m].k = "Pack" => Len(t) = n /\ \A j \in 1..n : t[j] = InfoOf(C[m].pack[j])
  BY <1>2
<1>. HIDE DEF s, t
<1>9. /\ I \in Seq(S) /\ Len(I) = m - 1 + Len(t) /\ DOMAIN I = 1..Len(I)
      /\ \A i \in 1..(m - 1 + Len(t)) : I[i] = IF i <= m - 1 THEN s[i] ELSE t[i - (m - 1)]
  <2>1. I = s \o t
    BY <1>6 DEF s, t
  <2>2. /\ s \o t \in Seq(S) /\ Len(s \o t) = Len(s) + Len(t)
        /\ \A i \in 1..(Len(s) + Len(t)) : (s \o t)[i] = IF i <= Len(s) THEN s[i] ELSE t[i - Len(s)]
    BY <1>7, <1>8, ConcatProperties
  <2>. QED
    BY <1>7, <1>8, <2>1, <2>2
<1>10. ASSUME NEW i \in 1..m, i < m \/ C[m].k # "Pack"
       PROVE  I[i] = InfoOf(C[i])
  BY <1>7, <1>8, <1>9, <1>10
<1>11. ASSUME C[m].k = "Pack", NEW j \in 1..n
       PROVE  I[m - 1 + j] = InfoOf(C[m].pack[j])
  <2>1. m - 1 + j \in 1..(m - 1 + Len(t)) /\ ~(m - 1 + j <= m - 1) /\ (m - 1 + j) - (m - 1) = j
    BY <1>8, <1>11
  <2>. QED
    BY <1>8, <1>9, <1>11, <2>1
<1>12. \A i \in 1..m : i < m \/ C[m].k # "Pack" => I[i] = InfoOf(C[i])
  BY <1>10
<1>13. C[m].k # "Pack" => DOMAIN I = 1..m /\ Len(I) = m
  <2>1. ASSUME C[m].k # "Pack"
        PROVE  DOMAIN I = 1..m /\ Len(I) = m
    <3>1. Len(t) = 1
      BY <1>8, <2>1
    <3>2. Len(I) = m
      BY <1>9, <3>1
    <3>. QED
      BY <1>9, <3>2
  <2>. QED
    BY <2>1
<1>14. C[m].k = "Pack" => /\ DOMAIN I = 1..(m - 1 + n) /\ Len(I) = m - 1 + n
                          /\ \A j \in 1..n : I[m - 1 + j] = InfoOf(C[m].pack[j])
  <2>1. CASE C[m].k = "Pack"
    BY <1>8, <1>9, <1>11, <2>1
  <2>. QED
    BY <2>1
<1>15. ShownInOrder(C, m, n, I)
  BY ONLY <1>12, <1>13, <1>14 DEF ShownInOrder
<1>. QED
  BY <1>15 DEF I

\* A type that is shown is named again.
LEMMA ShownType ==
  ASSUME NEW a, a = TypeArgument(a.type)
  PROVE  InfoOf(a).value = NoDecl /\ TypeArgument(InfoOf(a).type) = a
BY Kinds DEF InfoOf

\* The arguments made of what is shown.
LEMMA MadeOfShown ==
  ASSUME NEW I, NEW n \in Nat, DOMAIN I = 1..n, Len(I) = n
  PROVE  /\ DOMAIN TemplateArguments(I) = 1..n /\ Len(TemplateArguments(I)) = n
         /\ \A i \in 1..n : I[i].value = NoDecl => TemplateArguments(I)[i] = TypeArgument(I[i].type)
<1>1. TemplateArguments(I) =
        [i \in 1..n |-> IF I[i].value = NoDecl THEN TypeArgument(I[i].type)
                        ELSE IntegralArgument(I[i].type, extOrTrunc(I[i].value, I[i].type))]
  BY DEF TemplateArguments
<1>. QED
  BY <1>1

\* What a class specialization of types shows names it.
LEMMA ReadsBack ==
  ASSUME lib = Library, NEW tmpl \in DOMAIN TemplateDecls, TemplateDecls[tmpl].kind = "class",
         NEW infos \in TemplateArgInfos, NEW A, A = TemplateArguments(infos), Accepts(tmpl, A),
         NEW C, C = Canonical(tmpl, A), OfTypes(Instance(tmpl, C))
  PROVE  /\ Instantiation(tmpl, Unpacked(C)) = Instance(tmpl, C)
         /\ (\A i \in DOMAIN C : C[i].k # "Pack") =>
              Instantiation(tmpl, GetClassTemplateArgs(Instance(tmpl, C))) = Instance(tmpl, C)
<1>. DEFINE ps == TemplateDecls[tmpl].params
            m == Len(ps)
<1>1. m \in Nat /\ m > 0 /\ \A i \in 1..m : ps[i].pack \in BOOLEAN /\ (ps[i].pack => i = m)
  BY Parameters
<1>2. /\ DOMAIN C = 1..m
      /\ \A i \in 1..m : ~ps[i].pack => ps[i].kind = "type" /\ C[i] = TypeArgument(C[i].type)
      /\ \A i \in 1..m : ps[i].pack => \E n, P : TookTypes(ps[i], C[i], n, P)
  BY TypesOnly
<1>3. Len(C) = m
  <2>1. C = [i \in DOMAIN ps |->
               IF ps[i].pack
               THEN PackArgument([j \in 1..(Len(A) - i + 1) |-> AsParameter(ps[i], A[i + j - 1])])
               ELSE IF i \in DOMAIN A THEN AsParameter(ps[i], A[i]) ELSE ps[i].default]
    BY DEF Canonical
  <2>2. DOMAIN ps = 1..m
    BY Parameters
  <2>. QED
    BY <1>1, <2>1, <2>2
<1>4. ASSUME NEW I, Shown(ps, m, C, TemplateArguments(I))
      PROVE  Instantiation(tmpl, I) = Instance(tmpl, C)
  <2>1. Accepts(tmpl, TemplateArguments(I)) /\ Canonical(tmpl, TemplateArguments(I)) = C
    BY <1>4, NamesIt
  <2>. QED
    BY <2>1 DEF Instantiation
<1>. HIDE DEF ps, m
<1>5. \A i \in 1..m : ~ps[i].pack => /\ C[i].k # "Pack" /\ InfoOf(C[i]).value = NoDecl
                                     /\ TypeArgument(InfoOf(C[i]).type) = C[i]
  <2>1. ASSUME NEW i \in 1..m, ~ps[i].pack
        PROVE  /\ C[i].k # "Pack" /\ InfoOf(C[i]).value = NoDecl
               /\ TypeArgument(InfoOf(C[i]).type) = C[i]
    <3>1. C[i] = TypeArgument(C[i].type)
      BY <1>2, <2>1
    <3>2. C[i].k = "Type"
      BY <3>1, Kinds
    <3>. QED
      BY <3>1, <3>2, ShownType
  <2>. QED
    BY <2>1
<1>6. CASE ~ps[m].pack
  <2>1. \A i \in 1..m : ~ps[i].pack
    BY <1>1, <1>6
  <2>2. ASSUME NEW I, DOMAIN I = 1..m, Len(I) = m, \A i \in 1..m : I[i] = InfoOf(C[i])
        PROVE  Instantiation(tmpl, I) = Instance(tmpl, C)
    <3>1. /\ DOMAIN TemplateArguments(I) = 1..m /\ Len(TemplateArguments(I)) = m
          /\ \A i \in 1..m : I[i].value = NoDecl => TemplateArguments(I)[i] = TypeArgument(I[i].type)
      BY <1>1, <2>2, MadeOfShown
    <3>2. \A i \in 1..m : TemplateArguments(I)[i] = C[i]
      BY <1>5, <2>1, <2>2, <3>1
    <3>3. Shown(ps, m, C, TemplateArguments(I))
      BY <1>6, <3>1, <3>2 DEF Shown
    <3>. QED
      BY <1>4, <3>3
  <2>3. \A i \in 1..m : C[i].k # "Pack"
    BY <1>5, <2>1
  <2>4. Instantiation(tmpl, Unpacked(C)) = Instance(tmpl, C)
    <3>. DEFINE I == Unpacked(C)
    <3>1. DOMAIN I = 1..m /\ Len(I) = m /\ \A i \in 1..m : I[i] = InfoOf(C[i])
      <4>1. m \in 1..m /\ C[m].k # "Pack"
        BY <1>1, <2>3
      <4>. HIDE DEF I
      <4>2. PackLast(C, m, 0)
        BY <1>1, <1>2, <1>3, <2>3, <4>1 DEF PackLast
      <4>3. ShownInOrder(C, m, 0, I)
        BY <4>2, UnpackedIs DEF I
      <4>. QED
        BY <4>1, <4>3 DEF ShownInOrder
    <3>. HIDE DEF I
    <3>2. Instantiation(tmpl, I) = Instance(tmpl, C)
      BY <2>2, <3>1
    <3>. QED
      BY <3>2 DEF I
  <2>5. Instantiation(tmpl, GetClassTemplateArgs(Instance(tmpl, C))) = Instance(tmpl, C)
    <3>. DEFINE I == GetClassTemplateArgs(Instance(tmpl, C))
    <3>1. I = [i \in 1..m |-> InfoOf(C[i])]
      BY <1>2 DEF GetClassTemplateArgs, Instance
    <3>. HIDE DEF I
    <3>2. DOMAIN I = 1..m /\ Len(I) = m /\ \A i \in 1..m : I[i] = InfoOf(C[i])
      BY <1>1, <3>1
    <3>3. Instantiation(tmpl, I) = Instance(tmpl, C)
      BY <2>2, <3>2
    <3>. QED
      BY <3>3 DEF I
  <2>. QED
    BY <2>4, <2>5
<1>7. CASE ps[m].pack
  <2>1. m \in 1..m /\ \A i \in 1..m : i < m => ~ps[i].pack
    BY <1>1
  <2>0. PICK n \in Nat : \E P : TookTypes(ps[m], C[m], n, P)
    BY <1>2, <1>7, <2>1 DEF TookTypes
  <2>2. PICK P : TookTypes(ps[m], C[m], n, P)
    BY <2>0
  <2>3. /\ n \in Nat /\ C[m] = PackArgument(P) /\ P = [j \in 1..n |-> P[j]]
        /\ \A j \in 1..n : P[j] = TypeArgument(P[j].type)
    BY <2>2 DEF TookTypes
  <2>4. C[m].k = "Pack" /\ C[m].pack = P /\ DOMAIN P = 1..n
    BY <2>3, Kinds
  <2>. DEFINE I == Unpacked(C)
              B == TemplateArguments(I)
              k == m - 1 + n
  <2>5. k \in Nat /\ k = m - 1 + n
    BY <1>1
  <2>6. /\ \A i \in 1..m : i < m => I[i] = InfoOf(C[i])
        /\ DOMAIN I = 1..k /\ Len(I) = k
        /\ \A j \in 1..n : I[m - 1 + j] = InfoOf(P[j])
    <3>1. \A i \in 1..m : i < m => C[i].k # "Pack"
      BY <1>5, <2>1
    <3>2. PackLast(C, m, n)
      BY <1>1, <1>2, <1>3, <2>4, <3>1 DEF PackLast
    <3>3. ShownInOrder(C, m, n, I)
      BY <3>2, UnpackedIs
    <3>. HIDE DEF I
    <3>. QED
      BY <2>4, <3>3 DEF ShownInOrder
  <2>7. B = TemplateArguments(I)
    OBVIOUS
  <2>. HIDE DEF I, B, k
  <2>8. /\ DOMAIN B = 1..k /\ Len(B) = k
        /\ \A i \in 1..k : I[i].value = NoDecl => B[i] = TypeArgument(I[i].type)
    BY <2>5, <2>6, <2>7, MadeOfShown
  <2>9. ASSUME NEW i \in 1..m, i < m
        PROVE  B[i] = C[i]
    <3>1. i \in 1..k
      BY <1>1, <2>5, <2>9
    <3>2. I[i] = InfoOf(C[i]) /\ InfoOf(C[i]).value = NoDecl /\ TypeArgument(InfoOf(C[i]).type) = C[i]
      BY <1>5, <2>1, <2>6, <2>9
    <3>. QED
      BY <2>8, <3>1, <3>2
  <2>10. ASSUME NEW j \in 1..n
         PROVE  B[m - 1 + j] = P[j]
    <3>1. m - 1 + j \in 1..k
      BY <1>1, <2>5
    <3>2. I[m - 1 + j] = InfoOf(P[j]) /\ InfoOf(P[j]).value = NoDecl /\ TypeArgument(InfoOf(P[j]).type) = P[j]
      BY <2>3, <2>6, ShownType
    <3>. QED
      BY <2>8, <3>1, <3>2
  <2>11. Shown(ps, m, C, B)
    <3>1. \A i \in 1..m : i < m \/ ~ps[m].pack => B[i] = C[i]
      BY <1>7, <2>9
    <3>2. /\ TookTypes(ps[m], C[m], n, P) /\ DOMAIN B = 1..(m - 1 + n) /\ Len(B) = m - 1 + n
          /\ \A j \in 1..n : B[m - 1 + j] = P[j]
      BY <2>2, <2>5, <2>8, <2>10
    <3>. QED
      BY <1>7, <3>1, <3>2 DEF Shown
  <2>12. Instantiation(tmpl, I) = Instance(tmpl, C)
    BY <1>4, <2>7, <2>11
  <2>. QED
    BY <1>2, <2>1, <2>4, <2>12 DEF I
<1>. QED
  BY <1>1, <1>6, <1>7

-----------------------------------------------------------------------------
(* The specializations that exist. *)

\* A specialization some client has asked for.
Made(d) ==
  /\ d # NoDecl
  /\ \E tmpl \in DOMAIN TemplateDecls, infos \in TemplateArgInfos : d = Instantiation(tmpl, infos)

\* The invariant: every specialization is one that was asked for, and complete.
TemplatesInv ==
  /\ lib = Library
  /\ TemplatesTypeOK
  /\ \A d \in specializations : Made(d)
  /\ HandedOutComplete

\* What InstantiateTemplate answers is made of the template and the arguments.
LEMMA InstantiationIs ==
  ASSUME lib = Library, NEW tmpl \in DOMAIN TemplateDecls, NEW infos \in TemplateArgInfos,
         NEW d, d = Instantiation(tmpl, infos), d # NoDecl
  PROVE  /\ Accepts(tmpl, TemplateArguments(infos))
         /\ d = Instance(tmpl, Canonical(tmpl, TemplateArguments(infos)))
         /\ d.of = tmpl /\ d.args = Canonical(tmpl, TemplateArguments(infos))
         /\ Len(d.args) = Len(TemplateDecls[tmpl].params)
<1>. DEFINE A == TemplateArguments(infos)
            ps == TemplateDecls[tmpl].params
            C == Canonical(tmpl, A)
<1>1. Accepts(tmpl, A) /\ d = Instance(tmpl, C)
  BY DEF Instantiation
<1>2. d.of = tmpl /\ d.args = C
  BY <1>1 DEF Instance
<1>3. C = [i \in 1..Len(ps) |->
             IF ps[i].pack
             THEN PackArgument([j \in 1..(Len(A) - i + 1) |-> AsParameter(ps[i], A[i + j - 1])])
             ELSE IF i \in DOMAIN A THEN AsParameter(ps[i], A[i]) ELSE ps[i].default]
  BY Parameters DEF Canonical
<1>4. Len(C) = Len(ps)
  <2>1. Len(ps) \in Nat
    BY Parameters
  <2>. QED
    BY <1>3, <2>1
<1>. QED
  BY <1>1, <1>2, <1>4

\* The arguments that are read back are those of the specialization.
LEMMA BackAgain ==
  ASSUME TemplatesInv
  PROVE  ArgumentsReadBack
<1>1. ASSUME NEW d \in specializations, TemplateDecls[d.of].kind = "class", OfTypes(d)
      PROVE  /\ PartialMatch(d) = {} => Instantiation(d.of, GetClassTemplateInstantiationArgs(d)) = d
             /\ (\A i \in DOMAIN d.args : d.args[i].k # "Pack") =>
                  Instantiation(d.of, GetClassTemplateArgs(d)) = d
  <2>1. PICK tmpl \in DOMAIN TemplateDecls, infos \in TemplateArgInfos :
          d # NoDecl /\ d = Instantiation(tmpl, infos)
    BY DEF TemplatesInv, Made
  <2>. DEFINE A == TemplateArguments(infos)
              C == Canonical(tmpl, A)
  <2>2. lib = Library
    BY DEF TemplatesInv
  <2>3. Accepts(tmpl, A) /\ d = Instance(tmpl, C) /\ d.of = tmpl /\ d.args = C
    BY <2>1, <2>2, InstantiationIs
  <2>4. A = TemplateArguments(infos) /\ C = Canonical(tmpl, A)
    OBVIOUS
  <2>. HIDE DEF A, C
  <2>5. OfTypes(Instance(tmpl, C)) /\ TemplateDecls[tmpl].kind = "class"
    BY <1>1, <2>3
  <2>6. /\ Instantiation(tmpl, Unpacked(C)) = Instance(tmpl, C)
        /\ (\A i \in DOMAIN C : C[i].k # "Pack") =>
             Instantiation(tmpl, GetClassTemplateArgs(Instance(tmpl, C))) = Instance(tmpl, C)
    BY <2>2, <2>3, <2>4, <2>5, ReadsBack
  <2>7. PartialMatch(d) = {} => GetClassTemplateInstantiationArgs(d) = Unpacked(C)
    BY <2>3 DEF GetClassTemplateInstantiationArgs
  <2>. QED
    BY <2>3, <2>6, <2>7
<1>. QED
  BY <1>1 DEF ArgumentsReadBack

\* A value that fits is in the specialization as it was named.
LEMMA KeptValues ==
  ASSUME TemplatesInv
  PROVE  ValuesKept
<1>1. lib = Library
  BY DEF TemplatesInv
<1>2. ASSUME NEW tmpl \in DOMAIN TemplateDecls, NEW infos \in TemplateArgInfos,
             NEW ps, ps = TemplateDecls[tmpl].params,
             Instantiation(tmpl, infos) \in specializations, Len(infos) = Len(ps),
             \A i \in DOMAIN infos :
               /\ infos[i].value # NoDecl /\ ~ps[i].pack
               /\ Fits(infos[i].value, infos[i].type) /\ Fits(infos[i].value, ps[i].type),
             NEW i \in DOMAIN ps
      PROVE  Instantiation(tmpl, infos).args[i].value = infos[i].value
  <2>. DEFINE A == TemplateArguments(infos)
              d == Instantiation(tmpl, infos)
  <2>1. d # NoDecl
    BY <1>2 DEF TemplatesInv, Made
  <2>2. A = TemplateArguments(infos) /\ d = Instantiation(tmpl, infos)
    OBVIOUS
  <2>. HIDE DEF A, d
  <2>3. Accepts(tmpl, A) /\ d.args = Canonical(tmpl, A)
    BY <1>1, <2>1, <2>2, InstantiationIs
  <2>4. Len(ps) \in Nat /\ DOMAIN ps = 1..Len(ps)
    BY <1>1, <1>2, Parameters
  <2>5. /\ DOMAIN A = 1..Len(infos)
        /\ \A k \in DOMAIN A :
             IF infos[k].value = NoDecl THEN A[k] = TypeArgument(infos[k].type)
             ELSE A[k] = IntegralArgument(infos[k].type, extOrTrunc(infos[k].value, infos[k].type))
    BY <1>1, <2>2, Named
  <2>6. DOMAIN infos = 1..Len(infos)
    BY <1>1, LibraryAssumption DEF TemplateArgInfos
  <2>7. i \in DOMAIN infos /\ i \in DOMAIN A /\ i <= Len(ps)
    BY <1>2, <2>4, <2>5, <2>6
  <2>8. /\ infos[i].value # NoDecl /\ ~ps[i].pack
        /\ Fits(infos[i].value, infos[i].type)
    BY <1>2, <2>7
  <2>9. infos[i].value \in Int /\ infos[i].type \in DOMAIN Library.widths
    BY <1>1, <2>7, <2>8, LibraryAssumption DEF TemplateArgInfos
  <2>10. A[i] = IntegralArgument(infos[i].type, infos[i].value)
    <3>1. extOrTrunc(infos[i].value, infos[i].type) = infos[i].value
      BY <1>1, <2>8, <2>9, FittingKept
    <3>. QED
      BY <2>5, <2>7, <2>8, <3>1
  <2>11. ps[i].kind # "type"
    <3>1. Matches(ps[i], A[i])
      BY <1>1, <1>2, <2>3, <2>7, Fitting
    <3>2. A[i].k # "Type"
      BY <2>10, Kinds
    <3>. QED
      BY <3>1, <3>2 DEF Matches
  <2>12. d.args[i] = [A[i] EXCEPT !.type = ps[i].type]
    BY <1>2, <2>3, <2>7, <2>8, <2>11 DEF Canonical, AsParameter
  <2>13. d.args[i].value = infos[i].value
    BY <2>10, <2>12 DEF IntegralArgument
  <2>. QED
    BY <2>13 DEF d
<1>. QED
  BY <1>2 DEF ValuesKept

\* No specialization exists at first.
LEMMA TemplatesInitInv == TemplatesInit => TemplatesInv
BY MaxStringsAssumption DEF TemplatesInit, TemplatesInv, TemplatesTypeOK, HandedOutComplete

\* The library does not change, and so neither does what was asked for.
LEMMA SameLibrary ==
  ASSUME lib' = lib
  PROVE  /\ TemplateDecls' = TemplateDecls /\ TemplateArgInfos' = TemplateArgInfos
         /\ \A tmpl, infos : Instantiation(tmpl, infos)' = Instantiation(tmpl, infos)
         /\ \A d : Made(d)' <=> Made(d)
<1>1. TemplateDecls' = TemplateDecls /\ TemplateArgInfos' = TemplateArgInfos /\ IntWidth' = IntWidth
  BY DEF TemplateDecls, TemplateArgInfos, IntWidth
<1>2. \A v, t : extOrTrunc(v, t)' = extOrTrunc(v, t) /\ (Fits(v, t)' <=> Fits(v, t))
  BY <1>1 DEF extOrTrunc, Fits
<1>3. \A infos : TemplateArguments(infos)' = TemplateArguments(infos)
  BY <1>2 DEF TemplateArguments
<1>4. \A tmpl, A : Canonical(tmpl, A)' = Canonical(tmpl, A)
  BY <1>1 DEF Canonical, AsParameter
<1>5. \A p, a : Matches(p, a)' <=> Matches(p, a)
  BY <1>2 DEF Matches
<1>6. \A tmpl, A : Accepts(tmpl, A)' <=> Accepts(tmpl, A)
  BY <1>1, <1>5 DEF Accepts
<1>7. \A tmpl, infos : Instantiation(tmpl, infos)' = Instantiation(tmpl, infos)
  BY <1>3, <1>4, <1>6 DEF Instantiation
<1>. QED
  BY <1>1, <1>7 DEF Made

\* Every request keeps the invariant, whether it is in source form or not.
LEMMA TemplatesStepInv ==
  ASSUME TemplatesInv, [TemplatesNext]_templateVars
  PROVE  TemplatesInv'
<1>1. CASE UNCHANGED templateVars
  <2>1. lib' = lib /\ specializations' = specializations /\ bodies' = bodies
        /\ var_count' = var_count /\ helpers' = helpers
    BY <1>1 DEF templateVars
  <2>2. TemplateDecls' = TemplateDecls /\ \A d : Made(d)' <=> Made(d)
    BY <2>1, SameLibrary
  <2>. QED
    BY <2>1, <2>2 DEF TemplatesInv, TemplatesTypeOK, HandedOutComplete
<1>2. ASSUME NEW tmpl \in DOMAIN TemplateDecls, NEW infos \in TemplateArgInfos,
             NEW instantiate_body \in BOOLEAN, InstantiateTemplate(tmpl, infos, instantiate_body)
      PROVE  TemplatesInv'
  <2>. DEFINE d == Instantiation(tmpl, infos)
  <2>1. /\ lib' = lib /\ var_count' = var_count /\ helpers' = helpers
        /\ specializations' = specializations \cup ({d} \ {NoDecl})
        /\ bodies' = IF DefinedBy(tmpl, instantiate_body) THEN bodies \cup ({d} \ {NoDecl}) ELSE bodies
    BY <1>2 DEF InstantiateTemplate
  <2>2. TemplateDecls' = TemplateDecls /\ \A s : Made(s)' <=> Made(s)
    BY <2>1, SameLibrary
  <2>3. d # NoDecl => Made(d) /\ d.of = tmpl /\ Len(d.args) = Len(TemplateDecls[tmpl].params)
    BY InstantiationIs DEF TemplatesInv, Made
  <2>. HIDE DEF d
  <2>4. TemplatesTypeOK'
    BY <2>1, <2>2, <2>3 DEF TemplatesInv, TemplatesTypeOK
  <2>5. \A s \in specializations' : Made(s)'
    BY <2>1, <2>2, <2>3 DEF TemplatesInv
  <2>6. HandedOutComplete'
    <3>1. d # NoDecl /\ TemplateDecls[d.of].kind = "class" /\ TemplateDecls[d.of].defined => d \in bodies'
      BY <2>1, <2>3 DEF DefinedBy
    <3>. QED
      BY <2>1, <2>2, <3>1 DEF TemplatesInv, HandedOutComplete
  <2>. QED
    BY <2>1, <2>4, <2>5, <2>6 DEF TemplatesInv
<1>3. ASSUME NEW tmpl \in DOMAIN TemplateDecls, NEW infos \in TemplateArgInfos, FromString(tmpl, infos)
      PROVE  TemplatesInv'
  <2>. DEFINE d == Instantiation(tmpl, infos)
  <2>1. /\ var_count < MaxStrings /\ TemplateDecls[tmpl].kind = "function"
        /\ var_count' = var_count + 1 /\ lib' = lib
        /\ d = NoDecl => UNCHANGED <<specializations, bodies, helpers>>
        /\ d # NoDecl =>
             /\ helpers' = [v \in DOMAIN helpers \cup {var_count} |->
                               IF v \in DOMAIN helpers THEN helpers[v] ELSE d]
             /\ specializations' = specializations \cup {d}
             /\ bodies' = IF TemplateDecls[tmpl].defined THEN bodies \cup {d} ELSE bodies
    BY <1>3 DEF FromString
  <2>2. TemplateDecls' = TemplateDecls /\ \A s : Made(s)' <=> Made(s)
    BY <2>1, SameLibrary
  <2>3. d # NoDecl => Made(d) /\ d.of = tmpl /\ Len(d.args) = Len(TemplateDecls[tmpl].params)
    BY InstantiationIs DEF TemplatesInv, Made
  <2>. HIDE DEF d
  <2>4. TemplatesTypeOK /\ HandedOutComplete /\ lib = Library
    BY DEF TemplatesInv
  <2>5. var_count' \in 0..MaxStrings /\ 0..(var_count - 1) \subseteq 0..(var_count' - 1)
        /\ var_count \in 0..(var_count' - 1)
    BY <2>1, <2>4, MaxStringsAssumption DEF TemplatesTypeOK
  <2>6. CASE d = NoDecl
    <3>1. specializations' = specializations /\ bodies' = bodies /\ helpers' = helpers
      BY <2>1, <2>6
    <3>2. TemplatesTypeOK'
      BY <2>2, <2>4, <2>5, <3>1 DEF TemplatesTypeOK
    <3>3. HandedOutComplete'
      BY <2>2, <2>4, <3>1 DEF HandedOutComplete
    <3>. QED
      BY <2>1, <2>2, <3>1, <3>2, <3>3 DEF TemplatesInv
  <2>7. CASE d # NoDecl
    <3>1. /\ specializations' = specializations \cup {d}
          /\ bodies' = IF TemplateDecls[tmpl].defined THEN bodies \cup {d} ELSE bodies
          /\ DOMAIN helpers' = DOMAIN helpers \cup {var_count}
          /\ \A v \in DOMAIN helpers' : helpers'[v] = IF v \in DOMAIN helpers THEN helpers[v] ELSE d
      BY <2>1, <2>7
    <3>2. TemplatesTypeOK'
      <4>1. bodies' \subseteq specializations' /\ \A v \in DOMAIN helpers' : helpers'[v] \in specializations'
        BY <2>4, <3>1 DEF TemplatesTypeOK
      <4>2. \A s \in specializations' : s.of \in DOMAIN TemplateDecls
                                       /\ Len(s.args) = Len(TemplateDecls[s.of].params)
        BY <2>3, <2>4, <2>7, <3>1 DEF TemplatesTypeOK
      <4>3. DOMAIN helpers' \subseteq 0..(var_count' - 1)
        BY <2>4, <2>5, <3>1 DEF TemplatesTypeOK
      <4>. QED
        BY <2>2, <2>5, <4>1, <4>2, <4>3 DEF TemplatesTypeOK
    <3>3. HandedOutComplete'
      <4>1. \A s \in specializations' :
              TemplateDecls[s.of].kind = "class" /\ TemplateDecls[s.of].defined => s \in bodies'
        BY <2>1, <2>3, <2>4, <2>7, <3>1 DEF HandedOutComplete
      <4>2. \A v \in DOMAIN helpers' : TemplateDecls[helpers'[v].of].defined => helpers'[v] \in bodies'
        BY <2>3, <2>4, <2>7, <3>1 DEF HandedOutComplete
      <4>. QED
        BY <2>2, <4>1, <4>2 DEF HandedOutComplete
    <3>4. \A s \in specializations' : Made(s)'
      BY <2>2, <2>3, <2>7, <3>1 DEF TemplatesInv
    <3>. QED
      BY <2>1, <2>4, <3>2, <3>3, <3>4 DEF TemplatesInv
  <2>. QED
    BY <2>6, <2>7
<1>. QED
  BY <1>1, <1>2, <1>3 DEF TemplatesNext

\* Every specialization is the one its arguments name, whatever the templates,
\* widths and requests: the handle InstantiateTemplate or InstantiateTemplate-
\* FunctionFromString hands out is complete, an integer that fits keeps its
\* value, and what GetClassTemplateArgs and GetClassTemplateInstantiationArgs
\* read from a specialization of types, defaults and packs included, names it.
THEOREM SpecializationsAreExact == TemplatesSpec => []SpecializationsExact
<1>1. TemplatesInv => SpecializationsExact
  BY BackAgain, KeptValues DEF TemplatesInv, SpecializationsExact
<1>. QED
  BY <1>1, TemplatesInitInv, TemplatesStepInv, PTL DEF TemplatesSpec

=============================================================================
