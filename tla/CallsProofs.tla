----------------------------- MODULE CallsProofs ------------------------------
(***************************************************************************)
(* Proofs about Calls, for every program and every sequence of the         *)
(* caller's calls that follows the documentation: no block is used against *)
(* the way it was made, a call moves only from what the function takes     *)
(* that way, and a wrapper runs the function it was made for.              *)
(*                                                                         *)
(* Inv ties the caller's belief about each block to the heap and every     *)
(* stored wrapper to the parameters of its function.  BlocksExact alone is *)
(* not inductive: that a destructor or a placement construction is safe    *)
(* follows from what the caller believes of the block, and that a call     *)
(* leaves the block as believed follows from the clause it runs.           *)
(***************************************************************************)
EXTENDS Calls, FiniteSetTheorems, SequenceTheorems, TLAPS

\* What the caller can believe of a block.
Notes == {"raw", "made", "freed"}

\* The fields of a block.
BlockRec == [cls : Classes, how : {"new", "newArray", "operatorNew"}, objs : Seq(ObjectStates), freed : BOOLEAN]

\* The states of the objects of a block the caller believes made, raw or freed.
Expects(note) == IF note = "made" THEN {"live", "moved"} ELSE {"raw", "gone"}

\* A block is what the caller believes it is.
BlockOK(B, note) ==
  /\ B \in BlockRec /\ note \in Notes
  /\ Len(B.objs) \in 1..MaxCount
  /\ B.how = "new" => Len(B.objs) = 1
  /\ B.how = "newArray" => Len(B.objs) > 1
  /\ note = "raw" => B.how = "operatorNew"
  /\ B.freed = (note = "freed")
  /\ \A i \in 1..Len(B.objs) : B.objs[i] \in Expects(note)

\* What a wrapper runs for n arguments binds each as its parameter asks.
ClauseOK(F, n, ran) ==
  /\ ran # <<>>
  /\ ran[1].binds = [i \in 1..n |-> Bind(F.params[i])]
  /\ ran[1].rvalueObject => F.kind = "method" /\ F.refq = "&&"

\* Every stored wrapper has such a clause for every number of arguments.
WrappersOK ==
  /\ DOMAIN WrapperStore \subseteq DOMAIN Program
  /\ \A f \in DOMAIN WrapperStore : \A n \in Program[f].min..Len(Program[f].params) :
       ClauseOK(Program[f], n, WrapperStore[f][n])

\* The stores, and the table of functions, which no call changes.
StoresOK ==
  /\ Fns = Program
  /\ instantiated \subseteq DOMAIN Program
  /\ DtorWrapperStore \subseteq Classes
  /\ AccessControl \in BOOLEAN
  /\ WrappersOK
  /\ last.asked \in DOMAIN Program \cup {Nothing}

\* The heap and the caller's notes go together, and nothing undefined happened.
HeapOK ==
  /\ heap \in Seq(BlockRec) /\ belief \in Seq(Notes)
  /\ Len(belief) = Len(heap) /\ Len(heap) <= MaxBlocks
  /\ \A b \in 1..Len(heap) : BlockOK(heap[b], belief[b])
  /\ ub = {}

\* The inductive invariant of the heap and of the stored wrappers.
Inv == StoresOK /\ HeapOK

-----------------------------------------------------------------------------

\* Only an rvalue reference or an object that cannot be copied is moved.
LEMMA MoveBind ==
  ASSUME NEW T, Bind(T) = "move"
  PROVE  T = "T&&" \/ T = "moveOnly"
BY DEF Bind, collect_type_info, IsCopyConstructorDeleted

\* For every number of arguments the wrapper accepts there is one clause.
LEMMA ClauseForIs ==
  ASSUME NEW F, F.params \in Seq(Types), F.min \in 0..Len(F.params),
         NEW n \in F.min..Len(F.params)
  PROVE  ClauseFor(F, n) = <<Clause(F, n)>> /\ Clauses(F)[n] = Clause(F, n) /\ n \in ClauseArgs(F)
<1>1. Len(F.params) \in Nat
  OBVIOUS
<1>2. \A N \in ClauseArgs(F) : Clauses(F)[N] = Clause(F, N)
  BY DEF Clauses
<1>3. F.min \in ClauseArgs(F) /\ n \in ClauseArgs(F) /\ DOMAIN Clauses(F) = ClauseArgs(F)
  BY <1>1 DEF ClauseArgs, Clauses
<1>4. CASE F.min = Len(F.params)
  <2>1. n = F.min
    BY <1>1, <1>4
  <2>. QED
    BY <1>2, <1>3, <1>4, <2>1 DEF ClauseFor
<1>5. CASE F.min # Len(F.params)
  BY <1>2, <1>3, <1>5 DEF ClauseFor
<1>. QED
  BY <1>4, <1>5

\* That clause binds the arguments as the parameters ask.
LEMMA ClauseForOK ==
  ASSUME NEW F, F.params \in Seq(Types), F.min \in 0..Len(F.params),
         NEW n \in F.min..Len(F.params)
  PROVE  ClauseOK(F, n, ClauseFor(F, n))
<1>1. /\ Clause(F, n).binds = [i \in 1..n |-> Bind(F.params[i])]
      /\ Clause(F, n).rvalueObject => F.kind = "method" /\ F.refq = "&&"
  BY DEF Clause, make_narg_ctor, make_narg_call
<1>2. ClauseFor(F, n) = <<Clause(F, n)>>
  BY ClauseForIs
<1>3. ClauseFor(F, n)[1] = Clause(F, n) /\ ClauseFor(F, n) # <<>>
  BY <1>2
<1>. QED
  BY <1>1, <1>3 DEF ClauseOK

\* At the start there is no wrapper and no block.
LEMMA InvInit == Init => Inv
<1> SUFFICES ASSUME Init PROVE Inv
  OBVIOUS
<1>1. StoresOK
  BY DEF Init, StoresOK, WrappersOK, NoCall
<1>2. HeapOK
  BY BoundsAssumption DEF Init, HeapOK
<1>. QED
  BY <1>1, <1>2 DEF Inv

\* make_wrapper keeps the stores in order.
LEMMA WrapperKept ==
  ASSUME StoresOK, NEW f \in DOMAIN Program, NEW s, make_wrapper(f, s), Fns' = Fns
  PROVE  /\ instantiated' \subseteq DOMAIN Program /\ AccessControl' = AccessControl
         /\ WrappersOK'
<1>1. CASE UNCHANGED <<instantiated, WrapperStore, AccessControl>>
  BY <1>1 DEF StoresOK, WrappersOK
<1> DEFINE clauses == [n \in Program[f].min..Len(Program[f].params) |-> ClauseFor(Program[f], n)]
<1>2. CASE ~ UNCHANGED <<instantiated, WrapperStore, AccessControl>>
  <2>1. /\ instantiated' \subseteq instantiated \cup {f}
        /\ WrapperStore' = WrapperStore \/ WrapperStore' = Stored(f, clauses)
        /\ AccessControl' = AccessControl
    BY <1>2 DEF make_wrapper, compileFunction, StoresOK
  <2>2. \A n \in Program[f].min..Len(Program[f].params) : ClauseOK(Program[f], n, clauses[n])
    BY ClauseForOK, ProgramAssumption
  <2> HIDE DEF clauses
  <2>3. CASE WrapperStore' = WrapperStore
    BY <2>1, <2>3 DEF StoresOK, WrappersOK
  <2>4. CASE WrapperStore' = Stored(f, clauses)
    BY <2>1, <2>2, <2>4 DEF StoresOK, WrappersOK, Stored
  <2>. QED
    BY <2>1, <2>3, <2>4
<1>. QED
  BY <1>1, <1>2

-----------------------------------------------------------------------------

\* A heap and notes of equal length, block by block as believed.
LEMMA HeapIs ==
  ASSUME NEW h, NEW notes, NEW n \in Nat, n <= MaxBlocks,
         h = [b \in 1..n |-> h[b]], notes = [b \in 1..n |-> notes[b]],
         \A b \in 1..n : BlockOK(h[b], notes[b])
  PROVE  /\ h \in Seq(BlockRec) /\ notes \in Seq(Notes)
         /\ Len(notes) = Len(h) /\ Len(h) <= MaxBlocks
         /\ \A b \in 1..Len(h) : BlockOK(h[b], notes[b])
<1>1. \A b \in 1..n : h[b] \in BlockRec /\ notes[b] \in Notes
  BY DEF BlockOK
<1>2. h \in [1..n -> BlockRec] /\ notes \in [1..n -> Notes]
  BY <1>1
<1>3. h \in Seq(BlockRec) /\ notes \in Seq(Notes) /\ Len(h) = n /\ Len(notes) = n
  BY <1>2
<1>. QED
  BY <1>3

\* HeapOK block by block, with the domains the other lemmas need.
LEMMA HeapShape ==
  ASSUME HeapOK
  PROVE  /\ Len(heap) \in Nat /\ Blocks = 1..Len(heap) /\ Len(heap) <= MaxBlocks
         /\ MaxBlocks \in Nat /\ MaxCount \in Nat
         /\ heap = [b \in 1..Len(heap) |-> heap[b]]
         /\ belief = [b \in 1..Len(heap) |-> belief[b]]
         /\ \A b \in Blocks : BlockOK(heap[b], belief[b])
         /\ Null \notin Blocks /\ Variable \notin Blocks /\ 0 \notin Blocks
<1>1. Len(heap) \in Nat /\ Blocks = 1..Len(heap) /\ MaxBlocks \in Nat /\ MaxCount \in Nat
  BY BoundsAssumption DEF HeapOK, Blocks
<1>. QED
  BY <1>1 DEF HeapOK, Null, Variable

\* The state of the objects of a block after some were moved from.
Moving(B, b, moves) == [i \in DOMAIN B.objs |-> IF <<b, i>> \in moves THEN "moved" ELSE B.objs[i]]

\* What is moved from exists.
FromObjects(moves) == \A b \in Blocks : \A i \in 1..Len(heap[b].objs) : <<b, i>> \in moves => i \in Usable(b)

\* Moving from objects that exist leaves their block as believed.
LEMMA MovingOK ==
  ASSUME HeapOK, NEW moves, FromObjects(moves), NEW b \in Blocks, NEW B,
         B = [heap[b] EXCEPT !.objs = Moving(heap[b], b, moves)]
  PROVE  /\ BlockOK(B, belief[b])
         /\ DOMAIN B.objs = DOMAIN heap[b].objs
         /\ B.cls = heap[b].cls /\ B.how = heap[b].how /\ B.freed = heap[b].freed
<1>1. BlockOK(heap[b], belief[b])
  BY HeapShape
<1>0. heap[b] \in BlockRec /\ heap[b].objs \in Seq(ObjectStates)
  BY <1>1 DEF BlockOK, BlockRec
<1>2. heap[b] \in BlockRec /\ heap[b].objs \in Seq(ObjectStates) /\ DOMAIN heap[b].objs = 1..Len(heap[b].objs)
  BY <1>0
<1>3. /\ B.cls = heap[b].cls /\ B.how = heap[b].how /\ B.freed = heap[b].freed
      /\ B.objs = Moving(heap[b], b, moves)
      /\ B = [cls |-> B.cls, how |-> B.how, objs |-> B.objs, freed |-> B.freed]
  BY <1>2 DEF BlockRec
<1>4. \A i \in 1..Len(heap[b].objs) :
        B.objs[i] = IF <<b, i>> \in moves THEN "moved" ELSE heap[b].objs[i]
  BY <1>2, <1>3 DEF Moving
<1>5. B.objs \in [1..Len(heap[b].objs) -> ObjectStates]
  BY <1>2, <1>3, <1>4 DEF Moving, ObjectStates
<1>6. B.objs \in Seq(ObjectStates) /\ Len(B.objs) = Len(heap[b].objs) /\ DOMAIN B.objs = DOMAIN heap[b].objs
  BY <1>2, <1>5
<1>7. \A i \in 1..Len(B.objs) : B.objs[i] \in Expects(belief[b])
  <2> SUFFICES ASSUME NEW i \in 1..Len(heap[b].objs) PROVE B.objs[i] \in Expects(belief[b])
    BY <1>6
  <2>1. CASE <<b, i>> \in moves
    <3>1. HasObject(heap[b].objs[i])
      BY <2>1 DEF FromObjects, Usable
    <3>2. belief[b] = "made"
      BY <1>1, <3>1 DEF BlockOK, Expects, HasObject
    <3>. QED
      BY <1>4, <2>1, <3>2 DEF Expects
  <2>2. CASE <<b, i>> \notin moves
    BY <1>1, <1>4, <2>2 DEF BlockOK
  <2>. QED
    BY <2>1, <2>2
<1>8. B \in BlockRec
  BY <1>2, <1>3, <1>6 DEF BlockRec
<1>. QED
  BY <1>1, <1>3, <1>6, <1>7, <1>8 DEF BlockOK

\* A tuple of one value is a sequence of it.
LEMMA Uniform ==
  ASSUME NEW S, NEW m \in Nat, NEW state \in S, NEW t \in [1..m -> {state}]
  PROVE  t \in Seq(S) /\ Len(t) = m /\ \A i \in 1..m : t[i] = state
<1>1. t \in [1..m -> S] /\ \A i \in 1..m : t[i] = state
  OBVIOUS
<1>. QED
  BY <1>1

\* The fields of a block and their types.
LEMMA BlockTypes ==
  ASSUME NEW B, NEW note, BlockOK(B, note)
  PROVE  /\ B.objs \in Seq(ObjectStates) /\ Len(B.objs) \in Nat /\ DOMAIN B.objs = 1..Len(B.objs)
         /\ B.cls \in Classes /\ B.how \in {"new", "newArray", "operatorNew"}
         /\ B.freed \in BOOLEAN
         /\ B = [cls |-> B.cls, how |-> B.how, objs |-> B.objs, freed |-> B.freed]
<1>1. B \in BlockRec
  BY DEF BlockOK
<1>2. B.objs \in Seq(ObjectStates)
  BY <1>1 DEF BlockRec
<1>3. Len(B.objs) \in Nat /\ DOMAIN B.objs = 1..Len(B.objs)
  BY <1>2
<1>. QED
  BY <1>1, <1>2, <1>3 DEF BlockRec

\* The numbers of objects are positive.
LEMMA InCount == \A m \in 1..MaxCount : m \in Nat /\ m >= 1
BY BoundsAssumption

\* A block whose objects are all in one state.
LEMMA AllOK ==
  ASSUME NEW C \in Classes, NEW how \in {"new", "newArray", "operatorNew"}, NEW freed \in BOOLEAN,
         NEW note \in Notes, NEW m \in 1..MaxCount, NEW state, state \in Expects(note),
         NEW objs \in [1..m -> {state}],
         freed <=> note = "freed", how = "new" => m = 1, how = "newArray" => m > 1,
         note = "raw" => how = "operatorNew"
  PROVE  BlockOK([cls |-> C, how |-> how, objs |-> objs, freed |-> freed], note)
<1>1. m \in Nat
  BY InCount
<1>0. state \in ObjectStates
  BY DEF Expects, ObjectStates
<1>2. objs \in Seq(ObjectStates) /\ Len(objs) = m /\ \A i \in 1..m : objs[i] = state
  BY <1>0, <1>1, Uniform
<1>3. [cls |-> C, how |-> how, objs |-> objs, freed |-> freed] \in BlockRec
  BY <1>2 DEF BlockRec
<1>. QED
  BY <1>2, <1>3 DEF BlockOK

\* A block made of objects in one state.
LEMMA BlockIs ==
  ASSUME NEW C \in Classes, NEW how \in {"new", "newArray", "operatorNew"},
         NEW n \in 1..MaxCount, NEW note \in {"raw", "made"}, NEW state, state \in Expects(note),
         how = "new" => n = 1, how = "newArray" => n > 1, note = "raw" => how = "operatorNew"
  PROVE  BlockOK(block(C, how, n, state), note)
<1>. DEFINE objs == [i \in 1..n |-> state]
<1>1. objs \in [1..n -> {state}] /\ note \in Notes /\ FALSE \in BOOLEAN /\ (FALSE <=> note = "freed")
  BY DEF Notes
<1>2. block(C, how, n, state) = [cls |-> C, how |-> how, objs |-> objs, freed |-> FALSE]
  BY DEF block
<1>. HIDE DEF objs
<1>3. BlockOK([cls |-> C, how |-> how, objs |-> objs, freed |-> FALSE], note)
  BY <1>1, AllOK
<1>. QED
  BY <1>2, <1>3

\* One block more.
LEMMA Appended ==
  ASSUME HeapOK, Len(heap) < MaxBlocks, NEW h, NEW B, NEW note, BlockOK(B, note),
         h = [b \in 1..Len(heap) |-> h[b]],
         \A b \in 1..Len(heap) : BlockOK(h[b], belief[b]),
         heap' = Append(h, B), belief' = Append(belief, note), ub' = ub
  PROVE  HeapOK'
<1> DEFINE n == Len(heap)
<1>1. n \in Nat /\ n < MaxBlocks /\ MaxBlocks \in Nat
  BY HeapShape
<1>2. h \in Seq(BlockRec) /\ Len(h) = n /\ belief \in Seq(Notes) /\ Len(belief) = n
  <2>1. \A b \in 1..n : h[b] \in BlockRec
    BY DEF BlockOK
  <2>2. h \in [1..n -> BlockRec]
    BY <2>1
  <2>. QED
    BY <2>2, <1>1 DEF HeapOK
<1>3. B \in BlockRec /\ note \in Notes
  BY DEF BlockOK
<1>4. heap' \in Seq(BlockRec) /\ Len(heap') = n + 1 /\ belief' \in Seq(Notes) /\ Len(belief') = n + 1
  BY <1>2, <1>3
<1>5. ASSUME NEW b \in 1..Len(heap') PROVE BlockOK(heap'[b], belief'[b])
  <2>1. CASE b = n + 1
    <3>1. heap'[b] = B /\ belief'[b] = note
      BY <1>1, <1>2, <1>3, <2>1
    <3>. QED
      BY <3>1
  <2>2. CASE b # n + 1
    <3>1. b \in 1..n
      BY <1>1, <1>4, <2>2
    <3>2. heap'[b] = h[b] /\ belief'[b] = belief[b]
      BY <1>1, <1>2, <1>3, <3>1
    <3>. QED
      BY <3>1, <3>2
  <2>. QED
    BY <2>1, <2>2
<1>. QED
  BY <1>1, <1>4, <1>5 DEF HeapOK

\* The blocks change, and none comes or goes.
LEMMA Updated ==
  ASSUME HeapOK, ub' = {},
         heap' = [b \in Blocks |-> heap'[b]], belief' = [b \in Blocks |-> belief'[b]],
         \A b \in Blocks : BlockOK(heap'[b], belief'[b])
  PROVE  HeapOK'
<1>1. Len(heap) \in Nat /\ Blocks = 1..Len(heap) /\ Len(heap) <= MaxBlocks
  BY HeapShape
<1> DEFINE h == heap'
           notes == belief'
           n == Len(heap)
<1>2. h = [b \in 1..n |-> h[b]] /\ notes = [b \in 1..n |-> notes[b]] /\ \A b \in 1..n : BlockOK(h[b], notes[b])
  BY <1>1
<1>3. n \in Nat /\ n <= MaxBlocks
  BY <1>1
<1> HIDE DEF h, notes, n
<1>4. /\ h \in Seq(BlockRec) /\ notes \in Seq(Notes)
      /\ Len(notes) = Len(h) /\ Len(h) <= MaxBlocks
      /\ \A b \in 1..Len(h) : BlockOK(h[b], notes[b])
  BY <1>2, <1>3, HeapIs
<1>. QED
  BY <1>4 DEF HeapOK, h, notes

\* A new block of memory without objects.
LEMMA AllocateInv ==
  ASSUME Inv, NEW C \in Classes, NEW n \in 1..MaxCount, Allocate(C, n)
  PROVE  Inv'
<1>1. StoresOK'
  BY DEF Inv, Allocate, StoresOK, WrappersOK, NoCall
<1>2. BlockOK(block(C, "operatorNew", n, "raw"), "raw")
  BY BlockIs DEF Expects
<1>3. /\ HeapOK /\ Len(heap) < MaxBlocks /\ ub' = ub
      /\ heap' = Append(heap, block(C, "operatorNew", n, "raw"))
      /\ belief' = Append(belief, "raw")
  BY DEF Inv, Allocate
<1>4. heap = [b \in 1..Len(heap) |-> heap[b]] /\ \A b \in 1..Len(heap) : BlockOK(heap[b], belief[b])
  BY <1>3, HeapShape
<1>5. HeapOK'
  BY <1>2, <1>3, <1>4, Appended
<1>. QED
  BY <1>1, <1>5 DEF Inv

\* Memory without objects is given back.
LEMMA DeallocateInv ==
  ASSUME Inv, NEW b \in Blocks, Deallocate(b)
  PROVE  Inv'
<1>1. StoresOK'
  BY DEF Inv, Deallocate, StoresOK, WrappersOK, NoCall
<1>2. /\ HeapOK /\ belief[b] = "raw" /\ ub' = {}
      /\ heap' = [heap EXCEPT ![b].freed = TRUE]
      /\ belief' = [belief EXCEPT ![b] = "freed"]
  BY DEF Inv, Deallocate, HeapOK
<1>3. DOMAIN heap = Blocks /\ DOMAIN belief = Blocks
  BY <1>2, HeapShape
<1>4. ASSUME NEW c \in Blocks PROVE BlockOK(heap'[c], belief'[c])
  <2>1. BlockOK(heap[c], belief[c])
    BY <1>2, HeapShape
  <2>2. CASE c # b
    BY <1>2, <1>3, <2>1, <2>2
  <2>3. CASE c = b
    <3>1. heap'[c] = [heap[c] EXCEPT !.freed = TRUE] /\ belief'[c] = "freed"
      BY <1>2, <1>3, <2>3
    <3>2. heap[c] \in BlockRec
      BY <2>1 DEF BlockOK
    <3>3. /\ heap'[c].cls = heap[c].cls /\ heap'[c].how = heap[c].how /\ heap'[c].objs = heap[c].objs
          /\ heap'[c].freed = TRUE /\ heap'[c] \in BlockRec
      BY <3>1, <3>2 DEF BlockRec
    <3>4. belief[c] = "raw" /\ Expects("raw") = Expects("freed") /\ belief'[c] = "freed"
      BY <1>2, <2>3, <3>1 DEF Expects
    <3>5. /\ Len(heap[c].objs) \in 1..MaxCount
          /\ heap[c].how = "operatorNew"
          /\ \A i \in 1..Len(heap[c].objs) : heap[c].objs[i] \in Expects("raw")
      BY <2>1, <3>4 DEF BlockOK
    <3>. QED
      BY <3>3, <3>4, <3>5 DEF BlockOK, Notes
  <2>. QED
    BY <2>2, <2>3
<1>5. heap' = [c \in Blocks |-> heap'[c]] /\ belief' = [c \in Blocks |-> belief'[c]]
  BY <1>2, <1>3
<1>6. HeapOK'
  BY <1>2, <1>4, <1>5, Updated
<1>. QED
  BY <1>1, <1>6 DEF Inv

\* The objects of a block reached by their destructor.
LEMMA DestructInv ==
  ASSUME Inv, NEW b \in Blocks, NEW withFree \in BOOLEAN, NEW nary \in 0..MaxCount,
         DestructAsDocumented(b, withFree, nary)
  PROVE  Inv'
<1> DEFINE B == heap[b]
<1>1. HeapOK /\ BlockOK(B, belief[b]) /\ belief[b] = "made" /\ ub = {}
  BY HeapShape DEF Inv, DestructAsDocumented, HeapOK
<1>2. /\ B \in BlockRec /\ B.objs \in Seq(ObjectStates) /\ DOMAIN B.objs = 1..Len(B.objs)
      /\ Len(B.objs) \in Nat /\ Len(B.objs) \in 1..MaxCount
      /\ B.cls \in Classes /\ B.how \in {"new", "newArray", "operatorNew"}
      /\ ~B.freed /\ \A i \in 1..Len(B.objs) : HasObject(B.objs[i])
      /\ B.how = "new" => Len(B.objs) = 1
      /\ B.how = "newArray" => Len(B.objs) > 1
  BY <1>1, BlockTypes DEF BlockOK, Expects, HasObject
<1>3. /\ withFree <=> B.how # "operatorNew"
      /\ nary = IF Len(B.objs) > 1 THEN Len(B.objs) ELSE 0
      /\ make_dtor_wrapper(B.cls)
      /\ last' = NoCall
      /\ UNCHANGED <<Fns, instantiated, WrapperStore>>
  BY <1>1 DEF DestructAsDocumented, Destruct
<1>4. StoresOK'
  BY <1>2, <1>3 DEF Inv, StoresOK, WrappersOK, NoCall, make_dtor_wrapper, compileFunction
<1> DEFINE objs == IF withFree THEN DOMAIN B.objs ELSE destroyed(nary)
<1>5. objs = 1..Len(B.objs)
  <2>0. Len(B.objs) \in Nat /\ Len(B.objs) >= 1
    BY <1>2, InCount
  <2>a. nary = IF Len(B.objs) > 1 THEN Len(B.objs) ELSE 0
    BY <1>3
  <2>1. Len(B.objs) = 1 => nary = 0 /\ 1..Len(B.objs) = {1}
    BY <2>0, <2>a
  <2>2. Len(B.objs) # 1 => nary = Len(B.objs) /\ nary # 0
    <3> DEFINE len == Len(B.objs)
    <3>1. len \in Nat /\ len >= 1 /\ nary = IF len > 1 THEN len ELSE 0
      BY <2>0, <2>a
    <3> HIDE DEF len
    <3>2. len # 1 => len > 1 /\ len # 0
      BY <3>1
    <3>3. len # 1 => nary = len /\ nary # 0
      BY <3>1, <3>2, Zenon
    <3>. QED
      BY <3>3 DEF len
  <2>. QED
    BY <1>2, <2>1, <2>2 DEF destroyed
<1>6. Usable(b) = 1..Len(B.objs)
  BY <1>2 DEF Usable
<1>7. ub' = {}
  <2>1. ub' = ub \cup (IF withFree /\ B.how # (IF nary = 0 THEN "new" ELSE "newArray") THEN {"freedByAnotherForm"} ELSE {})
                  \cup (IF \E i \in objs : i \notin Usable(b) THEN {"destroyedTwice"} ELSE {})
    BY DEF DestructAsDocumented, Destruct
  <2>2. withFree => B.how = (IF nary = 0 THEN "new" ELSE "newArray")
    BY <1>2, <1>3
  <2>3. ~ \E i \in objs : i \notin Usable(b)
    BY <1>5, <1>6
  <2> HIDE DEF objs, B
  <2>. QED
    BY <1>1, <2>1, <2>2, <2>3
<1> DEFINE note == IF withFree THEN "freed" ELSE "raw"
           ended == [i \in DOMAIN B.objs |-> IF i \in objs THEN "gone" ELSE B.objs[i]]
           A == [cls |-> B.cls, how |-> B.how, objs |-> ended, freed |-> withFree]
<1>8. heap' = [heap EXCEPT ![b] = A] /\ belief' = [belief EXCEPT ![b] = note]
  <2>1. heap' = [heap EXCEPT ![b] = A]
    BY DEF DestructAsDocumented, Destruct
  <2>3. belief' = [belief EXCEPT ![b] = note]
    BY DEF DestructAsDocumented, Destruct
  <2>. QED
    BY <2>1, <2>3
<1>9. BlockOK(A, note)
  <2>1. ended \in [1..Len(B.objs) -> {"gone"}]
    BY <1>2, <1>5
  <2>2. note \in Notes /\ "gone" \in Expects(note) /\ (withFree <=> note = "freed") /\ (note = "raw" => B.how = "operatorNew")
    BY <1>3 DEF Notes, Expects
  <2> HIDE DEF ended, note, B
  <2>. QED
    BY <1>2, <2>1, <2>2, AllOK
<1> HIDE DEF A, note, objs, ended
<1>10. DOMAIN heap = Blocks /\ DOMAIN belief = Blocks
  BY <1>1, HeapShape
<1>11. ASSUME NEW c \in Blocks PROVE BlockOK(heap'[c], belief'[c])
  BY <1>1, <1>8, <1>9, <1>10, HeapShape
<1>12. heap' = [c \in Blocks |-> heap'[c]] /\ belief' = [c \in Blocks |-> belief'[c]]
  BY <1>8, <1>10
<1>13. HeapOK'
  BY <1>1, <1>7, <1>11, <1>12, Updated
<1>. QED
  BY <1>4, <1>13 DEF Inv

-----------------------------------------------------------------------------

\* One of the arguments is taken by rvalue reference.
ByRvalue(F, n) == "T&&" \in {F.params[k] : k \in 1..n}

\* What a call may move from.
LEMMA MoveFrom ==
  ASSUME NEW F, NEW n \in Nat, NEW args \in Arguments(F, n), NEW binds,
         binds = [i \in 1..n |-> Bind(F.params[i])],
         NEW o \in MustMove(F, binds, args) \cup MayMove(F, binds, args)
  PROVE  o \in Objects("M") \/ (o \in Objects("C") /\ ByRvalue(F, n))
<1>1. PICK j \in 1..n : o = args[j] /\ Bind(F.params[j]) = "move"
  BY DEF MustMove, MayMove
<1>2. CASE F.params[j] = "T&&"
  <2>1. o \in Objects(ClassOf(F.params[j])) /\ ClassOf(F.params[j]) = "C"
    BY <1>1, <1>2, Zenon DEF Arguments, ClassOf
  <2>. QED
    BY <1>2, <2>1, Zenon DEF ByRvalue
<1>3. CASE F.params[j] = "moveOnly"
  <2>1. o \in Objects(ClassOf(F.params[j])) /\ ClassOf(F.params[j]) = "M"
    BY <1>1, <1>3, Zenon DEF Arguments, ClassOf
  <2>. QED
    BY <2>1
<1>. QED
  BY <1>1, <1>2, <1>3, MoveBind

\* An object of the caller's is in its block.
LEMMA ObjectThere ==
  ASSUME NEW C, NEW o \in Objects(C), NEW b, NEW i, o = <<b, i>>
  PROVE  b \in Blocks /\ heap[b].cls = C /\ i \in Usable(b)
<1>1. PICK c \in {x \in Blocks : heap[x].cls = C}, k \in 1..MaxCount : o = <<c, k>>
  BY DEF Objects, ObjectsOf
<1>2. c = b /\ k = i
  BY <1>1
<1>3. o[2] \in Usable(o[1]) /\ o[1] = b /\ o[2] = i
  BY DEF Objects
<1>. QED
  BY <1>1, <1>2, <1>3

\* What a call or a construction is allowed to move from.
Movable(F, n, moves) ==
  \A o \in moves : \/ o \in Objects("M")
                   \/ o \in Objects("C") /\ ByRvalue(F, n)
                   \/ o \in Objects(F.scope) /\ F.kind = "method" /\ F.refq = "&&"

\* What may be moved from is an object in its block.
LEMMA MovableExists ==
  ASSUME NEW F, NEW n, NEW moves, Movable(F, n, moves)
  PROVE  FromObjects(moves)
<1> SUFFICES ASSUME NEW b \in Blocks, NEW i \in 1..Len(heap[b].objs), <<b, i>> \in moves
             PROVE  i \in Usable(b)
  BY DEF FromObjects
<1>1. \E C : <<b, i>> \in Objects(C)
  BY DEF Movable
<1>. QED
  BY <1>1, ObjectThere

\* The moves of a call follow its clause.
LEMMA CallMoves ==
  ASSUME NEW F, NEW n \in Nat, NEW args \in Arguments(F, n), NEW ran, ClauseOK(F, n, ran),
         NEW self, F.kind = "method" => self \in Objects(F.scope), NEW moves,
         moves \subseteq MustMove(F, ran[1].binds, args) \cup MayMove(F, ran[1].binds, args)
                          \cup (IF ran[1].rvalueObject THEN {self} ELSE {})
  PROVE  Movable(F, n, moves)
<1> SUFFICES ASSUME NEW o \in moves
             PROVE  \/ o \in Objects("M")
                    \/ o \in Objects("C") /\ ByRvalue(F, n)
                    \/ o \in Objects(F.scope) /\ F.kind = "method" /\ F.refq = "&&"
  BY DEF Movable
<1>1. CASE o \in MustMove(F, ran[1].binds, args) \cup MayMove(F, ran[1].binds, args)
  <2>1. ran[1].binds = [i \in 1..n |-> Bind(F.params[i])]
    BY DEF ClauseOK
  <2>. QED
    BY <1>1, <2>1, MoveFrom
<1>2. CASE ran[1].rvalueObject /\ o = self
  BY <1>2, Zenon DEF ClauseOK
<1>. QED
  BY <1>1, <1>2

\* The stores during a call.
LEMMA CallKeepsStores ==
  ASSUME StoresOK, UNCHANGED <<Fns, instantiated, WrapperStore, DtorWrapperStore, AccessControl>>,
         last'.asked \in DOMAIN Program \cup {Nothing}
  PROVE  StoresOK'
BY DEF StoresOK, WrappersOK

\* A result is made in a block without objects.
LEMMA MadeOver ==
  ASSUME HeapOK, NEW b \in Blocks, belief[b] = "raw", NEW moves, FromObjects(moves)
  PROVE  /\ \A i \in 1..Len(heap[b].objs) : <<b, i>> \notin moves /\ ~HasObject(heap[b].objs[i])
         /\ heap[b].how = "operatorNew" /\ heap[b].freed = FALSE
<1>1. BlockOK(heap[b], belief[b])
  BY HeapShape
<1>2. \A i \in 1..Len(heap[b].objs) : ~HasObject(heap[b].objs[i])
  BY <1>1 DEF BlockOK, Expects, HasObject
<1>. QED
  BY <1>1, <1>2 DEF FromObjects, Usable, BlockOK

\* JitCall::Invoke of a function or a method.
LEMMA InvokeInv ==
  ASSUME Inv, NEW f \in DOMAIN WrapperStore, NEW n \in Fns[f].min..Len(Fns[f].params), NEW extra \in BOOLEAN,
         NEW args \in Arguments(Fns[f], n),
         NEW self \in (IF Fns[f].kind = "method" THEN Objects(Fns[f].scope) ELSE {NullObject}),
         NEW result \in Results(Fns[f]),
         Invoke(f, n, args, self, result, extra)
  PROVE  Inv'
<1> DEFINE F == Program[f]
           ran == WrapperStore[f][n]
           moves == IF ran = <<>> THEN {} ELSE MustMove(F, ran[1].binds, args)
                 \cup (IF extra THEN MayMove(F, ran[1].binds, args)
                                       \cup (IF ran[1].rvalueObject THEN {self} ELSE {}) ELSE {})
<1>1. /\ Fns = Program /\ f \in DOMAIN Program /\ HeapOK /\ StoresOK
      /\ ClauseOK(F, n, ran) /\ n \in Nat
  BY ProgramAssumption DEF Inv, StoresOK, WrappersOK
<1>2. Movable(F, n, moves)
  <2>1. moves \subseteq MustMove(F, ran[1].binds, args) \cup MayMove(F, ran[1].binds, args)
                          \cup (IF ran[1].rvalueObject THEN {self} ELSE {})
    OBVIOUS
  <2>2. F.kind = "method" => self \in Objects(F.scope)
    BY <1>1
  <2> HIDE DEF F, ran, moves
  <2>. QED
    BY <1>1, <2>1, <2>2, CallMoves DEF F
<1>3. FromObjects(moves)
  <2> HIDE DEF F, ran, moves
  <2>. QED
    BY <1>2, MovableExists
<1>4. ran # <<>>
  BY <1>1 DEF ClauseOK
<1>5. /\ heap' = [b \in Blocks |-> [heap[b] EXCEPT !.objs = [i \in DOMAIN heap[b].objs |->
                    IF <<b, i>> \in moves THEN "moved"
                    ELSE IF b = result THEN "live" ELSE heap[b].objs[i]]]]
      /\ belief' = IF result \in Blocks THEN [belief EXCEPT ![result] = "made"] ELSE belief
      /\ ub' = IF result \in Blocks /\ HasObject(heap[result].objs[1]) THEN ub \cup {"constructedTwice"} ELSE ub
      /\ last'.asked = f
      /\ UNCHANGED <<Fns, instantiated, WrapperStore, DtorWrapperStore, AccessControl>>
  BY <1>1, <1>4 DEF Invoke
<1>6. StoresOK'
  BY <1>1, <1>5, CallKeepsStores
<1>7. result \in Blocks => belief[result] = "raw" /\ Len(heap[result].objs) = 1
  BY <1>1, HeapShape DEF Results
<1> HIDE DEF F, ran, moves
<1>8. DOMAIN belief = Blocks /\ ub = {}
  BY <1>1, HeapShape DEF HeapOK
<1>9. ub' = {}
  <2>1. ASSUME result \in Blocks PROVE ~HasObject(heap[result].objs[1])
    <3>0. Len(heap[result].objs) = 1 /\ 1 \in 1..1
      BY <1>7, <2>1
    <3>1. 1 \in 1..Len(heap[result].objs)
      BY <3>0, Zenon
    <3>. QED
      BY <1>1, <1>3, <1>7, <2>1, <3>1, MadeOver
  <2>. QED
    BY <1>5, <1>8, <2>1
<1>10. ASSUME NEW b \in Blocks PROVE BlockOK(heap'[b], belief'[b])
  <2>1. CASE b # result
    <3>1. heap'[b] = [heap[b] EXCEPT !.objs = Moving(heap[b], b, moves)] /\ belief'[b] = belief[b]
      BY <1>5, <1>8, <2>1 DEF Moving
    <3>. QED
      BY <1>1, <1>3, <3>1, MovingOK
  <2>2. CASE b = result
    <3> DEFINE objs == [i \in DOMAIN heap[b].objs |->
                    IF <<b, i>> \in moves THEN "moved"
                    ELSE IF b = result THEN "live" ELSE heap[b].objs[i]]
               B == heap[b]
    <3>1. BlockOK(B, "raw") /\ belief'[b] = "made"
      BY <1>1, <1>5, <1>7, <1>8, <2>2, HeapShape
    <3>2. /\ B.cls \in Classes /\ B.how = "operatorNew" /\ B.freed = FALSE
          /\ DOMAIN B.objs = 1..1 /\ <<b, 1>> \notin moves
      <4>1. B.cls \in Classes /\ DOMAIN B.objs = 1..Len(B.objs)
        BY <3>1, BlockTypes
      <4>2. Len(B.objs) = 1 /\ belief[b] = "raw"
        BY <1>7, <2>2
      <4>3. 1 \in 1..Len(B.objs)
        BY <4>2
      <4>4. B.how = "operatorNew" /\ B.freed = FALSE /\ <<b, 1>> \notin moves
        BY <1>1, <1>3, <4>2, <4>3, MadeOver
      <4>. QED
        BY <4>1, <4>2, <4>4
    <3>3. objs \in [1..1 -> {"live"}]
      BY <2>2, <3>2
    <3>4. heap'[b] = [B EXCEPT !.objs = objs]
      BY <1>5
    <3>5. heap'[b] = [cls |-> B.cls, how |-> B.how, objs |-> objs, freed |-> B.freed]
      <4>1. B \in BlockRec
        BY <3>1 DEF BlockOK
      <4> HIDE DEF B, objs
      <4>. QED
        BY <3>4, <4>1 DEF BlockRec
    <3>6. 1 \in 1..MaxCount /\ "live" \in Expects("made") /\ "made" \in Notes
      BY BoundsAssumption DEF Expects, Notes
    <3> HIDE DEF B, objs
    <3>7. BlockOK(heap'[b], "made")
      <4>1. B.freed \in BOOLEAN /\ (B.freed <=> "made" = "freed") /\ B.how \in {"new", "newArray", "operatorNew"}
        BY <3>2
      <4>2. B.how # "new" /\ B.how # "newArray" /\ "made" # "raw"
        BY <3>2
      <4>3. BlockOK([cls |-> B.cls, how |-> B.how, objs |-> objs, freed |-> B.freed], "made")
        BY <3>2, <3>3, <3>6, <4>1, <4>2, AllOK, Zenon
      <4>. QED
        BY <3>5, <4>3
    <3>. QED
      BY <3>1, <3>7
  <2>. QED
    BY <2>1, <2>2
<1>11. heap' = [b \in Blocks |-> heap'[b]] /\ belief' = [b \in Blocks |-> belief'[b]]
  <2>1. heap' = [b \in Blocks |-> heap'[b]]
    BY <1>5
  <2>2. belief = [b \in Blocks |-> belief[b]]
    BY <1>1, HeapShape
  <2>3. belief' = [b \in Blocks |-> belief'[b]]
    BY <1>5, <2>2
  <2>. QED
    BY <2>1, <2>3
<1>12. HeapOK'
  BY <1>1, <1>9, <1>10, <1>11, Updated
<1>. QED
  BY <1>6, <1>12 DEF Inv

\* A constructor makes all the objects of a block, new or the caller's.
LEMMA ConstructedHeap ==
  ASSUME HeapOK, Fns = Program, NEW f \in DOMAIN Program, Program[f].scope \in Classes,
         NEW ran, ran # <<>>, NEW nary, NEW nargs, NEW n \in 1..MaxCount, constructed(Program[f], nary) = n,
         NEW arena \in {Null} \cup RawBlocks(Program[f].scope, n),
         NEW moves, FromObjects(moves),
         InvokeConstructor(f, ran, nary, nargs, arena, moves)
  PROVE  HeapOK'
<1> DEFINE moved == [b \in Blocks |->
                 [heap[b] EXCEPT !.objs = [i \in DOMAIN heap[b].objs |->
                    IF <<b, i>> \in moves THEN "moved" ELSE heap[b].objs[i]]]]
           made == [i \in DOMAIN moved[arena].objs |-> IF i <= n THEN "live" ELSE moved[arena].objs[i]]
<1>1. CASE arena = Null
  <2> DEFINE B == block(Program[f].scope, IF n > 1 THEN "newArray" ELSE "new", n, "live")
  <2>1. /\ Len(heap) < MaxBlocks
        /\ heap' = Append(moved, B)
        /\ belief' = Append(belief, "made")
        /\ ub' = ub
    BY <1>1 DEF InvokeConstructor
  <2>2. BlockOK(B, "made")
    <3>1. n = 1 \/ n > 1
      BY InCount
    <3>2. CASE n = 1
      <4>1. BlockOK(block(Program[f].scope, "new", n, "live"), "made")
        BY <3>2, BlockIs DEF Expects
      <4>. QED
        BY <3>2, <4>1
    <3>3. CASE n > 1
      <4>1. BlockOK(block(Program[f].scope, "newArray", n, "live"), "made")
        BY <3>3, BlockIs DEF Expects
      <4>. QED
        BY <3>3, <4>1
    <3>. QED
      BY <3>1, <3>2, <3>3
  <2>3. Blocks = 1..Len(heap)
    BY HeapShape
  <2>4. ASSUME NEW b \in Blocks PROVE BlockOK(moved[b], belief[b])
    BY MovingOK DEF Moving
  <2>5. moved = [b \in 1..Len(heap) |-> moved[b]]
    BY <2>3
  <2> HIDE DEF moved, B
  <2>. QED
    BY <2>1, <2>2, <2>3, <2>4, <2>5, Appended
<1>2. CASE arena # Null
  <2>1. /\ arena \in Blocks /\ belief[arena] = "raw" /\ Len(heap[arena].objs) = n
        /\ heap[arena].cls = Program[f].scope
    BY <1>2 DEF RawBlocks
  <2>2. /\ heap' = [moved EXCEPT ![arena].objs = made]
        /\ belief' = [belief EXCEPT ![arena] = "made"]
        /\ ub' = IF \E i \in 1..n : HasObject(heap[arena].objs[i]) THEN ub \cup {"constructedTwice"} ELSE ub
    <3>1. constructed(Fns[f], nary) = n
      OBVIOUS
    <3>2. heap' = [moved EXCEPT ![arena].objs = made]
      <4> DEFINE count == constructed(Fns[f], nary)
      <4>1. heap' = [moved EXCEPT ![arena].objs =
                       [i \in DOMAIN moved[arena].objs |-> IF i <= count THEN "live" ELSE moved[arena].objs[i]]]
        BY <1>2, Zenon DEF InvokeConstructor
      <4> HIDE DEF moved
      <4>. QED
        BY <3>1, <4>1
    <3>3. belief' = [belief EXCEPT ![arena] = "made"]
      BY <1>2 DEF InvokeConstructor
    <3>4. ub' = IF \E i \in 1..n : HasObject(heap[arena].objs[i]) THEN ub \cup {"constructedTwice"} ELSE ub
      BY <1>2, <3>1 DEF InvokeConstructor
    <3>. QED
      BY <3>2, <3>3, <3>4
  <2>3. /\ \A i \in 1..n : <<arena, i>> \notin moves /\ ~HasObject(heap[arena].objs[i])
        /\ heap[arena].how = "operatorNew" /\ heap[arena].freed = FALSE
    BY <2>1, MadeOver
  <2>4. ub' = {}
    BY <2>2, <2>3 DEF HeapOK
  <2>5. DOMAIN belief = Blocks /\ belief = [b \in Blocks |-> belief[b]]
    BY HeapShape
  <2>6. /\ heap' = [b \in Blocks |-> heap'[b]] /\ belief' = [b \in Blocks |-> belief'[b]]
        /\ \A b \in Blocks : b # arena => heap'[b] = moved[b] /\ belief'[b] = belief[b]
        /\ heap'[arena] = [moved[arena] EXCEPT !.objs = made] /\ belief'[arena] = "made"
    <3>1. moved = [b \in Blocks |-> moved[b]]
      OBVIOUS
    <3> HIDE DEF moved, made
    <3>. QED
      BY <2>1, <2>2, <2>5, <3>1
  <2>7. ASSUME NEW b \in Blocks PROVE BlockOK(heap'[b], belief'[b])
    <3>1. CASE b # arena
      <4>1. BlockOK(moved[b], belief[b])
        BY MovingOK DEF Moving
      <4>. QED
        BY <2>6, <3>1, <4>1
    <3>2. CASE b = arena
      <4> DEFINE B == moved[arena]
      <4>1. /\ BlockOK(B, "raw") /\ DOMAIN B.objs = DOMAIN heap[arena].objs
            /\ B.cls = heap[arena].cls /\ B.how = heap[arena].how /\ B.freed = heap[arena].freed
        BY <2>1, MovingOK DEF Moving
      <4>2. /\ B.cls \in Classes /\ B.how = "operatorNew" /\ B.freed = FALSE
            /\ B \in BlockRec
        BY <2>3, <4>1, BlockTypes DEF BlockOK
      <4>3. DOMAIN B.objs = 1..n
        <5>1. BlockOK(heap[arena], belief[arena])
          BY <2>1, HeapShape
        <5>. QED
          BY <2>1, <4>1, <5>1, BlockTypes
      <4>4. n \in Nat /\ \A i \in 1..n : i <= n
        BY InCount
      <4>5. made \in [1..n -> {"live"}]
        <5> HIDE DEF B
        <5>1. DOMAIN moved[arena].objs = 1..n
          BY <4>3 DEF B
        <5> HIDE DEF moved
        <5>. QED
          BY <4>4, <5>1
      <4> HIDE DEF moved, made
      <4>6. heap'[b] = [B EXCEPT !.objs = made]
        BY <2>6, <3>2
      <4> HIDE DEF B
      <4>7. heap'[b] = [cls |-> B.cls, how |-> B.how, objs |-> made, freed |-> B.freed]
        BY <4>2, <4>6 DEF BlockRec
      <4>8. "live" \in Expects("made") /\ "made" \in Notes
        BY DEF Expects, Notes
      <4>9. B.freed \in BOOLEAN /\ (B.freed <=> "made" = "freed") /\ B.how \in {"new", "newArray", "operatorNew"}
        BY <4>2
      <4>10. B.how # "new" /\ B.how # "newArray" /\ "made" # "raw"
        BY <4>2
      <4>11. BlockOK([cls |-> B.cls, how |-> B.how, objs |-> made, freed |-> B.freed], "made")
        BY <4>2, <4>5, <4>8, <4>9, <4>10, AllOK, Zenon
      <4>. QED
        BY <2>6, <3>2, <4>7, <4>11
    <3>. QED
      BY <3>1, <3>2
  <2>. QED
    BY <2>4, <2>6, <2>7, Updated
<1>. QED
  BY <1>1, <1>2

\* A constructor invoked with arguments.
LEMMA InvokeCtorInv ==
  ASSUME Inv, NEW f \in DOMAIN WrapperStore, Fns[f].kind = "ctor",
         NEW n \in Fns[f].min..Len(Fns[f].params), NEW extra \in BOOLEAN,
         NEW args \in Arguments(Fns[f], n), NEW arena \in {Null} \cup RawBlocks(Fns[f].scope, 1),
         InvokeCtor(f, n, args, arena, extra)
  PROVE  Inv' /\ \E moves : Movable(Fns[f], n, moves) /\ last'.moves = moves
<1> DEFINE F == Program[f]
           ran == WrapperStore[f][n]
           moves == IF ran = <<>> THEN {} ELSE MustMove(F, ran[1].binds, args)
                 \cup (IF extra THEN MayMove(F, ran[1].binds, args) ELSE {})
<1>1. /\ Fns = Program /\ f \in DOMAIN Program /\ HeapOK /\ StoresOK
      /\ ClauseOK(F, n, ran) /\ n \in Nat /\ F.scope \in Classes
  BY ProgramAssumption DEF Inv, StoresOK, WrappersOK
<1>2. /\ InvokeConstructor(f, ran, 1, n, arena, moves)
      /\ UNCHANGED <<Fns, instantiated, WrapperStore, DtorWrapperStore, AccessControl>>
  BY <1>1 DEF InvokeCtor
<1>3. last'.asked = f /\ last'.moves = moves
  BY <1>2 DEF InvokeConstructor
<1>4. StoresOK'
  BY <1>1, <1>2, <1>3, CallKeepsStores
<1>5. Movable(F, n, moves)
  <2>1. moves \subseteq MustMove(F, ran[1].binds, args) \cup MayMove(F, ran[1].binds, args)
                          \cup (IF ran[1].rvalueObject THEN {NullObject} ELSE {})
    OBVIOUS
  <2>2. F.kind # "method"
    BY <1>1
  <2> HIDE DEF F, ran, moves
  <2>. QED
    BY <1>1, <2>1, <2>2, CallMoves DEF F
<1>6. constructed(F, 1) = 1 /\ 1 \in 1..MaxCount /\ ran # <<>>
  BY <1>1, BoundsAssumption DEF constructed, ClauseOK
<1> HIDE DEF ran, moves
<1>7. FromObjects(moves)
  BY <1>5, MovableExists
<1>8. HeapOK'
  BY <1>1, <1>2, <1>6, <1>7, ConstructedHeap
<1>. QED
  BY <1>1, <1>3, <1>4, <1>5, <1>8 DEF Inv

\* Construct: a wrapper if there is none, and then its constructor.
LEMMA ConstructInv ==
  ASSUME Inv, NEW f \in DOMAIN Fns, Fns[f].kind = "ctor", NEW n \in 1..MaxCount,
         NEW arena \in {Null} \cup RawBlocks(Fns[f].scope, n),
         Construct(f, arena, n)
  PROVE  Inv' /\ ((last'.asked = Nothing /\ UNCHANGED heap) \/ last'.moves = {})
<1> DEFINE F == Program[f]
<1>1. /\ Fns = Program /\ f \in DOMAIN Program /\ HeapOK /\ StoresOK /\ F.scope \in Classes
      /\ F.params \in Seq(Types) /\ F.min \in 0..Len(F.params)
  BY ProgramAssumption DEF Inv, StoresOK
<1>2. /\ make_wrapper(f, FALSE) /\ Fns' = Fns /\ DtorWrapperStore' = DtorWrapperStore
      /\ F.min <= 0
  BY <1>1 DEF Construct, AreArgumentsValid
<1>3. /\ instantiated' \subseteq DOMAIN Program /\ AccessControl' = AccessControl
      /\ WrappersOK'
  BY <1>1, <1>2, WrapperKept
<1>4. F.min = 0 /\ 0 \in F.min..Len(F.params)
  BY <1>1, <1>2
<1>5. CASE f \notin DOMAIN WrapperStore'
  <2>1. last' = NoCall /\ UNCHANGED <<heap, belief, ub>>
    BY <1>5 DEF Construct
  <2>2. HeapOK'
    BY <1>1, <2>1 DEF HeapOK
  <2>3. StoresOK'
    BY <1>1, <1>2, <1>3, <2>1 DEF StoresOK, NoCall
  <2>. QED
    BY <2>1, <2>2, <2>3 DEF Inv, NoCall
<1>6. CASE f \in DOMAIN WrapperStore'
  <2> DEFINE ran == WrapperStore'[f][0]
  <2>1. InvokeConstructor(f, ran, n, 0, arena, {})
    BY <1>6 DEF Construct
  <2>2. ran # <<>>
    <3>1. \A m \in F.min..Len(F.params) : ClauseOK(F, m, WrapperStore'[f][m])
      BY <1>3, <1>6 DEF WrappersOK
    <3>2. ClauseOK(F, 0, ran)
      BY <1>4, <3>1
    <3>. QED
      BY <3>2 DEF ClauseOK
  <2>3. constructed(F, n) = n
    BY <1>1, <1>4, InCount DEF constructed, isDefaultConstructor
  <2>4. FromObjects({})
    BY DEF FromObjects
  <2> HIDE DEF ran
  <2>5. HeapOK'
    BY <1>1, <2>1, <2>2, <2>3, <2>4, ConstructedHeap
  <2>6. last'.asked = f /\ last'.moves = {}
    BY <2>1 DEF InvokeConstructor
  <2>7. StoresOK'
    BY <1>1, <1>2, <1>3, <2>6 DEF StoresOK
  <2>. QED
    BY <2>5, <2>6, <2>7 DEF Inv
<1>. QED
  BY <1>5, <1>6

\* A wrapper is made.
LEMMA CallableInv ==
  ASSUME Inv, NEW f \in DOMAIN Fns, NEW s \in BOOLEAN, MakeFunctionCallable(f, s)
  PROVE  Inv'
<1>1. /\ Fns = Program /\ f \in DOMAIN Program /\ HeapOK /\ StoresOK
      /\ last' = NoCall /\ UNCHANGED <<Fns, heap, belief, ub>>
  BY DEF Inv, StoresOK, MakeFunctionCallable
<1>2. HeapOK'
  BY <1>1 DEF HeapOK
<1>3. CASE Fns[f].kind = "dtor"
  <2>1. make_dtor_wrapper(Fns[f].scope) /\ UNCHANGED <<instantiated, WrapperStore>>
    BY <1>3 DEF MakeFunctionCallable
  <2>2. Program[f].scope \in Classes
    BY <1>1, <1>3, ProgramAssumption
  <2>. QED
    BY <1>1, <1>2, <2>1, <2>2 DEF Inv, StoresOK, WrappersOK, NoCall, make_dtor_wrapper, compileFunction
<1>4. CASE Fns[f].kind # "dtor"
  <2>1. make_wrapper(f, s) /\ UNCHANGED DtorWrapperStore
    BY <1>4 DEF MakeFunctionCallable
  <2>2. instantiated' \subseteq DOMAIN Program /\ AccessControl' = AccessControl /\ WrappersOK'
    BY <1>1, <2>1, WrapperKept
  <2>3. StoresOK'
    BY <1>1, <2>1, <2>2 DEF StoresOK, NoCall
  <2>. QED
    BY <1>2, <2>3 DEF Inv
<1>. QED
  BY <1>3, <1>4

\* Every step keeps the invariant.
LEMMA NextInv == Inv /\ [Next]_vars => Inv'
<1> SUFFICES ASSUME Inv, [Next]_vars PROVE Inv'
  OBVIOUS
<1>1. ASSUME NEW f \in DOMAIN Fns, NEW s \in BOOLEAN, MakeFunctionCallable(f, s) PROVE Inv'
  BY <1>1, CallableInv
<1>2. ASSUME NEW C \in Classes, NEW n \in 1..MaxCount, Allocate(C, n) PROVE Inv'
  BY <1>2, AllocateInv
<1>3. ASSUME NEW b \in Blocks, Deallocate(b) PROVE Inv'
  BY <1>3, DeallocateInv
<1>4. ASSUME NEW f \in DOMAIN WrapperStore, NEW n \in Fns[f].min..Len(Fns[f].params), NEW extra \in BOOLEAN,
             NEW args \in Arguments(Fns[f], n),
             NEW self \in (IF Fns[f].kind = "method" THEN Objects(Fns[f].scope) ELSE {NullObject}),
             NEW result \in Results(Fns[f]), Invoke(f, n, args, self, result, extra)
      PROVE  Inv'
  BY <1>4, InvokeInv
<1>5. ASSUME NEW f \in DOMAIN WrapperStore, NEW n \in Fns[f].min..Len(Fns[f].params), NEW extra \in BOOLEAN,
             NEW args \in Arguments(Fns[f], n), Fns[f].kind = "ctor",
             NEW arena \in {Null} \cup RawBlocks(Fns[f].scope, 1), InvokeCtor(f, n, args, arena, extra)
      PROVE  Inv'
  BY <1>5, InvokeCtorInv
<1>6. ASSUME NEW f \in DOMAIN Fns, Fns[f].kind = "ctor", NEW n \in 1..MaxCount,
             NEW arena \in {Null} \cup RawBlocks(Fns[f].scope, n), Construct(f, arena, n)
      PROVE  Inv'
  BY <1>6, ConstructInv
<1>7. ASSUME NEW b \in Blocks, NEW w \in BOOLEAN, NEW n \in 0..MaxCount, DestructAsDocumented(b, w, n) PROVE Inv'
  BY <1>7, DestructInv
<1>8. ASSUME UNCHANGED vars PROVE Inv'
  BY <1>8 DEF vars, Inv, StoresOK, WrappersOK, HeapOK
<1>. QED
  BY <1>1, <1>2, <1>3, <1>4, <1>5, <1>6, <1>7, <1>8 DEF Next

\* The invariant holds in every behaviour.
LEMMA SpecInv == Spec => []Inv
<1>1. Init => Inv
  BY InvInit
<1>. QED
  BY <1>1, NextInv, PTL DEF Spec

\* The invariant gives the property.
LEMMA InvExact == Inv => BlocksExact
<1> SUFFICES ASSUME Inv PROVE BlocksExact
  OBVIOUS
<1>1. HeapOK /\ StoresOK
  BY DEF Inv
<1>2. ASSUME NEW b \in Blocks
      PROVE  /\ heap[b].cls \in Classes /\ heap[b].freed \in BOOLEAN
             /\ heap[b].how \in {"new", "newArray", "operatorNew"}
             /\ Len(heap[b].objs) \in 1..MaxCount
             /\ \A i \in DOMAIN heap[b].objs : heap[b].objs[i] \in ObjectStates
             /\ belief[b] \in {"raw", "made", "freed"}
             /\ heap[b].freed = (belief[b] = "freed")
             /\ {heap[b].objs[i] : i \in DOMAIN heap[b].objs}
                   \subseteq IF belief[b] = "made" THEN {"live", "moved"} ELSE {"raw", "gone"}
  <2>1. BlockOK(heap[b], belief[b])
    BY <1>1, HeapShape
  <2>2. /\ heap[b].objs \in Seq(ObjectStates) /\ DOMAIN heap[b].objs = 1..Len(heap[b].objs)
        /\ heap[b].cls \in Classes /\ heap[b].freed \in BOOLEAN
        /\ heap[b].how \in {"new", "newArray", "operatorNew"}
    BY <2>1, BlockTypes
  <2>3. /\ Len(heap[b].objs) \in 1..MaxCount /\ belief[b] \in {"raw", "made", "freed"}
        /\ heap[b].freed = (belief[b] = "freed")
        /\ \A i \in 1..Len(heap[b].objs) : heap[b].objs[i] \in Expects(belief[b])
    BY <2>1 DEF BlockOK, Notes
  <2>4. \A i \in DOMAIN heap[b].objs : heap[b].objs[i] \in ObjectStates
    BY <2>2
  <2>. QED
    BY <2>2, <2>3, <2>4 DEF Expects
<1>3. TypeOK
  <2>1. /\ instantiated \subseteq DOMAIN Fns /\ DOMAIN WrapperStore \subseteq DOMAIN Fns
        /\ DtorWrapperStore \subseteq Classes /\ AccessControl \in BOOLEAN
        /\ last.asked \in DOMAIN Fns \cup {Nothing}
    BY <1>1 DEF StoresOK, WrappersOK
  <2>2. Len(heap) <= MaxBlocks /\ Len(belief) = Len(heap)
    BY <1>1 DEF HeapOK
  <2>. QED
    BY <1>2, <2>1, <2>2 DEF TypeOK
<1>4. LifetimesExact
  BY <1>1, <1>2 DEF LifetimesExact, HeapOK
<1>. QED
  BY <1>3, <1>4 DEF BlocksExact

\* Every block is constructed, destroyed and freed the way it was made, and once,
\* by any wrappers a caller runs that follows the documentation of Construct,
\* Destruct, Allocate and Deallocate.
THEOREM CallsBlocks == Spec => []BlocksExact
BY SpecInv, InvExact, PTL

-----------------------------------------------------------------------------

\* A step moves from an object.
MovedFrom(b, i) == heap[b].objs[i] = "live" /\ heap'[b].objs[i] = "moved"

\* A construction moves only from what its clause moves from.
LEMMA ConstructionMoves ==
  ASSUME HeapOK, NEW f, NEW ran, NEW nary, NEW nargs, NEW moves, NEW arena \in {Null} \cup Blocks,
         InvokeConstructor(f, ran, nary, nargs, arena, moves),
         NEW b \in Blocks, NEW i \in DOMAIN heap[b].objs, MovedFrom(b, i)
  PROVE  <<b, i>> \in moves
<1> SUFFICES ASSUME <<b, i>> \notin moves PROVE FALSE
  OBVIOUS
<1> DEFINE moved == [c \in Blocks |->
                 [heap[c] EXCEPT !.objs = [j \in DOMAIN heap[c].objs |->
                    IF <<c, j>> \in moves THEN "moved" ELSE heap[c].objs[j]]]]
           count == constructed(Fns[f], nary)
           made == [j \in DOMAIN moved[arena].objs |-> IF j <= count THEN "live" ELSE moved[arena].objs[j]]
<1>0. /\ Blocks = 1..Len(heap) /\ Len(heap) \in Nat /\ heap[b] \in BlockRec
      /\ \A c \in Blocks : heap[c] \in BlockRec
  BY HeapShape DEF BlockOK
<1>1. \A c \in Blocks : moved[c].objs = [j \in DOMAIN heap[c].objs |->
                    IF <<c, j>> \in moves THEN "moved" ELSE heap[c].objs[j]]
  BY <1>0 DEF BlockRec
<1>2. moved[b].objs[i] = "live" /\ i \in DOMAIN moved[b].objs
  <2>1. moved[b].objs = [j \in DOMAIN heap[b].objs |->
                    IF <<b, j>> \in moves THEN "moved" ELSE heap[b].objs[j]]
    BY <1>1
  <2> HIDE DEF moved
  <2>. QED
    BY <2>1 DEF MovedFrom
<1>3. CASE ran = <<>>
  <2>1. heap' = heap
    BY <1>3 DEF InvokeConstructor
  <2>. QED
    BY <2>1 DEF MovedFrom
<1>4. CASE ran # <<>> /\ arena = Null
  <2>1. \E B : heap' = Append(moved, B)
    BY <1>4 DEF InvokeConstructor
  <2>2. moved = [c \in 1..Len(heap) |-> moved[c]]
    BY <1>0
  <2> HIDE DEF moved
  <2>3. heap'[b] = moved[b]
    <3>1. PICK B : heap' = Append(moved, B)
      BY <2>1
    <3>2. moved \in Seq({moved[c] : c \in 1..Len(heap)}) /\ Len(moved) = Len(heap)
      BY <1>0, <2>2
    <3>. QED
      BY <1>0, <3>1, <3>2
  <2>. QED
    BY <1>2, <2>3 DEF MovedFrom
<1>5. CASE ran # <<>> /\ arena # Null
  <2>1. heap' = [moved EXCEPT ![arena].objs = made]
    BY <1>5, Zenon DEF InvokeConstructor
  <2>2. moved[b] \in [cls : Classes, how : {"new", "newArray", "operatorNew"}, objs : {moved[b].objs}, freed : BOOLEAN]
    BY <1>0 DEF BlockRec
  <2>3. DOMAIN moved = Blocks
    OBVIOUS
  <2>4. CASE b # arena
    <3>1. heap'[b] = moved[b]
      <4> HIDE DEF moved, made
      <4>. QED
        BY <2>1, <2>3, <2>4
    <3>. QED
      BY <1>2, <3>1 DEF MovedFrom
  <2>5. CASE b = arena
    <3>1. heap'[b] = [moved[b] EXCEPT !.objs = made]
      <4> HIDE DEF moved, made
      <4>. QED
        BY <2>1, <2>3, <2>5
    <3>2. made[i] = "live"
      <4>1. i \in DOMAIN moved[arena].objs /\ moved[arena].objs[i] = "live"
        BY <1>2, <2>5
      <4> HIDE DEF moved
      <4>. QED
        BY <4>1
    <3> HIDE DEF moved, made
    <3>3. heap'[b].objs = made
      BY <2>2, <3>1
    <3>. QED
      BY <3>2, <3>3 DEF MovedFrom
  <2>. QED
    BY <2>4, <2>5
<1>. QED
  BY <1>3, <1>4, <1>5

\* What ArgumentsIntact allows.
Allowed(b, F, n) == \/ heap[b].cls = "M"
                    \/ ByRvalue(F, n)
                    \/ F.kind = "method" /\ F.refq = "&&"

\* What may be moved from is what ArgumentsIntact allows.
LEMMA MovableAllowed ==
  ASSUME NEW F, NEW n, NEW moves, Movable(F, n, moves), NEW b, NEW i, <<b, i>> \in moves
  PROVE  Allowed(b, F, n)
<1>1. CASE <<b, i>> \in Objects("M")
  BY <1>1, ObjectThere DEF Allowed
<1>2. CASE <<b, i>> \notin Objects("M")
  BY <1>2 DEF Movable, Allowed
<1>. QED
  BY <1>1, <1>2

\* ArgumentsIntact as a property of one step.
Intact ==
  \A b \in Blocks : \A i \in DOMAIN heap[b].objs :
       heap[b].objs[i] = "live" /\ heap'[b].objs[i] = "moved"
         => LET F == Fns[last'.asked]
            IN  \/ heap[b].cls = "M"
                \/ "T&&" \in {F.params[k] : k \in 1..last'.nargs}
                \/ F.kind = "method" /\ F.refq = "&&"

\* A step that moves only from what is allowed is Intact.
LEMMA AllowedIntact ==
  ASSUME NEW F, NEW n, Fns[last'.asked] = F, last'.nargs = n,
         \A b \in Blocks : \A i \in DOMAIN heap[b].objs : MovedFrom(b, i) => Allowed(b, F, n)
  PROVE  Intact
BY DEF Intact, MovedFrom, Allowed, ByRvalue

\* So is a step that moves from nothing.
LEMMA NoMoveIntact ==
  ASSUME \A b \in Blocks : \A i \in DOMAIN heap[b].objs : ~MovedFrom(b, i)
  PROVE  Intact
BY DEF Intact, MovedFrom

\* A function moves from nothing but the arguments it takes that way.
LEMMA InvokeIntact ==
  ASSUME Inv, NEW f \in DOMAIN WrapperStore, NEW n \in Fns[f].min..Len(Fns[f].params), NEW extra \in BOOLEAN,
         NEW args \in Arguments(Fns[f], n),
         NEW self \in (IF Fns[f].kind = "method" THEN Objects(Fns[f].scope) ELSE {NullObject}),
         NEW result \in Results(Fns[f]),
         Invoke(f, n, args, self, result, extra)
  PROVE  Intact
<1> DEFINE F == Fns[f]
           ran == WrapperStore[f][n]
           moves == IF ran = <<>> THEN {} ELSE MustMove(F, ran[1].binds, args)
                 \cup (IF extra THEN MayMove(F, ran[1].binds, args)
                                       \cup (IF ran[1].rvalueObject THEN {self} ELSE {}) ELSE {})
<1>1. /\ Fns = Program /\ f \in DOMAIN Program /\ HeapOK
      /\ ClauseOK(F, n, ran) /\ n \in Nat
  BY ProgramAssumption DEF Inv, StoresOK, WrappersOK
<1>2. Movable(F, n, moves)
  <2>1. moves \subseteq MustMove(F, ran[1].binds, args) \cup MayMove(F, ran[1].binds, args)
                          \cup (IF ran[1].rvalueObject THEN {self} ELSE {})
    OBVIOUS
  <2>2. F.kind = "method" => self \in Objects(F.scope)
    BY <1>1
  <2> HIDE DEF F, ran, moves
  <2>. QED
    BY <1>1, <2>1, <2>2, CallMoves DEF F
<1>3. /\ heap' = [b \in Blocks |-> [heap[b] EXCEPT !.objs = [i \in DOMAIN heap[b].objs |->
                    IF <<b, i>> \in moves THEN "moved"
                    ELSE IF b = result /\ ran # <<>> THEN "live" ELSE heap[b].objs[i]]]]
      /\ last'.asked = f /\ last'.nargs = n
  BY DEF Invoke
<1> HIDE DEF F, ran, moves
<1>4. ASSUME NEW b \in Blocks, NEW i \in DOMAIN heap[b].objs, MovedFrom(b, i) PROVE Allowed(b, F, n)
  <2> DEFINE objs == [k \in DOMAIN heap[b].objs |->
                    IF <<b, k>> \in moves THEN "moved"
                    ELSE IF b = result /\ ran # <<>> THEN "live" ELSE heap[b].objs[k]]
  <2>1. heap[b] \in BlockRec
    BY <1>1, HeapShape DEF BlockOK
  <2>2. heap'[b] = [heap[b] EXCEPT !.objs = objs]
    BY <1>3
  <2>3. heap'[b].objs = objs
    <3> HIDE DEF objs
    <3>. QED
      BY <2>1, <2>2 DEF BlockRec
  <2>4. <<b, i>> \in moves
    BY <1>4, <2>3 DEF MovedFrom
  <2>. QED
    BY <1>2, <2>4, MovableAllowed
<1>5. Fns[last'.asked] = F
  BY <1>3 DEF F
<1>. QED
  BY <1>3, <1>4, <1>5, AllowedIntact

\* So does a constructor.
LEMMA InvokeCtorIntact ==
  ASSUME Inv, NEW f \in DOMAIN WrapperStore, Fns[f].kind = "ctor",
         NEW n \in Fns[f].min..Len(Fns[f].params), NEW extra \in BOOLEAN,
         NEW args \in Arguments(Fns[f], n), NEW arena \in {Null} \cup RawBlocks(Fns[f].scope, 1),
         InvokeCtor(f, n, args, arena, extra)
  PROVE  Intact
<1>1. PICK moves : Movable(Fns[f], n, moves) /\ last'.moves = moves
  BY InvokeCtorInv
<1>2. \E ran, m : InvokeConstructor(f, ran, 1, n, arena, m)
  BY DEF InvokeCtor
<1>3. PICK ran, m : InvokeConstructor(f, ran, 1, n, arena, m)
  BY <1>2
<1>4. m = moves /\ last'.asked = f /\ last'.nargs = n
  BY <1>1, <1>3 DEF InvokeConstructor
<1>5. arena \in {Null} \cup Blocks /\ HeapOK
  BY DEF RawBlocks, Inv
<1>6. ASSUME NEW b \in Blocks, NEW i \in DOMAIN heap[b].objs, MovedFrom(b, i) PROVE Allowed(b, Fns[f], n)
  <2>1. <<b, i>> \in moves
    BY <1>3, <1>4, <1>5, <1>6, ConstructionMoves
  <2>. QED
    BY <1>1, <2>1, MovableAllowed
<1>. QED
  BY <1>4, <1>6, AllowedIntact

\* A default constructor has nothing to move from.
LEMMA ConstructIntact ==
  ASSUME Inv, NEW f \in DOMAIN Fns, NEW n \in 1..MaxCount, NEW arena \in {Null} \cup RawBlocks(Fns[f].scope, n),
         Construct(f, arena, n)
  PROVE  Intact
<1>1. arena \in {Null} \cup Blocks /\ HeapOK
  BY DEF RawBlocks, Inv
<1>2. CASE UNCHANGED heap
  BY <1>2 DEF Intact
<1>3. CASE ~UNCHANGED heap
  <2>1. \E ran : InvokeConstructor(f, ran, n, 0, arena, {})
    BY <1>3 DEF Construct
  <2>2. PICK ran : InvokeConstructor(f, ran, n, 0, arena, {})
    BY <2>1
  <2>3. ASSUME NEW b \in Blocks, NEW i \in DOMAIN heap[b].objs, MovedFrom(b, i) PROVE FALSE
    <3>1. <<b, i>> \in {}
      BY <1>1, <2>2, <2>3, ConstructionMoves
    <3>. QED
      BY <3>1
  <2>. QED
    BY <2>3, NoMoveIntact
<1>. QED
  BY <1>2, <1>3

\* Memory given or taken back moves nothing, and a destructor ends objects.
LEMMA MemoryIntact ==
  ASSUME Inv,
         \/ \E C \in Classes, n \in 1..MaxCount : Allocate(C, n)
         \/ \E b \in Blocks : Deallocate(b)
         \/ \E b \in Blocks, w \in BOOLEAN, n \in 0..MaxCount : DestructAsDocumented(b, w, n)
  PROVE  Intact
<1>0. Blocks = 1..Len(heap) /\ Len(heap) \in Nat /\ DOMAIN heap = Blocks
      /\ heap \in Seq(BlockRec) /\ \A b \in Blocks : heap[b] \in BlockRec
  BY HeapShape DEF Inv, BlockOK, HeapOK
<1>1. ASSUME NEW C \in Classes, NEW n \in 1..MaxCount, Allocate(C, n) PROVE Intact
  <2>1. \E B : heap' = Append(heap, B)
    BY <1>1 DEF Allocate
  <2>2. \A b \in Blocks : heap'[b] = heap[b]
    BY <1>0, <2>1
  <2>. QED
    BY <2>2 DEF Intact
<1>2. ASSUME NEW b \in Blocks, Deallocate(b) PROVE Intact
  <2>1. heap' = [heap EXCEPT ![b].freed = TRUE]
    BY <1>2 DEF Deallocate
  <2>2. \A c \in Blocks : heap'[c].objs = heap[c].objs
    BY <1>0, <2>1 DEF BlockRec
  <2>. QED
    BY <2>2 DEF Intact
<1>3. ASSUME NEW b \in Blocks, NEW w \in BOOLEAN, NEW n \in 0..MaxCount, DestructAsDocumented(b, w, n) PROVE Intact
  <2> DEFINE objs == IF w THEN DOMAIN heap[b].objs ELSE destroyed(n)
             A == [cls |-> heap[b].cls, how |-> heap[b].how, freed |-> w,
                   objs |-> [i \in DOMAIN heap[b].objs |-> IF i \in objs THEN "gone" ELSE heap[b].objs[i]]]
  <2>1. heap' = [heap EXCEPT ![b] = A]
    BY <1>3 DEF DestructAsDocumented, Destruct
  <2>2. \A i \in DOMAIN heap[b].objs : A.objs[i] \in {"gone", heap[b].objs[i]}
    <3> HIDE DEF objs
    <3>. QED
      OBVIOUS
  <2> HIDE DEF A, objs
  <2>3. \A c \in Blocks : \A i \in DOMAIN heap[c].objs : heap'[c].objs[i] \in {"gone", heap[c].objs[i]}
    BY <1>0, <2>1, <2>2
  <2>. QED
    BY <2>3 DEF Intact
<1>. QED
  BY <1>1, <1>2, <1>3

\* Every step moves only from what the function that was called takes.
LEMMA StepIntact == Inv /\ [Next]_vars => [Intact]_vars
<1> SUFFICES ASSUME Inv, Next PROVE Intact
  OBVIOUS
<1>1. ASSUME NEW f \in DOMAIN Fns, NEW s \in BOOLEAN, MakeFunctionCallable(f, s) PROVE Intact
  <2>1. heap' = heap
    BY <1>1 DEF MakeFunctionCallable
  <2>. QED
    BY <2>1 DEF Intact
<1>2. ASSUME \/ \E C \in Classes, n \in 1..MaxCount : Allocate(C, n)
             \/ \E b \in Blocks : Deallocate(b)
             \/ \E b \in Blocks, w \in BOOLEAN, n \in 0..MaxCount : DestructAsDocumented(b, w, n)
      PROVE  Intact
  BY <1>2, MemoryIntact
<1>4. ASSUME NEW f \in DOMAIN WrapperStore, NEW n \in Fns[f].min..Len(Fns[f].params), NEW extra \in BOOLEAN,
             NEW args \in Arguments(Fns[f], n),
             NEW self \in (IF Fns[f].kind = "method" THEN Objects(Fns[f].scope) ELSE {NullObject}),
             NEW result \in Results(Fns[f]), Invoke(f, n, args, self, result, extra)
      PROVE  Intact
  BY <1>4, InvokeIntact
<1>5. ASSUME NEW f \in DOMAIN WrapperStore, NEW n \in Fns[f].min..Len(Fns[f].params), NEW extra \in BOOLEAN,
             NEW args \in Arguments(Fns[f], n), Fns[f].kind = "ctor",
             NEW arena \in {Null} \cup RawBlocks(Fns[f].scope, 1), InvokeCtor(f, n, args, arena, extra)
      PROVE  Intact
  BY <1>5, InvokeCtorIntact
<1>6. ASSUME NEW f \in DOMAIN Fns, Fns[f].kind = "ctor", NEW n \in 1..MaxCount,
             NEW arena \in {Null} \cup RawBlocks(Fns[f].scope, n), Construct(f, arena, n)
      PROVE  Intact
  BY <1>6, ConstructIntact
<1>. QED
  BY <1>1, <1>2, <1>4, <1>5, <1>6 DEF Next

\* No call moves from an argument its function takes by value or by lvalue
\* reference, the choice make_narg_call makes for each argument.
THEOREM CallsArguments == Spec => ArgumentsIntact
<1>1. Inv /\ [Next]_vars => [Intact]_vars
  BY StepIntact
<1>2. Spec => []Inv
  BY SpecInv
<1>. QED
  BY <1>1, <1>2, PTL DEF Spec, ArgumentsIntact, Intact

-----------------------------------------------------------------------------

\* A name leads to one function: two entries of the table differ, and an
\* instantiation can be named with its template arguments.  Without the second,
\* a wrapper of an instantiation with several packs, or of an operator, names it
\* like a function that is no template, and overload resolution prefers that.
NamesLead ==
  /\ \A f, g \in DOMAIN Program : Program[f] = Program[g] => f = g
  /\ \A f \in DOMAIN Program : Program[f].instantiation => ExplicitName(Program[f])

\* An argument bound for a parameter's type is accepted by that parameter.
LEMMA OwnArgument ==
  ASSUME NEW T, NEW arg, arg.type = T, arg.bind = Bind(T)
  PROVE  Accepts(T, arg)
<1>1. T = "T&&" => Bind(T) = "move"
  BY DEF Bind, collect_type_info
<1>2. T = "T&" => Bind(T) # "move"
  BY DEF Bind, collect_type_info
<1>3. T = "moveOnly" => Bind(T) = "move"
  BY DEF Bind, collect_type_info, IsCopyConstructorDeleted
<1>. QED
  BY <1>1, <1>2, <1>3 DEF Accepts

\* Overload resolution that is not ambiguous leads back to the function the
\* arguments were bound for.
LEMMA ReachedSelf ==
  ASSUME NamesLead, Fns = Program, NEW f \in DOMAIN Program, NEW F, F = Program[f],
         NEW n \in F.min..Len(F.params), Reached(F, n) # "ambiguous"
  PROVE  Reached(F, n) = f
<1>1. CASE ShouldCastFunction(F, n)
  <2>1. Reached(F, n) = CHOOSE g \in DOMAIN Fns : Fns[g] = F
    BY <1>1 DEF Reached
  <2>2. \E g \in DOMAIN Fns : Fns[g] = F
    OBVIOUS
  <2>3. Reached(F, n) \in DOMAIN Program /\ Program[Reached(F, n)] = F
    BY <2>1, <2>2
  <2>. QED
    BY <2>3 DEF NamesLead
<1>2. CASE ~ShouldCastFunction(F, n)
  <2> DEFINE all   == Candidates(F, n)
             plain == {g \in all : ~Fns[g].instantiation}
             best  == IF plain = {} THEN all ELSE plain
  <2>1. Reached(F, n) = IF Cardinality(best) = 1 THEN CHOOSE g \in best : TRUE ELSE "ambiguous"
    BY <1>2 DEF Reached
  <2>2. f \in all
    <3>1. \A i \in 1..n : Accepts(F.params[i], [type |-> F.params[i], bind |-> Bind(F.params[i])])
      BY OwnArgument
    <3>2. ExplicitName(F) => F.instantiation
      BY DEF ExplicitName
    <3>. QED
      BY <3>1, <3>2 DEF Candidates
  <2>3. f \in best
    <3>1. CASE F.instantiation
      <4>1. ExplicitName(F)
        BY <3>1 DEF NamesLead
      <4>2. \A g \in all : Fns[g].instantiation
        BY <4>1 DEF Candidates
      <4>. QED
        BY <2>2, <4>2
    <3>2. CASE ~F.instantiation
      BY <2>2, <3>2
    <3>. QED
      BY <3>1, <3>2
  <2>4. IsFiniteSet(best)
    <3>1. best \subseteq DOMAIN Program
      BY DEF Candidates
    <3>. QED
      BY <3>1, FS_Subset, ProgramAssumption
  <2> HIDE DEF best
  <2>5. Cardinality(best) = 1
    BY <2>1
  <2>6. \E x : best = {x}
    BY <2>4, <2>5, FS_Singleton
  <2>7. best = {f}
    BY <2>3, <2>6
  <2>. QED
    BY <2>1, <2>5, <2>7
<1>. QED
  BY <1>1, <1>2

\* A wrapper's clauses for some number of arguments run the function f, once.
Runs(f, ran) == ran = <<ran[1]>> /\ ran[1].reach = f

\* A wrapper may call a function from outside.
Reachable(F) == F.access = "public" \/ F.shadow \/ isDefaultConstructor(F)

\* Every stored wrapper was compiled with access checked or for a function
\* that may be called, and runs its own function.
StoredExact ==
  /\ AccessControl = TRUE
  /\ \A f \in DOMAIN WrapperStore :
       /\ Reachable(Program[f])
       /\ \A n \in Program[f].min..Len(Program[f].params) : Runs(f, WrapperStore[f][n])

\* The invariant of CallsExact.
ExactInv == StoredExact /\ CallsTheFunction

\* The clause of a wrapper that compiles reaches its function.
LEMMA ClauseRuns ==
  ASSUME NamesLead, Fns = Program, NEW f \in DOMAIN Program, NEW F, F = Program[f],
         NEW n \in F.min..Len(F.params), \A N \in ClauseArgs(F) : Clauses(F)[N].reach # "ambiguous"
  PROVE  Runs(f, ClauseFor(F, n))
<1>1. F.params \in Seq(Types) /\ F.min \in 0..Len(F.params)
  BY ProgramAssumption
<1>2. ClauseFor(F, n) = <<Clause(F, n)>> /\ Clauses(F)[n] = Clause(F, n) /\ n \in ClauseArgs(F)
  BY <1>1, ClauseForIs
<1>3. Clause(F, n).reach = Reached(F, n)
  BY DEF Clause, make_narg_ctor, make_narg_call
<1>4. Clause(F, n).reach = f
  BY <1>2, <1>3, ReachedSelf
<1>. QED
  BY <1>2, <1>4 DEF Runs

\* A wrapper is stored only when it compiles, and the option is restored.
LEMMA WrapperExact ==
  ASSUME NamesLead, StoresOK, StoredExact, NEW f \in DOMAIN Program, NEW s \in BOOLEAN,
         s => Program[f].shadow, make_wrapper(f, s)
  PROVE  StoredExact'
<1> DEFINE F == Program[f]
           clauses == [n \in F.min..Len(F.params) |-> ClauseFor(F, n)]
<1>1. Fns = Program
  BY DEF StoresOK
<1>2. CASE UNCHANGED <<instantiated, WrapperStore, AccessControl>>
  BY <1>2 DEF StoredExact
<1>3. CASE ~ UNCHANGED <<instantiated, WrapperStore, AccessControl>>
  <2>1. /\ WrapperStore' = IF Compiles(F, withAccessControl(F, s)) THEN Stored(f, clauses) ELSE WrapperStore
        /\ AccessControl' = AccessControl
    BY <1>1, <1>3 DEF make_wrapper, compileFunction
  <2>2. CASE ~Compiles(F, withAccessControl(F, s))
    BY <2>1, <2>2 DEF StoredExact
  <2>3. CASE Compiles(F, withAccessControl(F, s))
    <3>1. Reachable(F)
      BY <2>3 DEF Compiles, withAccessControl, Reachable
    <3>2. \A N \in ClauseArgs(F) : Clauses(F)[N].reach # "ambiguous"
      BY <2>3 DEF Compiles
    <3>3. \A n \in F.min..Len(F.params) : Runs(f, clauses[n])
      <4> SUFFICES ASSUME NEW n \in F.min..Len(F.params) PROVE Runs(f, ClauseFor(F, n))
        OBVIOUS
      <4> HIDE DEF F
      <4>1. F = Program[f]
        BY DEF F
      <4>. QED
        BY <1>1, <3>2, <4>1, ClauseRuns
    <3>4. WrapperStore' = Stored(f, clauses)
      BY <2>1, <2>3
    <3> HIDE DEF clauses
    <3>. QED
      BY <2>1, <3>1, <3>3, <3>4 DEF StoredExact, Stored
  <2>. QED
    BY <2>2, <2>3
<1>. QED
  BY <1>2, <1>3

\* What a call reports is what the wrapper's clause reaches.
LEMMA ReportExact ==
  ASSUME NEW f, NEW ran, Runs(f, ran), last'.asked = f,
         last'.ran = [k \in DOMAIN ran |-> ran[k].reach]
  PROVE  CallsTheFunction'
<1>1. ran = <<ran[1]>> /\ ran[1].reach = f
  BY DEF Runs
<1>2. DOMAIN ran = 1..1
  BY <1>1
<1>3. [k \in DOMAIN ran |-> ran[k].reach] = [k \in 1..1 |-> f]
  BY <1>1, <1>2
<1>4. [k \in 1..1 |-> f] = <<f>>
  OBVIOUS
<1>. QED
  BY <1>3, <1>4 DEF CallsTheFunction

\* Every step keeps it.
LEMMA NextExact == NamesLead /\ Inv /\ ExactInv /\ [Next]_vars => ExactInv'
<1> SUFFICES ASSUME NamesLead, Inv, ExactInv, [Next]_vars PROVE ExactInv'
  OBVIOUS
<1>0. Fns = Program /\ StoresOK /\ StoredExact /\ DOMAIN WrapperStore \subseteq DOMAIN Program
  BY DEF Inv, StoresOK, ExactInv, WrappersOK
<1>1. ASSUME UNCHANGED <<WrapperStore, AccessControl>>, last' = NoCall \/ last' = last PROVE ExactInv'
  BY <1>1 DEF ExactInv, StoredExact, CallsTheFunction, NoCall
<1>2. ASSUME NEW f \in DOMAIN Fns, NEW s \in BOOLEAN, s => Fns[f].shadow, MakeFunctionCallable(f, s) PROVE ExactInv'
  <2>1. last' = NoCall
    BY <1>2 DEF MakeFunctionCallable
  <2>2. CASE Fns[f].kind = "dtor"
    <3>1. UNCHANGED <<WrapperStore, AccessControl>>
      BY <1>2, <2>2 DEF MakeFunctionCallable, make_dtor_wrapper, compileFunction
    <3>. QED
      BY <1>1, <2>1, <3>1
  <2>3. CASE Fns[f].kind # "dtor"
    <3>1. make_wrapper(f, s)
      BY <1>2, <2>3 DEF MakeFunctionCallable
    <3>2. StoredExact'
      BY <1>0, <1>2, <3>1, WrapperExact
    <3>. QED
      BY <2>1, <3>2 DEF ExactInv, CallsTheFunction, NoCall
  <2>. QED
    BY <2>2, <2>3
<1>3. ASSUME \/ \E C \in Classes, n \in 1..MaxCount : Allocate(C, n)
             \/ \E b \in Blocks : Deallocate(b)
             \/ \E b \in Blocks, w \in BOOLEAN, n \in 0..MaxCount : DestructAsDocumented(b, w, n)
      PROVE  ExactInv'
  <2>1. UNCHANGED <<WrapperStore, AccessControl>> /\ last' = NoCall
    BY <1>3 DEF Allocate, Deallocate, DestructAsDocumented, Destruct, make_dtor_wrapper, compileFunction
  <2>. QED
    BY <1>1, <2>1
<1>4. ASSUME NEW f \in DOMAIN WrapperStore, NEW n \in Fns[f].min..Len(Fns[f].params),
             UNCHANGED <<WrapperStore, AccessControl>>, last'.asked = f,
             last'.ran = [k \in DOMAIN WrapperStore[f][n] |-> WrapperStore[f][n][k].reach]
      PROVE  ExactInv'
  <2>1. Runs(f, WrapperStore[f][n])
    BY <1>0, <1>4 DEF StoredExact
  <2>2. CallsTheFunction'
    BY <1>4, <2>1, ReportExact
  <2>. QED
    BY <1>0, <1>4, <2>2 DEF ExactInv, StoredExact
<1>5. ASSUME NEW f \in DOMAIN WrapperStore, NEW n \in Fns[f].min..Len(Fns[f].params), NEW extra, NEW args,
             NEW self, NEW result, Invoke(f, n, args, self, result, extra)
      PROVE  ExactInv'
  BY <1>4, <1>5 DEF Invoke
<1>6. ASSUME NEW f \in DOMAIN WrapperStore, NEW n \in Fns[f].min..Len(Fns[f].params), NEW extra, NEW args,
             NEW arena, InvokeCtor(f, n, args, arena, extra)
      PROVE  ExactInv'
  <2>1. UNCHANGED <<WrapperStore, AccessControl>>
    BY <1>6 DEF InvokeCtor
  <2>2. \E m : InvokeConstructor(f, WrapperStore[f][n], 1, n, arena, m)
    BY <1>6 DEF InvokeCtor
  <2>3. last'.asked = f /\ last'.ran = [k \in DOMAIN WrapperStore[f][n] |-> WrapperStore[f][n][k].reach]
    BY <2>2 DEF InvokeConstructor
  <2>. QED
    BY <1>4, <2>1, <2>3
<1>7. ASSUME NEW f \in DOMAIN Fns, NEW n, NEW arena, Construct(f, arena, n) PROVE ExactInv'
  <2>1. make_wrapper(f, FALSE) /\ AreArgumentsValid(Fns[f], Variable, 0, NullObject, n)
    BY <1>7 DEF Construct
  <2>2. StoredExact'
    BY <1>0, <2>1, WrapperExact
  <2>3. CASE f \notin DOMAIN WrapperStore'
    <3>1. last' = NoCall
      BY <1>7, <2>3 DEF Construct
    <3>. QED
      BY <2>2, <3>1 DEF ExactInv, CallsTheFunction, NoCall
  <2>4. CASE f \in DOMAIN WrapperStore'
    <3> DEFINE ran == WrapperStore'[f][0]
    <3>1. InvokeConstructor(f, ran, n, 0, arena, {})
      BY <1>7, <2>4 DEF Construct
    <3>2. 0 \in Program[f].min..Len(Program[f].params)
      <4>1. Program[f].params \in Seq(Types) /\ Program[f].min \in 0..Len(Program[f].params) /\ Program[f].min <= 0
        BY <1>0, <2>1, ProgramAssumption DEF AreArgumentsValid
      <4>. QED
        BY <4>1
    <3>3. Runs(f, ran)
      BY <2>2, <2>4, <3>2 DEF StoredExact
    <3> HIDE DEF ran
    <3>4. last'.asked = f /\ last'.ran = [k \in DOMAIN ran |-> ran[k].reach]
      BY <3>1 DEF InvokeConstructor
    <3>. QED
      BY <2>2, <3>3, <3>4, ReportExact DEF ExactInv
  <2>. QED
    BY <2>3, <2>4
<1>8. CASE UNCHANGED vars
  BY <1>1, <1>8 DEF vars
<1>. QED
  BY <1>2, <1>3, <1>5, <1>6, <1>7, <1>8 DEF Next

\* A call runs the function the wrapper was made for, once, and no function
\* that may not be called: MakeFunctionCallable, get_wrapper_code and
\* compileFunction, in every program whose names lead to one function.
THEOREM CallsReachTheirFunctions == ASSUME NamesLead PROVE Spec => []CallsExact
<1>1. Init => ExactInv
  BY DEF Init, ExactInv, StoredExact, CallsTheFunction, NoCall
<1>2. NamesLead
  OBVIOUS
<1>3. Inv /\ ExactInv /\ [Next]_vars => ExactInv'
  BY <1>2, NextExact
<1>4. Inv /\ ExactInv => CallsExact
  BY DEF Inv, StoresOK, ExactInv, StoredExact, CallsExact, AccessChecked, OnlyReachableCalled, Reachable
<1>. QED
  BY <1>1, <1>3, <1>4, SpecInv, PTL DEF Spec
=============================================================================
