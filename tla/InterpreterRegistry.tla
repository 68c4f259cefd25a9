------------------------- MODULE InterpreterRegistry -------------------------
(***************************************************************************)
(* The interpreter registry of CppInterOp.cpp: the process-wide            *)
(* std::deque<InterpreterInfo> behind CreateInterpreter,                   *)
(* UseExternalInterpreter, ActivateInterpreter, DeleteInterpreter and the  *)
(* per-slot state reached through getInterpInfo().                         *)
(*                                                                         *)
(* The deque is modelled at the level of its slots.  A slot has an address *)
(* (an integer in first..last-1); emplace_back, pop_back and pop_front     *)
(* leave the other addresses alone, std::rotate and erase move elements    *)
(* between slots with InterpreterInfo's move operations, and those move    *)
(* only Interpreter, isOwned, ArgvStorage and OdrUseCounter.  The caches   *)
(* and the pending diagnostics stay with the slot, and so does the address *)
(* each interpreter's diagnostic consumer was given when it was installed. *)
(***************************************************************************)
EXTENDS Integers, Sequences

CONSTANTS Owned,          \* interpreters CreateInterpreter can return
          External,       \* interpreters a client owns
          NULL,           \* the null interpreter pointer
          ShutdownDrains, \* TRUE: built against LLVM 23+, exit runs llvm_shutdown
          Busy,           \* bound: the interpreters that fill caches and emit
          MaxSlots,       \* bound on the slot addresses used
          MaxAnchors      \* bound on the odr-use anchors of an interpreter

Interps == Owned \cup External

ASSUME OwnershipAssumption == Owned \cap External = {} /\ NULL \notin Interps
ASSUME BoundsAssumption    == MaxSlots \in Nat /\ MaxAnchors \in Nat
                              /\ Busy \subseteq Interps
ASSUME BuildAssumption     == ShutdownDrains \in BOOLEAN

VARIABLES first, last,   \* the deque occupies addresses first..last-1
          slots,         \* the InterpreterInfo at each occupied address
          freed,         \* interpreters whose destructor has run
          doubleDelete,  \* an interpreter was deleted a second time
          known,         \* interpreters whose pointer a client has seen
          consumers,     \* slot addresses held by an interpreter's consumers
          anchors,       \* odr-use anchor names emitted into an interpreter
          SkipShutDown,  \* the client owns LLVM
          exited,        \* the process ran its static destructors
          shuffled       \* history: elements moved, or left, not at the top

vars == <<first, last, slots, freed, doubleDelete, known, consumers, anchors,
          SkipShutDown, exited, shuffled>>

Slots == first..(last - 1)

InterpreterInfo ==
  [Interpreter   : Interps \cup {NULL},
   isOwned       : BOOLEAN,
   OdrUseCounter : Nat,
   BuiltinMap    : Interps \cup {NULL}, \* whose AST the cached types are from
   WrapperStore  : SUBSET Interps,      \* whose AST nodes are keys
   StoredDiags   : SUBSET Interps]      \* who emitted the pending diagnostics

TypeOK ==
  /\ first \in Nat /\ last \in Nat /\ first <= last
  /\ slots \in [Slots -> InterpreterInfo]
  /\ freed \subseteq Interps /\ known \subseteq Interps
  /\ doubleDelete \in BOOLEAN
  /\ consumers \in [Interps -> SUBSET Nat]
  /\ anchors \in [Interps -> Seq(Nat)]
  /\ SkipShutDown \in BOOLEAN /\ exited \in BOOLEAN /\ shuffled \in BOOLEAN

Init ==
  /\ first = 0 /\ last = 0
  /\ slots = [a \in 0..(-1) |-> NULL]
  /\ freed = {} /\ known = {} /\ doubleDelete = FALSE
  /\ consumers = [i \in Interps |-> {}]
  /\ anchors = [i \in Interps |-> <<>>]
  /\ SkipShutDown = FALSE /\ exited = FALSE /\ shuffled = FALSE

-----------------------------------------------------------------------------
(* InterpreterInfo: construction, moves, destruction. *)

NewInfo(i, owned) ==
  [Interpreter |-> i, isOwned |-> owned, OdrUseCounter |-> 0,
   BuiltinMap |-> NULL, WrapperStore |-> {}, StoredDiags |-> {}]

\* Faulty variant: the move constructor forgets to disarm its source.
MovedFromStillArmed(info) == info

\* What a slot is left with when its content is moved out of it.
MovedFrom(info) == [info EXCEPT !.Interpreter = NULL, !.isOwned = FALSE]

\* Faulty variant: a move that leaves the counter behind with the slot.
MovedIntoWithoutCounter(dst, src) ==
  [dst EXCEPT !.Interpreter = src.Interpreter, !.isOwned = src.isOwned]

\* The destination of a move: the four moved fields, on top of its own caches.
MovedInto(dst, src) ==
  [dst EXCEPT !.Interpreter   = src.Interpreter,
              !.isOwned       = src.isOwned,
              !.OdrUseCounter = src.OdrUseCounter]

\* `if (isOwned) delete Interpreter`, for each InterpreterInfo in the range of
\* the function f: by ~InterpreterInfo or by a move assignment that overwrites it.
Deleting(f) == {a \in DOMAIN f : f[a].isOwned /\ f[a].Interpreter # NULL}

Release(f) ==
  /\ freed' = freed \cup {f[a].Interpreter : a \in Deleting(f)}
  /\ doubleDelete' =
       \/ doubleDelete
       \/ \E a \in Deleting(f) :
            \/ f[a].Interpreter \in freed
            \/ \E b \in Deleting(f) \ {a} : f[a].Interpreter = f[b].Interpreter

\* std::find_if over the deque.
Registered(i) == \E a \in Slots : slots[a].Interpreter = i
Find(i) == CHOOSE a \in Slots :
             /\ slots[a].Interpreter = i
             /\ \A b \in Slots : slots[b].Interpreter = i => a <= b

\* Faulty variant: the argument is ignored and the active entry returned.
getActiveInfo(i) == last - 1

\* getInterpInfo: a pointer the registry does not hold means the active one.
getInterpInfo(i) == IF Registered(i) THEN Find(i) ELSE last - 1

Active == slots[last - 1].Interpreter

\* An interpreter a client can hand to the library without touching freed memory.
Usable(i) == i \in (known \ freed) \cap Busy

-----------------------------------------------------------------------------
(* The operations. *)

\* emplace_back; the consumer is chained in front of the ones already there
\* and keeps the address of the new slot.
RegisterInterpreter(i, owned) ==
  /\ ~exited /\ last < MaxSlots
  /\ last' = last + 1
  /\ slots' = [a \in first..last |->
                 IF a = last THEN NewInfo(i, owned) ELSE slots[a]]
  /\ consumers' = [consumers EXCEPT ![i] = @ \cup {last}]
  /\ known' = known \cup {i}
  /\ UNCHANGED <<first, freed, doubleDelete, anchors, exited>>

\* A failed creation returns nullptr before anything is registered.
CreateInterpreter(i) ==
  /\ i \in Owned \ known
  /\ RegisterInterpreter(i, TRUE)
  /\ UNCHANGED <<SkipShutDown, shuffled>>

UseExternalInterpreter(i) ==
  /\ i \in External
  /\ first = last
  /\ RegisterInterpreter(i, FALSE)
  /\ SkipShutDown' = TRUE
  /\ UNCHANGED shuffled

\* Faulty variant: the interpreter trades places with the active one.
ActivateBySwap(i) ==
  /\ Registered(i)
  /\ LET p == Find(i)
         e == last - 1
     IN  slots' = [slots EXCEPT ![p] = MovedInto(slots[p], slots[e]),
                                ![e] = MovedInto(slots[e], slots[p])]
  /\ UNCHANGED <<first, last, freed, doubleDelete, known, consumers, anchors,
                 SkipShutDown, exited, shuffled>>

\* std::rotate(found, found + 1, end): swaps of neighbours, each one a move
\* construction and two move assignments over moved-from slots.
ActivateInterpreter(i) ==
  /\ Registered(i)
  /\ LET p == Find(i)
         e == last - 1
     IN  /\ slots' = [a \in Slots |->
                        IF a < p THEN slots[a]
                        ELSE MovedInto(slots[a],
                                       IF a = e THEN slots[p] ELSE slots[a + 1])]
         /\ Release([a \in (IF p = e THEN {} ELSE p..e) |-> MovedFrom(slots[a])])
         /\ shuffled' = (shuffled \/ p # e)
  /\ UNCHANGED <<first, last, known, consumers, anchors, SkipShutDown, exited>>

\* pop_back, and erase of the last element.
PopBack ==
  /\ last' = last - 1
  /\ slots' = [a \in first..(last - 2) |-> slots[a]]
  /\ Release([a \in {last - 1} |-> slots[a]])
  /\ first' = first

\* std::deque::erase(p) moves the shorter side over the erased slot and
\* destroys the vacated end slot, which by then is moved-from.
EraseForward(p) ==
  /\ first' = first + 1
  /\ slots' = [a \in (first + 1)..(last - 1) |->
                 IF a <= p THEN MovedInto(slots[a], slots[a - 1]) ELSE slots[a]]
  /\ Release([a \in first..p |->
                IF a = p THEN slots[a] ELSE MovedFrom(slots[a])])
  /\ last' = last

EraseBackward(p) ==
  /\ last' = last - 1
  /\ slots' = [a \in first..(last - 2) |->
                 IF a < p THEN slots[a] ELSE MovedInto(slots[a], slots[a + 1])]
  /\ Release([a \in p..(last - 1) |->
                IF a = p THEN slots[a] ELSE MovedFrom(slots[a])])
  /\ first' = first

Erase(p) == IF p - first < (last - first) \div 2
            THEN EraseForward(p) ELSE EraseBackward(p)

\* Faulty variant: the early return on an empty registry is missing.
DeleteLastUnguarded ==
  /\ last' = last - 1 /\ first' = first
  /\ slots' = [a \in first..(last - 2) |-> slots[a]]
  /\ UNCHANGED <<freed, doubleDelete, known, consumers, anchors, SkipShutDown,
                 exited, shuffled>>

DeleteLast ==
  /\ first < last
  /\ PopBack
  /\ shuffled' = (shuffled \/ ~slots[last - 1].isOwned)
  /\ UNCHANGED <<known, consumers, anchors, SkipShutDown, exited>>

DeleteInterpreter(i) ==
  /\ Registered(i)
  /\ Erase(Find(i))
  /\ shuffled' = \/ shuffled
                 \/ Find(i) # last - 1
                 \/ ~slots[Find(i)].isOwned
  /\ UNCHANGED <<known, consumers, anchors, SkipShutDown, exited>>

\* Static destruction: ~InterpreterShutdown drains the ManagedStatic deque
\* unless the client owns LLVM; on older LLVM the deque is leaked.
ProcessExit ==
  /\ ~exited /\ exited' = TRUE
  /\ first' = last /\ last' = last
  /\ slots' = [a \in last..(last - 1) |-> NULL]
  /\ IF ShutdownDrains /\ ~SkipShutDown
     THEN Release(slots)
     ELSE UNCHANGED <<freed, doubleDelete>>
  /\ UNCHANGED <<known, consumers, anchors, SkipShutDown, shuffled>>

-----------------------------------------------------------------------------
(* What the interpreters do to the slots. *)

\* A slot's content changes, and nothing else does.
Update(a, info) ==
  /\ slots' = [slots EXCEPT ![a] = info]
  /\ UNCHANGED <<first, last, freed, doubleDelete, known, consumers,
                 SkipShutDown, exited, shuffled>>

\* HandleDiagnostic: every chained consumer stores the diagnostic through the
\* slot address it holds.  A write to an address outside the deque corrupts
\* memory that is no part of this state.
HandleDiagnostic(i) ==
  /\ ~exited /\ Usable(i)
  /\ slots' = [a \in Slots |->
                 IF a \in consumers[i]
                 THEN [slots[a] EXCEPT !.StoredDiags = @ \cup {i}]
                 ELSE slots[a]]
  /\ UNCHANGED <<first, last, freed, doubleDelete, known, consumers, anchors,
                 SkipShutDown, exited, shuffled>>

\* ClearPending and DrainPendingInto: the pending diagnostics of i leave the slot.
DrainPending(i) ==
  /\ first < last /\ Usable(i)
  /\ LET a == getInterpInfo(i)
     IN  Update(a, [slots[a] EXCEPT !.StoredDiags = {}])
  /\ UNCHANGED anchors

\* make_wrapper and make_dtor_wrapper: the wrapper of a function of i's AST is
\* looked up in i's slot and compiled and stored there when it is missing.
MakeFunctionCallable(i) ==
  /\ first < last /\ Usable(i)
  /\ LET a == getInterpInfo(i)
     IN  Update(a, [slots[a] EXCEPT !.WrapperStore = @ \cup {i}])
  /\ UNCHANGED anchors

\* findBuiltinType: the map of the active slot is filled on first use.
FindBuiltinType ==
  /\ first < last /\ Active \in Busy
  /\ slots[last - 1].BuiltinMap = NULL
  /\ Update(last - 1, [slots[last - 1] EXCEPT !.BuiltinMap = Active])
  /\ UNCHANGED anchors

\* EmitVariableViaOdrUse on the active interpreter: the counter names the
\* anchor; the anchor's declaration may still turn out invalid.
EmitVariableViaOdrUse(declared) ==
  /\ first < last /\ Active \in Busy
  /\ Len(anchors[Active]) < MaxAnchors
  /\ LET a == getInterpInfo(Active)
         n == slots[a].OdrUseCounter
     IN  /\ n < MaxAnchors
         /\ Update(a, [slots[a] EXCEPT !.OdrUseCounter = n + 1])
         /\ anchors' = IF declared
                       THEN [anchors EXCEPT ![Active] = Append(@, n)]
                       ELSE anchors

-----------------------------------------------------------------------------
Next ==
  \/ \E i \in Interps :
       \/ CreateInterpreter(i)
       \/ UseExternalInterpreter(i)
       \/ ActivateInterpreter(i)
       \/ DeleteInterpreter(i)
       \/ HandleDiagnostic(i)
       \/ DrainPending(i)
       \/ MakeFunctionCallable(i)
  \/ DeleteLast
  \/ FindBuiltinType
  \/ \E declared \in BOOLEAN : EmitVariableViaOdrUse(declared)
  \/ ProcessExit
  \/ exited /\ UNCHANGED vars

Spec == Init /\ [][Next]_vars

-----------------------------------------------------------------------------
(* Properties. *)

\* Each interpreter the library created is deleted exactly once, when its
\* entry goes: no entry refers to a deleted interpreter or shares one, none is
\* dropped without being deleted, and a client's interpreter is never deleted.
\* Moving entries between slots (rotate, erase) is where this could break.
OwnershipExact ==
  /\ ~doubleDelete
  /\ freed \cap External = {}
  /\ \A a \in Slots :
       /\ slots[a].Interpreter \in Interps \ freed
       /\ slots[a].isOwned <=> slots[a].Interpreter \in Owned
       /\ \A b \in Slots : slots[a].Interpreter = slots[b].Interpreter => a = b
  /\ ~exited => \A i \in Owned \cap known : i \in freed \/ Registered(i)

\* The odr-use anchors of an interpreter the library created have distinct
\* names: the counter travels with the interpreter when its entry moves.
OdrAnchorsDistinct ==
  \A i \in Owned : \A j, k \in 1..Len(anchors[i]) :
    anchors[i][j] = anchors[i][k] => j = k

\* Pending diagnostics are read from the entry of the interpreter that emitted
\* them (ErrorInternal.cpp:233 "into the owning interpreter's StoredDiags").
DiagnosticsReachOwner ==
  \A a \in Slots : slots[a].StoredDiags \subseteq {slots[a].Interpreter}

\* A wrapper cache holds no key of a deleted interpreter's AST
\* (InterpreterInfo.h:40 "the caches must be destroyed together with it").
CachesDieWithInterpreter ==
  \A a \in Slots : slots[a].WrapperStore \cap freed = {}

\* A client that only pushes and pops (it never activates an older
\* interpreter, deletes under the top, or drops an external one) finds in every
\* slot only what belongs to the interpreter registered there, and every
\* interpreter's consumer writes to that interpreter's slot.
StackDisciplineKeepsSlots ==
  ~shuffled => \A a \in Slots :
    LET i == slots[a].Interpreter
    IN  /\ slots[a].StoredDiags \subseteq {i}
        /\ slots[a].WrapperStore \subseteq {i}
        /\ slots[a].BuiltinMap \in {NULL, i}
        /\ consumers[i] = {a}

\* The slot-level registry behaves as the stack of InterpreterStack.tla.
Stack == INSTANCE InterpreterStack WITH
           members <- {slots[a].Interpreter : a \in Slots},
           below   <- {<<slots[p[1]].Interpreter, slots[p[2]].Interpreter>> :
                         p \in {q \in Slots \X Slots : q[1] < q[2]}}

\* Activation, deletion and creation never reorder, lose or free anything the
\* stack of interpreters does not: refinement of Stack!StackSpec.
RefinesStack == Stack!StackSpec
=============================================================================
