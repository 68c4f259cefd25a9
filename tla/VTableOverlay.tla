---------------------------- MODULE VTableOverlay ----------------------------
(***************************************************************************)
(* Runtime vtable overlays: MakeVTableOverlay copies the vtable of one     *)
(* live object into a block it owns, replaces some slots, optionally hooks *)
(* the deleting destructor, and points the object at the copy;             *)
(* DestroyVTableOverlay points it back and frees the block.  The object    *)
(* itself is destroyed by its own code, from any thread, and its deleting  *)
(* destructor dispatches through whatever table the object points at.      *)
(*                                                                         *)
(* The layout is the Itanium one.  A block, as allocated, is               *)
(*                                                                         *)
(*    [ n extra slots ] [ self ] [ offset-to-top, type_info ] [ methods ]  *)
(*                                                             ^ vptr      *)
(*                                                                         *)
(* so a word is named by its distance from the address point: methods are  *)
(* 0, 1, 2, ... (0 and 1 the complete and the deleting destructor), the    *)
(* ABI prefix is -1 and -2, the hidden self-pointer is -3, the extra slots *)
(* are -4, -5, ...                                                         *)
(***************************************************************************)
EXTENDS Integers, Sequences, SequencesExt, FiniteSetsExt

CONSTANTS
    Objects,    \* the objects clients overlay
    Overlays,   \* the overlay handles, each used once
    ClassOf,    \* the class of an object
    MethodSlots,\* the slots of the methods clients pass; -1: not virtual
    Fns,        \* the replacement functions
    MaxExtra,   \* bound on n_extra_prefix_slots
    Restack,    \* clients overlay an object whose destructor is hooked
    AnyOrder    \* clients destroy the overlays of an object in any order

(* What reflection says of a class: whether it is polymorphic, how many    *)
(* virtual bases and polymorphic direct bases it has, and how many slots   *)
(* its vtable has from the address point on.                               *)
Class == [polymorphic : BOOLEAN, vbases : Nat, polybases : Nat, slots : Nat]

ASSUME ClassAssumption == ClassOf \in [Objects -> Class]

ASSUME ParameterAssumption ==
    /\ MethodSlots \subseteq Int
    /\ Fns \subseteq Nat
    /\ MaxExtra \in Nat
    /\ Restack \in BOOLEAN
    /\ AnyOrder \in BOOLEAN

VARIABLES
    vptr,   \* the table an object points at: its class's, or an overlay's
    life,   \* how far the destruction of an object is
    ov,     \* the overlays
    snap,   \* the destructor the running Wrapper of an object will call
    fault,  \* the first memory error, if any
    layers, \* history: the installs in force on an object, oldest first
    stash,  \* history: what the client stored in an overlay's extra slots
    owed,   \* history: the overlays hooked when their object was deleted
    calls   \* history: how often an overlay's callback has run

vars == <<vptr, life, ov, snap, fault, layers, stash, owed, calls>>

-----------------------------------------------------------------------------
(* Words of a table: a word of the class's own table, a replacement, the   *)
(* self-pointer of an overlay, the hook, client data, nothing.             *)
ClassWord(k) == <<"class", k>>
FnWord(f) == <<"fn", f>>
SelfWord(i) == <<"self", i>>
DataWord(d) == <<"data", d>>
Wrapper == <<"wrapper", 0>>
Null == <<"null", 0>>

kABIPrefixSize == 2
kVTableOverlayPrefixSize == kABIPrefixSize + 1
kMinVTableMethodSlots == 2
kDeletingDtorSlot == 1

HiddenSlot == -kVTableOverlayPrefixSize

(* The word VTableOverlayExtraSlot names for the k-th extra slot.          *)
VTableOverlayExtraSlot(k) == -(kVTableOverlayPrefixSize + 1 + k)

(* The class's own vtable, as the address an object starts out with.       *)
ClassVTable == "class"

(* Clang resolves no slot for a destructor passed as a method: GlobalDecl   *)
(* asserts that it is none.                                                *)
ASSUME SlotAssumption ==
    /\ ClassVTable \notin Overlays
    /\ kDeletingDtorSlot \notin MethodSlots

(* The callbacks counted: one too many is enough to be seen.               *)
MaxCalls == 2

NoOverlay == [state |-> "unused"]

(* The table a vptr addresses, and the word a dispatch through the object  *)
(* loads: the table of the class has no words before the ABI prefix.       *)
Word(o, k) ==
    IF vptr[o] = ClassVTable THEN ClassWord(k) ELSE ov[vptr[o]].block[k]

Readable(o) ==
    vptr[o] = ClassVTable \/ ov[vptr[o]].state \notin {"unused", "freed"}

\* A faulty test that accepts multiple inheritance.
hasComplexVTableLayoutVirtualOnly(c) == c.vbases > 0

(* Layouts a single rewritten vptr cannot express.                         *)
hasComplexVTableLayout(c) == c.vbases > 0 \/ c.polybases > 1

SlotInRange(c, s) == s >= 0 /\ s < c.slots

(* The early returns of MakeVTableOverlay and applyVTableOverlay: every    *)
(* request they refuse leaves the object alone.                            *)
Accepts(c, fns) ==
    /\ c.polymorphic
    /\ ~hasComplexVTableLayout(c)
    /\ c.slots >= kMinVTableMethodSlots
    /\ \A s \in DOMAIN fns : SlotInRange(c, s)

(* The copied block with the replaced slots: the ABI prefix and the        *)
(* methods come from the table the object points at now.  A replacement    *)
(* outside the allocated words would write past the block.                 *)
CopiedBlock(o, i, fns, n) ==
    [k \in (HiddenSlot - n .. ClassOf[o].slots - 1) \cup DOMAIN fns |->
        IF k = HiddenSlot THEN SelfWord(i)
        ELSE IF k \in DOMAIN fns THEN FnWord(fns[k])
        ELSE IF k < HiddenSlot THEN Null
        ELSE Word(o, k)]

(* Where overlay i lies on its object.                                     *)
Layer(o, i) == CHOOSE k \in DOMAIN layers[o] : layers[o][k].overlay = i

Hooked(i) == ov[i].state = "installed" /\ ov[i].cleanup

-----------------------------------------------------------------------------
Init ==
    /\ vptr = [o \in Objects |-> ClassVTable]
    /\ life = [o \in Objects |-> "alive"]
    /\ ov = [i \in Overlays |-> NoOverlay]
    /\ snap = [o \in Objects |-> Null]
    /\ fault = "none"
    /\ layers = [o \in Objects |-> <<>>]
    /\ stash = [i \in Overlays |-> <<>>]
    /\ owed = {}
    /\ calls = [i \in Overlays |-> 0]

(* A client installs a copy whose slots in DOMAIN fns are replaced.  With  *)
(* a hook, the destructor slot is still the copied one: the hook is wired  *)
(* by the next two steps, and the object can be deleted meanwhile.         *)
MakeVTableOverlay(o, i, fns, n, hook) ==
    /\ ov[i].state = "unused"
    /\ life[o] = "alive"
    /\ Accepts(ClassOf[o], fns)
    /\ Restack \/ \A j \in ToSet(layers[o]) : ~ov[j.overlay].hook
    /\ ov' = [ov EXCEPT ![i] =
                [state |-> IF hook THEN "published" ELSE "installed",
                 block |-> CopiedBlock(o, i, fns, n),
                 original_vptr |-> vptr[o],
                 inst |-> o,
                 n_extra |-> n,
                 hook |-> hook,
                 dtor_fired |-> FALSE,
                 orig_dtor |-> Null,
                 cleanup |-> FALSE]]
    /\ vptr' = [vptr EXCEPT ![o] = i]
    /\ layers' = [layers EXCEPT ![o] = Append(@, [overlay |-> i, fns |-> fns])]
    /\ stash' = [stash EXCEPT ![i] = [k \in 0 .. n - 1 |-> Null]]
    /\ UNCHANGED <<life, snap, fault, owed, calls>>

\* A faulty order: the slot is patched before it is captured.
WireHookAfterPublish(i) ==
    /\ ov[i].state = "published"
    /\ ov' = [ov EXCEPT ![i].state = "wired",
                        ![i].orig_dtor = Wrapper,
                        ![i].cleanup = TRUE]
    /\ UNCHANGED <<vptr, life, snap, fault, layers, stash, owed, calls>>

\* A faulty step that forgets to capture the destructor.
WireHookNoCapture(i) ==
    /\ ov[i].state = "published"
    /\ ov' = [ov EXCEPT ![i].state = "wired", ![i].cleanup = TRUE]
    /\ UNCHANGED <<vptr, life, snap, fault, layers, stash, owed, calls>>

(* MakeVTableOverlay captures the deleting destructor and sets the hook's  *)
(* fields ...                                                              *)
WireHook(i) ==
    /\ ov[i].state = "published"
    /\ ov' = [ov EXCEPT ![i].state = "wired",
                        ![i].orig_dtor = ov[i].block[kDeletingDtorSlot],
                        ![i].cleanup = TRUE]
    /\ UNCHANGED <<vptr, life, snap, fault, layers, stash, owed, calls>>

(* ... and only then makes the hook reachable.                             *)
PublishHook(i) ==
    /\ ov[i].state = "wired"
    /\ ov' = [ov EXCEPT ![i].state = "installed",
                        ![i].block[kDeletingDtorSlot] = Wrapper]
    /\ UNCHANGED <<vptr, life, snap, fault, layers, stash, owed, calls>>

(* A client stores per-instance data through VTableOverlayExtraSlot.       *)
StoreExtra(o, k, d) ==
    /\ life[o] = "alive"
    /\ vptr[o] # ClassVTable
    /\ LET i == vptr[o] IN
        /\ ov[i].state = "installed"
        /\ k < ov[i].n_extra
        /\ ov' = [ov EXCEPT ![i].block[VTableOverlayExtraSlot(k)] = DataWord(d)]
        /\ stash' = [stash EXCEPT ![i][k] = DataWord(d)]
    /\ UNCHANGED <<vptr, life, snap, fault, layers, owed, calls>>

(* `delete obj' dispatches through the deleting-destructor slot.           *)
Delete(o) ==
    /\ life[o] = "alive"
    /\ IF Readable(o)
       THEN /\ life' = [life EXCEPT ![o] =
                          IF Word(o, kDeletingDtorSlot) = Wrapper
                          THEN "wrapper" ELSE "destructor"]
            /\ owed' = owed \cup {i \in Overlays : /\ Hooked(i)
                                                   /\ ov[i].inst = o}
            /\ UNCHANGED fault
       ELSE fault' = "use_after_free" /\ UNCHANGED <<life, owed>>
    /\ UNCHANGED <<vptr, ov, snap, layers, stash, calls>>

(* An object that is not on the heap is destroyed by a direct call of its  *)
(* complete destructor: nothing is dispatched.                             *)
DestroyInPlace(o) ==
    /\ life[o] = "alive"
    /\ life' = [life EXCEPT ![o] = "destructor"]
    /\ UNCHANGED <<vptr, ov, snap, fault, layers, stash, owed, calls>>

(* The hook finds its overlay in the hidden slot, remembers the original   *)
(* destructor, marks the overlay and calls the client's callback.          *)
EnterWrapper(o) ==
    /\ life[o] = "wrapper"
    /\ IF Readable(o)
       THEN LET i == Word(o, HiddenSlot)[2] IN
            /\ snap' = [snap EXCEPT ![o] = ov[i].orig_dtor]
            /\ ov' = [ov EXCEPT ![i].dtor_fired = TRUE]
            /\ calls' = [calls EXCEPT ![i] =
                            IF ov[i].cleanup THEN Min({@ + 1, MaxCalls}) ELSE @]
            /\ life' = [life EXCEPT ![o] = "callback"]
            /\ UNCHANGED fault
       ELSE fault' = "use_after_free" /\ UNCHANGED <<snap, ov, calls, life>>
    /\ UNCHANGED <<vptr, layers, stash, owed>>

(* The callback has returned and the hook calls the remembered destructor. *)
LeaveCallback(o) ==
    /\ life[o] = "callback"
    /\ IF snap[o] = Null
       THEN fault' = "null_call" /\ UNCHANGED life
       ELSE /\ life' = [life EXCEPT ![o] = IF snap[o] = Wrapper
                                           THEN "wrapper" ELSE "destructor"]
            /\ UNCHANGED fault
    /\ UNCHANGED <<vptr, ov, snap, layers, stash, owed, calls>>

(* The class's own destructor points the object at its class's table and   *)
(* ends its life.                                                          *)
RunDestructor(o) ==
    /\ life[o] = "destructor"
    /\ life' = [life EXCEPT ![o] = "gone"]
    /\ vptr' = [vptr EXCEPT ![o] = ClassVTable]
    /\ UNCHANGED <<ov, snap, fault, layers, stash, owed, calls>>

\* A faulty destructor that ignores dtor_fired.
RestoresVPtrAlways(i) == TRUE

(* ~VTableOverlay writes the original vptr back unless the hook has fired. *)
RestoresVPtr(i) == ~ov[i].dtor_fired

(* A client gives an overlay up while its object is alive, or at any time  *)
(* once the hook has told it that the object is going: from the callback   *)
(* itself, or after the object is gone.                                    *)
DestroyVTableOverlay(i) ==
    /\ ov[i].state = "installed"
    /\ LET o == ov[i].inst IN
        /\ life[o] = "alive" \/ ov[i].dtor_fired
        /\ AnyOrder \/ ov[i].dtor_fired \/ Last(layers[o]).overlay = i
        /\ IF RestoresVPtr(i)
           THEN /\ vptr' = [vptr EXCEPT ![o] = ov[i].original_vptr]
                /\ fault' = IF life[o] = "gone" THEN "write_after_free" ELSE fault
           ELSE UNCHANGED <<vptr, fault>>
        /\ layers' = [layers EXCEPT ![o] = RemoveAt(@, Layer(o, i))]
    /\ ov' = [ov EXCEPT ![i].state = "freed", ![i].block = <<>>]
    /\ UNCHANGED <<life, snap, stash, owed, calls>>

(* The replacements of a request.                                          *)
Requests == UNION {[S -> Fns] : S \in SUBSET MethodSlots}

Next ==
    /\ fault = "none"
    /\ \/ \E o \in Objects, i \in Overlays, fns \in Requests,
             n \in 0 .. MaxExtra, hook \in BOOLEAN :
            MakeVTableOverlay(o, i, fns, n, hook)
       \/ \E i \in Overlays : WireHook(i)
       \/ \E i \in Overlays : PublishHook(i)
       \/ \E o \in Objects, k \in 0 .. MaxExtra - 1, d \in Fns :
            StoreExtra(o, k, d)
       \/ \E o \in Objects : Delete(o)
       \/ \E o \in Objects : DestroyInPlace(o)
       \/ \E o \in Objects : EnterWrapper(o)
       \/ \E o \in Objects : LeaveCallback(o)
       \/ \E o \in Objects : RunDestructor(o)
       \/ \E i \in Overlays : DestroyVTableOverlay(i)

Spec == Init /\ [][Next]_vars

(* A destruction that has begun is one thread's straight-line code, whose  *)
(* callback returns.                                                       *)
Destruction(o) == EnterWrapper(o) \/ LeaveCallback(o) \/ RunDestructor(o)

FairSpec == Spec /\ \A o \in Objects : WF_vars(fault = "none" /\ Destruction(o))

-----------------------------------------------------------------------------
(* Every variable has its type; a block has exactly the words it was       *)
(* allocated with, whatever was copied, replaced or stored into it: no     *)
(* write of MakeVTableOverlay or VTableOverlayExtraSlot is out of bounds.  *)
TypeOK ==
    /\ vptr \in [Objects -> Overlays \cup {ClassVTable}]
    /\ life \in [Objects ->
                {"alive", "wrapper", "callback", "destructor", "gone"}]
    /\ fault \in {"none", "use_after_free", "write_after_free", "null_call"}
    /\ owed \subseteq Overlays
    /\ calls \in [Overlays -> 0 .. MaxCalls]
    /\ \A i \in Overlays :
        /\ ov[i].state \in {"unused", "published", "wired", "installed", "freed"}
        /\ ov[i].state \in {"published", "wired", "installed"} =>
            DOMAIN ov[i].block =
                HiddenSlot - ov[i].n_extra .. ClassOf[ov[i].inst].slots - 1

(* The words through which a call on an object can be dispatched: the      *)
(* vptr the overlay rewrites, and in a class with several vptrs the others.*)
Dispatched(o, s) ==
    {Word(o, s)} \cup
        {ClassWord(t) : t \in IF ClassOf[o].vbases > 0 \/ ClassOf[o].polybases > 1
                              THEN {s} ELSE {}}

(* What a call of slot s of o runs, from the installs in force alone: the  *)
(* newest replacement of the slot, the hook if a hook is in force, and     *)
(* otherwise the function of the class.                                    *)
Expected(o, s) ==
    LET replaced == {k \in DOMAIN layers[o] : s \in DOMAIN layers[o][k].fns}
        hooked == \E k \in DOMAIN layers[o] : Hooked(layers[o][k].overlay)
    IN  IF replaced # {} THEN FnWord(layers[o][Max(replaced)].fns[s])
        ELSE IF s = kDeletingDtorSlot /\ hooked THEN Wrapper
        ELSE ClassWord(s)

(* However overlays are stacked, hooked and torn down, a call on a live    *)
(* object runs exactly what the installs in force say: replaced slots run  *)
(* the newest replacement, every other slot and every object without an    *)
(* overlay run the class's own function, and undoing an install undoes all *)
(* of it (MakeVTableOverlay, ~VTableOverlay).                              *)
DispatchExact ==
    \A o \in Objects :
        life[o] = "alive" =>
            /\ Readable(o)
            /\ \A s \in 0 .. ClassOf[o].slots - 1 :
                    Dispatched(o, s) = {Expected(o, s)}

(* The words before the methods survive everything: the ABI prefix is the  *)
(* class's, the hidden slot leads the hook to its own overlay, and an      *)
(* extra slot holds what the client last stored there.                     *)
PrefixIntact ==
    \A i \in Overlays :
        ov[i].state \in {"published", "wired", "installed"} =>
            /\ \A k \in -kABIPrefixSize .. -1 : ov[i].block[k] = ClassWord(k)
            /\ ov[i].block[HiddenSlot] = SelfWord(i)
            /\ \A k \in 0 .. ov[i].n_extra - 1 :
                    ov[i].block[VTableOverlayExtraSlot(k)] = stash[i][k]

(* No step reads a freed block, writes the vptr of an object that is gone, *)
(* or calls a destructor that was never captured, including when the       *)
(* callback destroys its own overlay and when the object is deleted while  *)
(* its hook is being wired.                                                *)
MemorySafe == fault = "none"

\* The blocks of the overlays: nothing is written outside one or read after it
\* was freed, and what lies in front of the address point - the ABI prefix,
\* the extra slots, the self-pointer - stays as it was stored.
TablesSafe == TypeOK /\ PrefixIntact /\ MemorySafe

(* The hook hands over to the destructor of the class: the one captured is *)
(* neither missing nor the hook itself, whatever the callback did to the   *)
(* overlay (Wrapper's snapshot of orig_dtor).                              *)
HookReachesDestructor ==
    \A o \in Objects :
        life[o] = "callback" => snap[o] = ClassWord(kDeletingDtorSlot)

(* A callback runs once for an overlay whose hook was in place when its    *)
(* object was deleted, before the object is gone, and never for any other  *)
(* overlay: not after a teardown, not for an object destroyed in place.    *)
CleanupExact ==
    \A i \in Overlays :
        /\ i \notin owed => calls[i] = 0
        /\ i \in owed /\ life[ov[i].inst] # "wrapper" => calls[i] = 1

\* The destructor hook: the deletion of the object runs the callback of each
\* hooked overlay exactly once and then the destructor of the class, also
\* when it comes while the hook is being wired (MakeVTableOverlay).
HooksExact == HookReachesDestructor /\ CleanupExact

(* A destruction that has begun ends: the hook neither loops nor strands   *)
(* the destructor of the class.                                            *)
DeletionCompletes ==
    \A o \in Objects : life[o] = "wrapper" ~> life[o] = "gone"

(* An object all of whose overlays were destroyed points at the table of   *)
(* its class again (DestroyVTableOverlay restores the original vptr).      *)
TeardownRestores ==
    \A o \in Objects :
        life[o] = "alive" /\ layers[o] = <<>> => vptr[o] = ClassVTable

(* The callback is invoked once the destructor of the object has run.      *)
CallbackAfterDestructor ==
    [][\A i \in Overlays : calls'[i] # calls[i] => life[ov[i].inst] = "gone"]_vars
=============================================================================
