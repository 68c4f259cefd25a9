------------------------- MODULE VTableOverlayProofs -------------------------
(***************************************************************************)
(* Proofs about virtual table overlays, for any objects, classes, methods  *)
(* and replacements, of clients that do not stack on a hooked overlay and  *)
(* destroy the overlays of an object newest first.                         *)
(*                                                                         *)
(* What the overlays of an object are is read off the installs in force,   *)
(* the stack `layers': each overlay's original table is the one below it,  *)
(* only the newest may carry a hook, and a word of a block is the newest   *)
(* replacement at or below its layer.  The object points at the top of the *)
(* stack as long as anything dispatches through it.                        *)
(***************************************************************************)
EXTENDS VTableOverlay, SequenceTheorems, WellFoundedInduction, TLAPS

-----------------------------------------------------------------------------
(* The invariant *)

\* The fields of an overlay.
Fields == {"state", "block", "original_vptr", "inst", "n_extra", "hook",
           "dtor_fired", "orig_dtor", "cleanup"}

\* An overlay is live from its publication to its removal.
LiveStates == {"published", "wired", "installed"}

\* The stages of an object's life.
Lives == {"alive", "wrapper", "callback", "destructor", "gone"}

\* A live overlay in force.
Install == [overlay : Overlays, fns : Requests]

\* The fields of an overlay that was made: how far its hook is wired, and
\* that the hook fires only where it is in place.
MadeOK(r) ==
    /\ r = [x \in Fields |-> r[x]]
    /\ r.state \in LiveStates \cup {"freed"}
    /\ r.original_vptr \in Overlays \cup {ClassVTable}
    /\ r.inst \in Objects /\ r.n_extra \in Nat
    /\ r.hook \in BOOLEAN /\ r.dtor_fired \in BOOLEAN /\ r.cleanup \in BOOLEAN
    /\ r.state = "published" => r.hook /\ ~r.cleanup
    /\ r.state = "wired" => r.hook /\ r.cleanup
    /\ r.state = "installed" => (r.cleanup <=> r.hook)
    /\ r.cleanup => r.orig_dtor = ClassWord(kDeletingDtorSlot)
    /\ r.dtor_fired => r.cleanup

\* What lies in front of the address point of a block, and its extent.
BlockOK(r, i, st) ==
    /\ DOMAIN r.block = HiddenSlot - r.n_extra .. ClassOf[r.inst].slots - 1
    /\ \A k \in -kABIPrefixSize .. -1 : r.block[k] = ClassWord(k)
    /\ r.block[HiddenSlot] = SelfWord(i)
    /\ DOMAIN st = 0 .. r.n_extra - 1
    /\ \A k \in 0 .. r.n_extra - 1 : r.block[VTableOverlayExtraSlot(k)] = st[k]

\* An overlay is unused, or was made and its block is intact while it lives.
OvOK(i) ==
    \/ ov[i] = NoOverlay
    \/ /\ MadeOK(ov[i])
       /\ ov[i].state \in LiveStates => BlockOK(ov[i], i, stash[i])
       /\ ov[i].dtor_fired => life[ov[i].inst] \in {"callback", "destructor", "gone"}

\* Word s of the block of the k-th of the installs ls.
WordOK(ls, k, block, hooked, s) ==
    /\ \A m \in 1 .. k :
         (s \in DOMAIN ls[m].fns /\ \A q \in m + 1 .. k : s \notin DOMAIN ls[q].fns)
            => block[s] = FnWord(ls[m].fns[s])
    /\ (\A m \in 1 .. k : s \notin DOMAIN ls[m].fns)
         => block[s] = IF s = kDeletingDtorSlot /\ hooked THEN Wrapper ELSE ClassWord(s)

\* Overlay r of object o is the k-th of the installs ls.
LayerOK(o, ls, k, r) ==
    /\ r # NoOverlay /\ r.state \in LiveStates
    /\ r.inst = o
    /\ Accepts(ClassOf[o], ls[k].fns)
    /\ r.original_vptr = IF k = 1 THEN ClassVTable ELSE ls[k - 1].overlay
    /\ k < Len(ls) => ~r.hook
    /\ \A s \in 0 .. ClassOf[o].slots - 1 :
         WordOK(ls, k, r.block, r.state = "installed" /\ r.cleanup, s)

\* The installs of an object lie on one another, each once.
LayersOK(o) ==
    /\ \A k \in 1 .. Len(layers[o]) : LayerOK(o, layers[o], k, ov[layers[o][k].overlay])
    /\ \A k, m \in 1 .. Len(layers[o]) : layers[o][k].overlay = layers[o][m].overlay => k = m

\* Every overlay that was not given up is an install in force.
Covered(i) ==
    ov[i].state \in LiveStates =>
        \E k \in 1 .. Len(layers[ov[i].inst]) : layers[ov[i].inst][k].overlay = i

\* The table on top of the installs.
TopOf(ls) == IF Len(ls) = 0 THEN ClassVTable ELSE ls[Len(ls)].overlay

\* An object's vptr and its stage of life go together.
LifeOK(o) ==
    /\ life[o] \in {"alive", "wrapper"} => vptr[o] = TopOf(layers[o])
    /\ life[o] = "wrapper" => Len(layers[o]) # 0 /\ TopOf(layers[o]) \in owed
    /\ life[o] = "callback" => snap[o] = ClassWord(kDeletingDtorSlot)

\* A callback that is owed has not run before its time.
OwedOK(i) ==
    /\ i \notin owed => calls[i] = 0
    /\ i \in owed => /\ ov[i] # NoOverlay /\ life[ov[i].inst] # "alive"
                     /\ life[ov[i].inst] = "wrapper" => /\ calls[i] = 0 /\ Hooked(i)
                                                        /\ i = TopOf(layers[ov[i].inst])
                     /\ life[ov[i].inst] # "wrapper" => calls[i] = 1

\* The types, as far as the proof needs them.
Shapes ==
    /\ vptr \in [Objects -> Overlays \cup {ClassVTable}]
    /\ life \in [Objects -> Lives]
    /\ DOMAIN ov = Overlays /\ ov = [i \in Overlays |-> ov[i]]
    /\ snap = [o \in Objects |-> snap[o]]
    /\ layers \in [Objects -> Seq(Install)]
    /\ stash = [i \in Overlays |-> stash[i]]
    /\ owed \subseteq Overlays
    /\ calls \in [Overlays -> 0 .. MaxCalls]
    /\ fault = "none"

\* The inductive invariant.
Inv ==
    /\ Shapes
    /\ \A i \in Overlays : OvOK(i) /\ Covered(i) /\ OwedOK(i)
    /\ \A o \in Objects : LayersOK(o) /\ LifeOK(o)

-----------------------------------------------------------------------------
(* What the invariant says of an overlay and of the installs of an object *)

\* An overlay that is used was made.
LEMMA Made ==
    ASSUME Inv, NEW i \in Overlays, ov[i].state # "unused"
    PROVE  ov[i] # NoOverlay /\ MadeOK(ov[i])
BY DEF Inv, OvOK, NoOverlay

\* The types of the installs.
LEMMA Installs ==
    ASSUME Inv, NEW o \in Objects
    PROVE  /\ Len(layers[o]) \in Nat /\ DOMAIN layers[o] = 1 .. Len(layers[o])
           /\ layers[o] \in Seq(Install)
           /\ \A k \in 1 .. Len(layers[o]) :
                /\ layers[o][k].overlay \in Overlays
                /\ DOMAIN layers[o][k].fns \in SUBSET MethodSlots
                /\ LayerOK(o, layers[o], k, ov[layers[o][k].overlay])
<1>1. layers[o] \in Seq(Install)
  BY DEF Inv, Shapes
<1>2. \A k \in 1 .. Len(layers[o]) : layers[o][k] \in Install
  BY <1>1, ElementOfSeq
<1>3. \A x \in Install : x.overlay \in Overlays /\ DOMAIN x.fns \in SUBSET MethodSlots
  BY DEF Install, Requests
<1>. QED
  BY <1>1, <1>2, <1>3, LenProperties DEF Inv, LayersOK

\* A live overlay is one of the installs of its object.
LEMMA Installed ==
    ASSUME Inv, NEW i \in Overlays, ov[i].state \in LiveStates
    PROVE  /\ MadeOK(ov[i]) /\ BlockOK(ov[i], i, stash[i]) /\ ov[i].inst \in Objects
           /\ \E k \in 1 .. Len(layers[ov[i].inst]) : layers[ov[i].inst][k].overlay = i
<1>1. MadeOK(ov[i])
  BY Made DEF LiveStates
<1>2. ov[i] # NoOverlay
  BY DEF NoOverlay, LiveStates
<1>. QED
  BY <1>1, <1>2 DEF Inv, OvOK, Covered, MadeOK

\* A hook is on top.
LEMMA HookOnTop ==
    ASSUME Inv, NEW i \in Overlays, ov[i].state \in LiveStates, ov[i].hook
    PROVE  LET ls == layers[ov[i].inst] IN
           Len(ls) \in Nat /\ Len(ls) # 0 /\ TopOf(ls) = i /\ ls[Len(ls)].overlay = i
<1>1. PICK k \in 1 .. Len(layers[ov[i].inst]) : layers[ov[i].inst][k].overlay = i
  BY Installed
<1>2. ov[i].inst \in Objects
  BY Installed
<1>3. k = Len(layers[ov[i].inst])
  BY <1>1, <1>2, Installs DEF LayerOK
<1>. QED
  BY <1>1, <1>2, <1>3, Installs DEF TopOf

\* The table an object dispatches through.
LEMMA Table ==
    ASSUME Inv, NEW o \in Objects, life[o] \in {"alive", "wrapper"}
    PROVE  /\ vptr[o] = TopOf(layers[o])
           /\ Len(layers[o]) = 0 => vptr[o] = ClassVTable
           /\ Len(layers[o]) # 0 =>
                /\ vptr[o] = layers[o][Len(layers[o])].overlay
                /\ vptr[o] \in Overlays /\ vptr[o] # ClassVTable
                /\ ov[vptr[o]].state \in LiveStates /\ ov[vptr[o]].inst = o
                /\ MadeOK(ov[vptr[o]]) /\ BlockOK(ov[vptr[o]], vptr[o], stash[vptr[o]])
<1>1. vptr[o] = TopOf(layers[o])
  BY DEF Inv, LifeOK
<1>2. ASSUME Len(layers[o]) # 0
      PROVE  /\ vptr[o] = layers[o][Len(layers[o])].overlay
             /\ vptr[o] \in Overlays /\ vptr[o] # ClassVTable
             /\ ov[vptr[o]].state \in LiveStates /\ ov[vptr[o]].inst = o
  BY <1>1, <1>2, Installs, SlotAssumption DEF TopOf, LayerOK
<1>. QED
  BY <1>1, <1>2, Installed DEF TopOf

\* What a call of the deleting destructor reaches.
LEMMA DeletingWord ==
    ASSUME Inv, NEW o \in Objects, NEW k \in 1 .. Len(layers[o])
    PROVE  LET r == ov[layers[o][k].overlay] IN
           r.block[kDeletingDtorSlot] =
             IF r.state = "installed" /\ r.cleanup THEN Wrapper ELSE ClassWord(kDeletingDtorSlot)
<1>. DEFINE r == ov[layers[o][k].overlay]
<1>1. LayerOK(o, layers[o], k, r) /\ \A m \in 1 .. k : DOMAIN layers[o][m].fns \in SUBSET MethodSlots
  BY Installs
<1>2. kDeletingDtorSlot \in 0 .. ClassOf[o].slots - 1
  BY <1>1, ClassAssumption DEF LayerOK, Accepts, kMinVTableMethodSlots, kDeletingDtorSlot, Class
<1>3. WordOK(layers[o], k, r.block, r.state = "installed" /\ r.cleanup, kDeletingDtorSlot)
  BY <1>1, <1>2 DEF LayerOK
<1>4. \A m \in 1 .. k : kDeletingDtorSlot \notin DOMAIN layers[o][m].fns
  BY <1>1, SlotAssumption
<1>. QED
  BY <1>3, <1>4 DEF WordOK

-----------------------------------------------------------------------------
(* The steps: installing and wiring *)

\* The word of a table at layer k depends on the installs up to k only.
LEMMA SameWord ==
    ASSUME NEW ls, NEW ls2, NEW k \in Nat, \A m \in 1 .. k : ls2[m] = ls[m],
           NEW block, NEW hooked, NEW s, WordOK(ls, k, block, hooked, s)
    PROVE  WordOK(ls2, k, block, hooked, s)
BY DEF WordOK

\* At the start no overlay is made.
LEMMA InvInit == Init => Inv
<1>. SUFFICES ASSUME Init PROVE Inv
  OBVIOUS
<1>1. <<>> \in Seq(Install) /\ Len(<<>>) = 0
  BY EmptySeq
<1>2. Shapes
  BY <1>1 DEF Init, Shapes, Lives, MaxCalls
<1>3. \A i \in Overlays : OvOK(i) /\ Covered(i) /\ OwedOK(i)
  BY DEF Init, OvOK, Covered, OwedOK, NoOverlay, LiveStates
<1>4. \A o \in Objects : LayersOK(o) /\ LifeOK(o)
  BY <1>1 DEF Init, LayersOK, LifeOK, TopOf
<1>. QED
  BY <1>2, <1>3, <1>4 DEF Inv

\* The overlay that MakeVTableOverlay makes.
Fresh(o, i, fns, n, hook) ==
    [state |-> IF hook THEN "published" ELSE "installed",
     block |-> CopiedBlock(o, i, fns, n),
     original_vptr |-> vptr[o],
     inst |-> o,
     n_extra |-> n,
     hook |-> hook,
     dtor_fired |-> FALSE,
     orig_dtor |-> Null,
     cleanup |-> FALSE]

\* The words of the copy: what is replaced, and what lies below.
LEMMA Copied ==
    ASSUME Inv, NEW o \in Objects, life[o] = "alive", NEW i \in Overlays, NEW fns \in Requests,
           NEW n \in 0 .. MaxExtra, Accepts(ClassOf[o], fns)
    PROVE  LET block == CopiedBlock(o, i, fns, n)
               depth == Len(layers[o])
           IN  /\ DOMAIN block = HiddenSlot - n .. ClassOf[o].slots - 1
               /\ \A k \in -kABIPrefixSize .. -1 : block[k] = ClassWord(k)
               /\ block[HiddenSlot] = SelfWord(i)
               /\ \A k \in 0 .. n - 1 : block[VTableOverlayExtraSlot(k)] = Null
               /\ \A s \in DOMAIN fns : block[s] = FnWord(fns[s])
               /\ \A s \in 0 .. ClassOf[o].slots - 1 : s \notin DOMAIN fns =>
                    block[s] = IF depth = 0 THEN ClassWord(s)
                               ELSE ov[layers[o][depth].overlay].block[s]
<1>. DEFINE block == CopiedBlock(o, i, fns, n)
            depth == Len(layers[o])
<1>1. /\ DOMAIN fns \subseteq 0 .. ClassOf[o].slots - 1
      /\ ClassOf[o].slots \in Nat /\ n \in Nat /\ MaxExtra \in Nat
  <2>1. ClassOf[o].slots \in Nat /\ MaxExtra \in Nat /\ MethodSlots \subseteq Int
    BY ClassAssumption, ParameterAssumption DEF Class
  <2>2. DOMAIN fns \subseteq MethodSlots
    BY DEF Requests
  <2>3. \A s \in DOMAIN fns : s \in Int /\ s >= 0 /\ s < ClassOf[o].slots
    BY <2>1, <2>2 DEF Accepts, SlotInRange
  <2>. QED
    BY <2>1, <2>3
<1>2. HiddenSlot = -3 /\ kABIPrefixSize = 2 /\ \A k \in Nat : VTableOverlayExtraSlot(k) = -4 - k
  BY DEF HiddenSlot, kVTableOverlayPrefixSize, kABIPrefixSize, VTableOverlayExtraSlot
<1>3. DOMAIN block = HiddenSlot - n .. ClassOf[o].slots - 1
  BY <1>1, <1>2 DEF CopiedBlock
<1>4. \A k \in DOMAIN block :
        block[k] = IF k = HiddenSlot THEN SelfWord(i)
                   ELSE IF k \in DOMAIN fns THEN FnWord(fns[k])
                   ELSE IF k < HiddenSlot THEN Null
                   ELSE Word(o, k)
  BY DEF CopiedBlock
<1>5. \A k : Word(o, k) = IF depth = 0 THEN ClassWord(k)
                          ELSE ov[layers[o][depth].overlay].block[k]
  BY Table DEF Word
<1>6. \A k \in -kABIPrefixSize .. -1 : Word(o, k) = ClassWord(k)
  BY <1>5, Table DEF BlockOK
<1>. HIDE DEF block, depth
<1>7. \A k \in -kABIPrefixSize .. -1 : block[k] = ClassWord(k)
  BY <1>1, <1>2, <1>3, <1>4, <1>6
<1>8. block[HiddenSlot] = SelfWord(i)
  BY <1>1, <1>2, <1>3, <1>4
<1>9. \A k \in 0 .. n - 1 : block[VTableOverlayExtraSlot(k)] = Null
  BY <1>1, <1>2, <1>3, <1>4
<1>10. \A s \in DOMAIN fns : block[s] = FnWord(fns[s])
  BY <1>1, <1>2, <1>3, <1>4
<1>11. \A s \in 0 .. ClassOf[o].slots - 1 : s \notin DOMAIN fns =>
         block[s] = IF depth = 0 THEN ClassWord(s) ELSE ov[layers[o][depth].overlay].block[s]
  BY <1>1, <1>2, <1>3, <1>4, <1>5
<1>. QED
  BY <1>3, <1>7, <1>8, <1>9, <1>10, <1>11 DEF block, depth

\* A client installs an overlay: one more layer, on top of layers without a hook.
LEMMA MakeInv ==
    ASSUME ~Restack, Inv, NEW o \in Objects, NEW i \in Overlays, NEW fns \in Requests,
           NEW n \in 0 .. MaxExtra, NEW hook \in BOOLEAN, MakeVTableOverlay(o, i, fns, n, hook),
           fault' = fault
    PROVE  Inv'
<1>. DEFINE r == Fresh(o, i, fns, n, hook)
            depth == Len(layers[o])
            top == [overlay |-> i, fns |-> fns]
<1>1. /\ ov[i] = NoOverlay /\ life[o] = "alive" /\ Accepts(ClassOf[o], fns)
      /\ \A k \in 1 .. depth : ~ov[layers[o][k].overlay].hook
      /\ UNCHANGED <<life, snap, fault, owed, calls>>
      /\ i \notin owed
  <2>1. \A k \in 1 .. depth : layers[o][k] \in ToSet(layers[o])
    BY Installs DEF ToSet
  <2>2. ov[i] = NoOverlay
    BY DEF MakeVTableOverlay, Inv, OvOK, MadeOK, LiveStates
  <2>. QED
    BY <2>1, <2>2 DEF MakeVTableOverlay, Inv, OwedOK
<1>2. /\ ov' = [ov EXCEPT ![i] = r]
      /\ vptr' = [vptr EXCEPT ![o] = i]
      /\ layers' = [layers EXCEPT ![o] = Append(layers[o], top)]
      /\ stash' = [stash EXCEPT ![i] = [k \in 0 .. n - 1 |-> Null]]
  BY DEF MakeVTableOverlay, Fresh
<1>3. /\ ov'[i] = r /\ \A j \in Overlays : j # i => ov'[j] = ov[j]
      /\ vptr'[o] = i /\ \A p \in Objects : p # o => vptr'[p] = vptr[p]
      /\ stash'[i] = [k \in 0 .. n - 1 |-> Null] /\ \A j \in Overlays : j # i => stash'[j] = stash[j]
      /\ layers'[o] = Append(layers[o], top) /\ \A p \in Objects : p # o => layers'[p] = layers[p]
  BY <1>2 DEF Inv, Shapes
<1>4. /\ Len(layers'[o]) = depth + 1 /\ depth \in Nat /\ layers'[o] \in Seq(Install)
      /\ \A k \in 1 .. depth : layers'[o][k] = layers[o][k]
      /\ layers'[o][depth + 1].overlay = i /\ layers'[o][depth + 1].fns = fns
  <2>1. top \in Install /\ top.overlay = i /\ top.fns = fns
    BY DEF Install
  <2>2. layers[o] \in Seq(Install) /\ depth \in Nat
    BY Installs
  <2>. HIDE DEF top, depth
  <2>3. /\ Append(layers[o], top) \in Seq(Install)
        /\ Len(Append(layers[o], top)) = Len(layers[o]) + 1
        /\ \A k \in 1 .. Len(layers[o]) : Append(layers[o], top)[k] = layers[o][k]
        /\ Append(layers[o], top)[Len(layers[o]) + 1] = top
    BY <2>1, <2>2, AppendProperties
  <2>. QED
    BY <1>3, <2>1, <2>2, <2>3 DEF depth
<1>5. /\ r = [x \in Fields |-> r[x]] /\ r # NoOverlay
      /\ r.state = IF hook THEN "published" ELSE "installed"
      /\ r.block = CopiedBlock(o, i, fns, n)
      /\ r.original_vptr = vptr[o] /\ r.inst = o /\ r.n_extra = n /\ r.hook = hook
      /\ r.dtor_fired = FALSE /\ r.cleanup = FALSE
  BY DEF Fresh, Fields, NoOverlay
<1>6. n \in Nat
  BY ParameterAssumption
<1>7. vptr[o] = TopOf(layers[o]) /\ vptr[o] \in Overlays \cup {ClassVTable}
  BY <1>1, Table DEF Inv, Shapes
<1>. HIDE DEF r, depth, top
<1>8. \A k \in 1 .. depth : ov[layers[o][k].overlay] # NoOverlay /\ layers[o][k].overlay # i
  BY <1>1, Installs DEF LayerOK, depth
<1>9. \A p \in Objects : \A k \in 1 .. Len(layers[p]) :
        layers[p][k].overlay # i /\ ov'[layers[p][k].overlay] = ov[layers[p][k].overlay]
  <2>. TAKE p \in Objects
  <2>. TAKE k \in 1 .. Len(layers[p])
  <2>1. layers[p][k].overlay \in Overlays /\ ov[layers[p][k].overlay] # NoOverlay
    BY Installs DEF LayerOK
  <2>. QED
    BY <1>1, <1>3, <2>1
<1>10. Shapes'
  <2>1. ov' = [j \in Overlays |-> ov'[j]] /\ DOMAIN ov' = Overlays
    BY <1>2 DEF Inv, Shapes
  <2>2. stash' = [j \in Overlays |-> stash'[j]]
    BY <1>2 DEF Inv, Shapes
  <2>3. vptr' \in [Objects -> Overlays \cup {ClassVTable}]
    BY <1>2 DEF Inv, Shapes
  <2>4. layers' \in [Objects -> Seq(Install)]
    BY <1>2, <1>3, <1>4 DEF Inv, Shapes
  <2>. QED
    BY <1>1, <2>1, <2>2, <2>3, <2>4 DEF Inv, Shapes
<1>11. ASSUME NEW j \in Overlays PROVE OvOK(j)' /\ Covered(j)' /\ OwedOK(j)'
  <2>1. CASE j = i
    <3>1. MadeOK(r)
      BY <1>5, <1>6, <1>7 DEF MadeOK, LiveStates
    <3>2. BlockOK(r, i, [k \in 0 .. n - 1 |-> Null])
      BY <1>1, <1>5, Copied DEF BlockOK
    <3>3. OvOK(j)'
      BY <1>3, <1>5, <2>1, <3>1, <3>2 DEF OvOK
    <3>4. Covered(j)'
      BY <1>3, <1>4, <1>5, <2>1 DEF Covered
    <3>. QED
      BY <1>1, <2>1, <3>3, <3>4 DEF Inv, OwedOK
  <2>2. CASE j # i
    <3>1. ov'[j] = ov[j] /\ stash'[j] = stash[j]
      BY <1>3, <2>2
    <3>2. OvOK(j)'
      BY <1>1, <3>1 DEF Inv, OvOK
    <3>3. Covered(j)'
      <4>. SUFFICES ASSUME ov[j].state \in LiveStates
                    PROVE  \E k \in 1 .. Len(layers'[ov[j].inst]) : layers'[ov[j].inst][k].overlay = j
        BY <3>1 DEF Covered
      <4>1. PICK k \in 1 .. Len(layers[ov[j].inst]) : layers[ov[j].inst][k].overlay = j
        BY Installed
      <4>2. CASE ov[j].inst = o
        BY <1>4, <4>1, <4>2 DEF depth
      <4>3. CASE ov[j].inst # o
        BY <1>3, <4>1, <4>3, Installed
      <4>. QED
        BY <4>2, <4>3
    <3>4. OwedOK(j)'
      <4>1. ASSUME j \in owed PROVE ov[j] # NoOverlay /\ ov[j].inst # o /\ ov[j].inst \in Objects
        <5>1. ov[j] # NoOverlay /\ life[ov[j].inst] # "alive"
          BY <4>1 DEF Inv, OwedOK
        <5>. QED
          BY <1>1, <5>1 DEF Inv, OvOK, MadeOK
      <4>. QED
        BY <1>1, <1>3, <3>1, <4>1 DEF Inv, OwedOK, Hooked
    <3>. QED
      BY <3>2, <3>3, <3>4
  <2>. QED
    BY <2>1, <2>2
<1>12. ASSUME NEW p \in Objects PROVE LayersOK(p)' /\ LifeOK(p)'
  <2>1. CASE p # o
    <3>1. layers'[p] = layers[p] /\ vptr'[p] = vptr[p]
      BY <1>3, <2>1
    <3>2. LayersOK(p)'
      BY <1>9, <3>1 DEF Inv, LayersOK
    <3>. QED
      BY <1>1, <3>1, <3>2 DEF Inv, LifeOK
  <2>2. CASE p = o
    <3>1. ASSUME NEW k \in 1 .. depth PROVE LayerOK(o, layers'[o], k, ov[layers[o][k].overlay])
      <4>1. LayerOK(o, layers[o], k, ov[layers[o][k].overlay]) /\ k \in Nat
        BY <1>4, Installs DEF depth
      <4>2. \A m \in 1 .. k : layers'[o][m] = layers[o][m]
        BY <1>4
      <4>3. ASSUME NEW block, NEW hooked, NEW s, WordOK(layers[o], k, block, hooked, s)
            PROVE  WordOK(layers'[o], k, block, hooked, s)
        BY <4>1, <4>2, <4>3, SameWord
      <4>4. k # 1 => layers'[o][k - 1] = layers[o][k - 1]
        BY <1>4
      <4>. QED
        BY <1>1, <1>4, <4>1, <4>2, <4>3, <4>4 DEF LayerOK
    <3>2. LayerOK(o, layers'[o], depth + 1, r)
      <4>1. r.original_vptr = IF depth + 1 = 1 THEN ClassVTable ELSE layers'[o][depth + 1 - 1].overlay
        BY <1>4, <1>5, <1>7 DEF TopOf, depth
      <4>2. ASSUME NEW s \in 0 .. ClassOf[o].slots - 1
            PROVE  WordOK(layers'[o], depth + 1, r.block, r.state = "installed" /\ r.cleanup, s)
        <5>1. /\ s \in DOMAIN fns => r.block[s] = FnWord(fns[s])
              /\ s \notin DOMAIN fns =>
                   r.block[s] = IF depth = 0 THEN ClassWord(s)
                                ELSE ov[layers[o][depth].overlay].block[s]
          BY <1>1, <1>5, Copied DEF depth
        <5>2. CASE s \in DOMAIN fns
          <6>1. ASSUME NEW m \in 1 .. depth + 1,
                       \A q \in m + 1 .. depth + 1 : s \notin DOMAIN layers'[o][q].fns
                PROVE  m = depth + 1
            <7>1. m # depth + 1 => depth + 1 \in m + 1 .. depth + 1
              BY <1>4
            <7>. QED
              BY <1>4, <5>2, <6>1, <7>1
          <6>2. depth + 1 \in 1 .. depth + 1
            BY <1>4
          <6>. QED
            BY <1>4, <5>1, <5>2, <6>1, <6>2 DEF WordOK
        <5>3. CASE s \notin DOMAIN fns /\ depth = 0
          BY <1>4, <1>5, <5>1, <5>3 DEF WordOK
        <5>4. CASE s \notin DOMAIN fns /\ depth # 0
          <6>. DEFINE q == ov[layers[o][depth].overlay]
          <6>1. /\ WordOK(layers[o], depth, q.block, q.state = "installed" /\ q.cleanup, s)
                /\ q.state = "installed" => ~q.cleanup
            <7>1. LayerOK(o, layers[o], depth, q) /\ layers[o][depth].overlay \in Overlays
              BY <1>4, <5>4, Installs DEF depth
            <7>2. ~q.hook
              BY <1>1, <1>4, <5>4
            <7>3. MadeOK(q)
              BY <7>1, Made DEF LayerOK, LiveStates
            <7>. QED
              BY <7>1, <7>2, <7>3 DEF LayerOK, MadeOK
          <6>2. r.block[s] = q.block[s]
            BY <5>1, <5>4
          <6>3. ASSUME NEW m \in 1 .. depth + 1, s \in DOMAIN layers'[o][m].fns
                PROVE  m \in 1 .. depth /\ s \in DOMAIN layers[o][m].fns /\ layers'[o][m] = layers[o][m]
            BY <1>4, <5>4, <6>3
          <6>4. \A m \in 1 .. depth : m \in 1 .. depth + 1 /\ layers'[o][m] = layers[o][m]
            BY <1>4
          <6>. HIDE DEF q
          <6>5. ASSUME NEW m \in 1 .. depth + 1, s \in DOMAIN layers'[o][m].fns,
                       \A j \in m + 1 .. depth + 1 : s \notin DOMAIN layers'[o][j].fns
                PROVE  r.block[s] = FnWord(layers'[o][m].fns[s])
            <7>1. m \in 1 .. depth /\ s \in DOMAIN layers[o][m].fns /\ layers'[o][m] = layers[o][m]
              BY <6>3, <6>5
            <7>2. \A j \in m + 1 .. depth : s \notin DOMAIN layers[o][j].fns
              BY <1>4, <6>4, <6>5, <7>1
            <7>. QED
              BY <6>1, <6>2, <7>1, <7>2 DEF WordOK
          <6>6. ASSUME \A m \in 1 .. depth + 1 : s \notin DOMAIN layers'[o][m].fns
                PROVE  r.block[s] = ClassWord(s)
            <7>1. \A m \in 1 .. depth : s \notin DOMAIN layers[o][m].fns
              BY <6>4, <6>6
            <7>. QED
              BY <6>1, <6>2, <7>1 DEF WordOK
          <6>. QED
            BY <1>5, <6>5, <6>6 DEF WordOK
        <5>. QED
          BY <5>2, <5>3, <5>4
      <4>. QED
        BY <1>1, <1>4, <1>5, <4>1, <4>2 DEF LayerOK, LiveStates
    <3>3. LayersOK(o)'
      <4>1. \A k \in 1 .. depth + 1 : LayerOK(o, layers'[o], k, ov'[layers'[o][k].overlay])
        <5>. TAKE k \in 1 .. depth + 1
        <5>1. CASE k = depth + 1
          BY <1>3, <1>4, <3>2, <5>1
        <5>2. CASE k # depth + 1
          <6>1. k \in 1 .. depth
            BY <1>4, <5>2
          <6>. QED
            BY <1>4, <1>9, <3>1, <6>1 DEF depth
        <5>. QED
          BY <5>1, <5>2
      <4>2. \A k, m \in 1 .. depth + 1 : layers'[o][k].overlay = layers'[o][m].overlay => k = m
        <5>1. \A k, m \in 1 .. depth : layers[o][k].overlay = layers[o][m].overlay => k = m
          BY DEF Inv, LayersOK, depth
        <5>2. \A k \in 1 .. depth + 1 : k # depth + 1 => k \in 1 .. depth
          BY <1>4
        <5>. QED
          BY <1>4, <1>8, <5>1, <5>2
      <4>. QED
        BY <1>4, <4>1, <4>2 DEF LayersOK
    <3>4. LifeOK(o)'
      BY <1>1, <1>3, <1>4 DEF LifeOK, TopOf
    <3>. QED
      BY <2>2, <3>3, <3>4
  <2>. QED
    BY <2>1, <2>2
<1>. QED
  BY <1>10, <1>11, <1>12 DEF Inv

\* A step that rewrites a live overlay, and no more than its block, its wiring
\* or its mark, leaves the layers in order.
LEMMA Rewritten ==
    ASSUME Inv, NEW i \in Overlays, ov[i].state \in LiveStates, layers' = layers,
           \A j \in Overlays : j # i => ov'[j] = ov[j],
           ov'[i] # NoOverlay, ov'[i].state \in LiveStates, ov'[i].inst = ov[i].inst,
           ov'[i].original_vptr = ov[i].original_vptr, ov'[i].hook = ov[i].hook,
           \A k \in 1 .. Len(layers[ov[i].inst]) : layers[ov[i].inst][k].overlay = i =>
             \A s \in 0 .. ClassOf[ov[i].inst].slots - 1 :
               WordOK(layers[ov[i].inst], k, ov'[i].block,
                      ov'[i].state = "installed" /\ ov'[i].cleanup, s)
    PROVE  (\A o \in Objects : LayersOK(o)') /\ (\A j \in Overlays : Covered(j)')
<1>1. ASSUME NEW o \in Objects, NEW k \in 1 .. Len(layers[o])
      PROVE  LayerOK(o, layers[o], k, ov'[layers[o][k].overlay])
  <2>1. layers[o][k].overlay \in Overlays /\ LayerOK(o, layers[o], k, ov[layers[o][k].overlay])
    BY Installs
  <2>2. CASE layers[o][k].overlay = i
    BY <2>1, <2>2 DEF LayerOK
  <2>3. CASE layers[o][k].overlay # i
    BY <2>1, <2>3
  <2>. QED
    BY <2>2, <2>3
<1>2. \A o \in Objects : LayersOK(o)'
  BY <1>1 DEF Inv, LayersOK
<1>3. ASSUME NEW j \in Overlays PROVE Covered(j)'
  <2>1. ov'[j].state \in LiveStates => ov[j].state \in LiveStates /\ ov'[j].inst = ov[j].inst
    OBVIOUS
  <2>. QED
    BY <2>1, Installed DEF Covered
<1>. QED
  BY <1>2, <1>3

\* A block in plain arithmetic.
BlockForm(block, n, slots, i, st) ==
    /\ DOMAIN block = -3 - n .. slots - 1
    /\ block[-1] = ClassWord(-1) /\ block[-2] = ClassWord(-2) /\ block[-3] = SelfWord(i)
    /\ DOMAIN st = 0 .. n - 1
    /\ \A k \in 0 .. n - 1 : block[-4 - k] = st[k]

\* The block of an overlay, word by word.
LEMMA BlockIsForm ==
    ASSUME NEW r, NEW i, NEW st, MadeOK(r)
    PROVE  /\ r.n_extra \in Nat /\ ClassOf[r.inst].slots \in Nat
           /\ BlockOK(r, i, st) <=> BlockForm(r.block, r.n_extra, ClassOf[r.inst].slots, i, st)
<1>1. r.n_extra \in Nat /\ ClassOf[r.inst].slots \in Nat
  BY ClassAssumption DEF MadeOK, Class
<1>2. /\ HiddenSlot = -3 /\ -kABIPrefixSize .. -1 = {-2, -1}
      /\ \A k \in 0 .. r.n_extra - 1 : VTableOverlayExtraSlot(k) = -4 - k
  BY <1>1 DEF HiddenSlot, kVTableOverlayPrefixSize, kABIPrefixSize, VTableOverlayExtraSlot
<1>. QED
  BY <1>1, <1>2 DEF BlockOK, BlockForm

\* A method's word is written: what lies in front stays.
LEMMA MethodWritten ==
    ASSUME NEW n \in Nat, NEW slots \in Nat, NEW block, NEW i, NEW st, NEW x \in 0 .. slots - 1,
           BlockForm(block, n, slots, i, st),
           NEW new, DOMAIN new = DOMAIN block, \A y \in DOMAIN block : y # x => new[y] = block[y]
    PROVE  /\ BlockForm(new, n, slots, i, st)
           /\ \A s \in 0 .. slots - 1 : s # x => new[s] = block[s]
<1>1. DOMAIN block = -3 - n .. slots - 1
  BY DEF BlockForm
<1>2. -1 \in DOMAIN block /\ -2 \in DOMAIN block /\ -3 \in DOMAIN block /\ x # -1 /\ x # -2 /\ x # -3
  <2>1. x \in Int /\ x >= 0 /\ x < slots
    OBVIOUS
  <2>. QED
    BY <1>1, <2>1
<1>3. \A k \in 0 .. n - 1 : -4 - k \in DOMAIN block /\ -4 - k # x
  BY <1>1
<1>4. \A s \in 0 .. slots - 1 : s \in DOMAIN block
  BY <1>1
<1>. QED
  BY <1>2, <1>3, <1>4 DEF BlockForm

\* An extra slot is written: the methods stay, and so does the rest in front.
LEMMA ExtraWritten ==
    ASSUME NEW n \in Nat, NEW slots \in Nat, NEW block, NEW i, NEW st, NEW k \in 0 .. n - 1,
           BlockForm(block, n, slots, i, st),
           NEW new, DOMAIN new = DOMAIN block, \A y \in DOMAIN block : y # -4 - k => new[y] = block[y],
           NEW st2, DOMAIN st2 = DOMAIN st, \A m \in DOMAIN st : m # k => st2[m] = st[m],
           new[-4 - k] = st2[k]
    PROVE  /\ BlockForm(new, n, slots, i, st2)
           /\ \A s \in 0 .. slots - 1 : new[s] = block[s]
<1>1. DOMAIN block = -3 - n .. slots - 1 /\ DOMAIN st = 0 .. n - 1
  BY DEF BlockForm
<1>2. /\ -1 \in DOMAIN block /\ -2 \in DOMAIN block /\ -3 \in DOMAIN block
      /\ -4 - k # -1 /\ -4 - k # -2 /\ -4 - k # -3
  <2>1. k \in Int /\ k >= 0
    OBVIOUS
  <2>. QED
    BY <1>1, <2>1
<1>3. \A m \in 0 .. n - 1 : -4 - m \in DOMAIN block /\ (m # k => -4 - m # -4 - k)
  BY <1>1
<1>4. \A s \in 0 .. slots - 1 : s \in DOMAIN block /\ s # -4 - k
  BY <1>1
<1>5. \A m \in 0 .. n - 1 : new[-4 - m] = st2[m]
  <2>. TAKE m \in 0 .. n - 1
  <2>1. m # k => new[-4 - m] = block[-4 - m] /\ block[-4 - m] = st[m] /\ st[m] = st2[m]
    BY <1>1, <1>3 DEF BlockForm
  <2>. QED
    BY <2>1
<1>6. BlockForm(new, n, slots, i, st2)
  BY <1>1, <1>2, <1>5 DEF BlockForm
<1>. QED
  BY <1>4, <1>6

\* The hook's fields are set; the destructor captured is the class's.
LEMMA WireInv ==
    ASSUME Inv, NEW i \in Overlays, WireHook(i) PROVE Inv'
<1>1. /\ ov[i].state = "published" /\ ov[i].state \in LiveStates
      /\ UNCHANGED <<vptr, life, snap, fault, layers, stash, owed, calls>>
  BY DEF WireHook, LiveStates
<1>2. MadeOK(ov[i]) /\ BlockOK(ov[i], i, stash[i]) /\ ov[i].inst \in Objects /\ ov[i] # NoOverlay
  BY <1>1, Installed, Made
<1>3. DOMAIN ov = Overlays /\ ov[i] = [x \in Fields |-> ov[i][x]]
  BY <1>2 DEF Inv, Shapes, MadeOK
<1>4. /\ \A j \in Overlays : j # i => ov'[j] = ov[j]
      /\ ov' = [j \in Overlays |-> ov'[j]] /\ DOMAIN ov' = Overlays
  BY <1>3 DEF WireHook, Inv, Shapes
<1>5. /\ ov'[i].state = "wired" /\ ov'[i].cleanup = TRUE
      /\ ov'[i].orig_dtor = ov[i].block[kDeletingDtorSlot]
      /\ ov'[i] = [x \in Fields |-> ov'[i][x]]
  BY <1>3 DEF WireHook, Fields
<1>6. /\ ov'[i].block = ov[i].block /\ ov'[i].original_vptr = ov[i].original_vptr
      /\ ov'[i].inst = ov[i].inst /\ ov'[i].n_extra = ov[i].n_extra
      /\ ov'[i].hook = ov[i].hook /\ ov'[i].dtor_fired = ov[i].dtor_fired
  BY <1>3 DEF WireHook, Fields
<1>7. ov[i].hook /\ ~ov[i].cleanup /\ ~ov[i].dtor_fired
  BY <1>1, <1>2 DEF MadeOK
<1>8. PICK k \in 1 .. Len(layers[ov[i].inst]) : layers[ov[i].inst][k].overlay = i
  BY <1>1, Installed
<1>9. ov[i].block[kDeletingDtorSlot] = ClassWord(kDeletingDtorSlot)
  BY <1>1, <1>2, <1>8, DeletingWord
<1>10. ov'[i] # NoOverlay
  BY <1>5 DEF Fields, NoOverlay
<1>11. \A m \in 1 .. Len(layers[ov[i].inst]) : layers[ov[i].inst][m].overlay = i =>
         \A s \in 0 .. ClassOf[ov[i].inst].slots - 1 :
           WordOK(layers[ov[i].inst], m, ov[i].block, FALSE, s)
  <2>1. \A m \in 1 .. Len(layers[ov[i].inst]) : layers[ov[i].inst][m].overlay = i =>
          LayerOK(ov[i].inst, layers[ov[i].inst], m, ov[i])
    BY <1>2, Installs
  <2>2. (ov[i].state = "installed" /\ ov[i].cleanup) = FALSE
    BY <1>1
  <2>. QED
    BY <2>1, <2>2 DEF LayerOK
<1>12. (ov'[i].state = "installed" /\ ov'[i].cleanup) = FALSE
  BY <1>5
<1>13. (\A o \in Objects : LayersOK(o)') /\ (\A j \in Overlays : Covered(j)')
  BY <1>1, <1>4, <1>5, <1>6, <1>10, <1>11, <1>12, Rewritten DEF LiveStates
<1>14. OvOK(i)'
  <2>1. MadeOK(ov'[i])
    BY <1>2, <1>5, <1>6, <1>7, <1>9 DEF MadeOK, LiveStates
  <2>2. BlockOK(ov'[i], i, stash'[i])
    BY <1>1, <1>2, <1>6 DEF BlockOK
  <2>. QED
    BY <1>6, <1>7, <2>1, <2>2 DEF OvOK
<1>15. \A j \in Overlays : OvOK(j)'
  BY <1>1, <1>4, <1>14 DEF Inv, OvOK
<1>16. \A j \in Overlays : OwedOK(j)'
  <2>. TAKE j \in Overlays
  <2>1. j # i => OwedOK(j)'
    BY <1>1, <1>4 DEF Inv, OwedOK, Hooked
  <2>2. OwedOK(i)'
    <3>1. OwedOK(i) /\ ~Hooked(i)
      BY <1>1 DEF Inv, Hooked
    <3>. QED
      BY <1>1, <1>6, <1>10, <3>1 DEF OwedOK
  <2>. QED
    BY <2>1, <2>2
<1>17. \A o \in Objects : LifeOK(o)'
  BY <1>1 DEF Inv, LifeOK
<1>18. Shapes'
  BY <1>1, <1>4 DEF Inv, Shapes
<1>. QED
  BY <1>13, <1>15, <1>16, <1>17, <1>18 DEF Inv

\* The hook becomes reachable: the deleting destructor is the hook from now on.
LEMMA PublishInv ==
    ASSUME Inv, NEW i \in Overlays, PublishHook(i) PROVE Inv'
<1>. DEFINE ls == layers[ov[i].inst]
<1>1. /\ ov[i].state = "wired" /\ ov[i].state \in LiveStates
      /\ UNCHANGED <<vptr, life, snap, fault, layers, stash, owed, calls>>
  BY DEF PublishHook, LiveStates
<1>2. MadeOK(ov[i]) /\ BlockOK(ov[i], i, stash[i]) /\ ov[i].inst \in Objects /\ ov[i] # NoOverlay
  BY <1>1, Installed, Made
<1>3. DOMAIN ov = Overlays /\ ov[i] = [x \in Fields |-> ov[i][x]]
  BY <1>2 DEF Inv, Shapes, MadeOK
<1>4. /\ \A j \in Overlays : j # i => ov'[j] = ov[j]
      /\ ov' = [j \in Overlays |-> ov'[j]] /\ DOMAIN ov' = Overlays
  <2>1. \A j \in Overlays : j # i => ov'[j] = ov[j]
    BY <1>3 DEF PublishHook
  <2>2. ov' = [j \in Overlays |-> ov'[j]]
    BY <1>3 DEF PublishHook
  <2>3. DOMAIN ov' = Overlays
    BY <1>3 DEF PublishHook
  <2>. QED
    BY <2>1, <2>2, <2>3
<1>5. /\ ov'[i].state = "installed"
      /\ ov'[i].block = [ov[i].block EXCEPT ![kDeletingDtorSlot] = Wrapper]
      /\ ov'[i] = [x \in Fields |-> ov'[i][x]]
  BY <1>3 DEF PublishHook, Fields
<1>6. /\ ov'[i].original_vptr = ov[i].original_vptr /\ ov'[i].inst = ov[i].inst
      /\ ov'[i].n_extra = ov[i].n_extra /\ ov'[i].orig_dtor = ov[i].orig_dtor
      /\ ov'[i].hook = ov[i].hook /\ ov'[i].dtor_fired = ov[i].dtor_fired
      /\ ov'[i].cleanup = ov[i].cleanup
  BY <1>3 DEF PublishHook, Fields
<1>7. ov[i].hook /\ ov[i].cleanup
  BY <1>1, <1>2 DEF MadeOK
<1>8. /\ ov[i].n_extra \in Nat /\ ClassOf[ov[i].inst].slots \in Nat
      /\ BlockForm(ov[i].block, ov[i].n_extra, ClassOf[ov[i].inst].slots, i, stash[i])
  BY <1>2, BlockIsForm
<1>9. kDeletingDtorSlot \in 0 .. ClassOf[ov[i].inst].slots - 1
  <2>1. ClassOf[ov[i].inst].slots >= 2
    BY <1>1, <1>2, Installed, Installs DEF LayerOK, Accepts, kMinVTableMethodSlots
  <2>. QED
    BY <1>8, <2>1 DEF kDeletingDtorSlot
<1>10. /\ BlockForm(ov'[i].block, ov[i].n_extra, ClassOf[ov[i].inst].slots, i, stash[i])
       /\ ov'[i].block[kDeletingDtorSlot] = Wrapper
       /\ \A s \in 0 .. ClassOf[ov[i].inst].slots - 1 :
            s # kDeletingDtorSlot => ov'[i].block[s] = ov[i].block[s]
  <2>1. ov'[i].block = [ov[i].block EXCEPT ![kDeletingDtorSlot] = Wrapper]
    BY <1>5
  <2>2. DOMAIN ov[i].block = -3 - ov[i].n_extra .. ClassOf[ov[i].inst].slots - 1
    BY <1>8 DEF BlockForm
  <2>3. kDeletingDtorSlot \in DOMAIN ov[i].block
    BY <1>8, <1>9, <2>2
  <2>4. /\ DOMAIN ov'[i].block = DOMAIN ov[i].block
        /\ \A y \in DOMAIN ov[i].block : y # kDeletingDtorSlot => ov'[i].block[y] = ov[i].block[y]
        /\ ov'[i].block[kDeletingDtorSlot] = Wrapper
    BY <2>1, <2>3
  <2>. QED
    BY <1>8, <1>9, <2>4, MethodWritten
<1>11. ov'[i] # NoOverlay
  BY <1>5 DEF Fields, NoOverlay
<1>12. \A m \in 1 .. Len(ls) : ls[m].overlay = i =>
         \A s \in 0 .. ClassOf[ov[i].inst].slots - 1 : WordOK(ls, m, ov'[i].block, TRUE, s)
  <2>. SUFFICES ASSUME NEW m \in 1 .. Len(ls), ls[m].overlay = i,
                       NEW s \in 0 .. ClassOf[ov[i].inst].slots - 1
                PROVE  WordOK(ls, m, ov'[i].block, TRUE, s)
    OBVIOUS
  <2>1. /\ LayerOK(ov[i].inst, ls, m, ov[i])
        /\ \A k \in 1 .. Len(ls) : DOMAIN ls[k].fns \in SUBSET MethodSlots
        /\ Len(ls) \in Nat
    BY <1>2, Installs
  <2>2. (ov[i].state = "installed" /\ ov[i].cleanup) = FALSE
    BY <1>1
  <2>3. WordOK(ls, m, ov[i].block, FALSE, s)
    BY <2>1, <2>2 DEF LayerOK
  <2>4. \A k \in 1 .. m : kDeletingDtorSlot \notin DOMAIN ls[k].fns
    BY <2>1, SlotAssumption
  <2>6. CASE s = kDeletingDtorSlot
    BY <1>10, <2>4, <2>6 DEF WordOK
  <2>7. CASE s # kDeletingDtorSlot
    BY <1>10, <2>3, <2>7 DEF WordOK
  <2>. QED
    BY <2>6, <2>7
<1>13. (ov'[i].state = "installed" /\ ov'[i].cleanup) = TRUE
  BY <1>5, <1>6, <1>7
<1>14. (\A o \in Objects : LayersOK(o)') /\ (\A j \in Overlays : Covered(j)')
  BY <1>1, <1>4, <1>5, <1>6, <1>11, <1>12, <1>13, Rewritten DEF LiveStates
<1>15. OvOK(i)'
  <2>1. MadeOK(ov'[i])
    BY <1>2, <1>5, <1>6, <1>7 DEF MadeOK, LiveStates
  <2>2. BlockOK(ov'[i], i, stash'[i])
    BY <1>1, <1>6, <1>10, <2>1, BlockIsForm
  <2>3. ov[i].dtor_fired => life[ov[i].inst] \in {"callback", "destructor", "gone"}
    BY <1>2 DEF Inv, OvOK
  <2>. QED
    BY <1>1, <1>6, <2>1, <2>2, <2>3 DEF OvOK
<1>16. \A j \in Overlays : OvOK(j)'
  BY <1>1, <1>4, <1>15 DEF Inv, OvOK
<1>17. \A j \in Overlays : OwedOK(j)'
  <2>. TAKE j \in Overlays
  <2>1. j # i => OwedOK(j)'
    BY <1>1, <1>4 DEF Inv, OwedOK, Hooked
  <2>2. OwedOK(i)'
    <3>1. OwedOK(i) /\ ~Hooked(i)
      BY <1>1 DEF Inv, Hooked
    <3>. QED
      BY <1>1, <1>6, <1>11, <3>1 DEF OwedOK
  <2>. QED
    BY <2>1, <2>2
<1>18. \A o \in Objects : LifeOK(o)'
  BY <1>1 DEF Inv, LifeOK
<1>19. Shapes'
  BY <1>1, <1>4 DEF Inv, Shapes
<1>. QED
  BY <1>14, <1>16, <1>17, <1>18, <1>19 DEF Inv

\* A client writes an extra slot of the overlay its object points at.
LEMMA StoreInv ==
    ASSUME Inv, NEW o \in Objects, NEW k \in 0 .. MaxExtra - 1, NEW d \in Fns, StoreExtra(o, k, d),
           NEW i, i = vptr[o]
    PROVE  Inv'
<1>1. /\ life[o] = "alive" /\ i # ClassVTable /\ ov[i].state = "installed" /\ k < ov[i].n_extra
      /\ UNCHANGED <<vptr, life, snap, fault, layers, owed, calls>>
  BY DEF StoreExtra
<1>2. /\ i \in Overlays /\ MadeOK(ov[i]) /\ BlockOK(ov[i], i, stash[i]) /\ ov[i] # NoOverlay
      /\ ov[i].state \in LiveStates /\ ov[i].inst = o
  BY <1>1, Table, Made
<1>3. /\ DOMAIN ov = Overlays /\ ov[i] = [y \in Fields |-> ov[i][y]]
      /\ stash = [j \in Overlays |-> stash[j]]
  BY <1>2 DEF Inv, Shapes, MadeOK
<1>4. /\ \A j \in Overlays : j # i => ov'[j] = ov[j] /\ stash'[j] = stash[j]
      /\ ov' = [j \in Overlays |-> ov'[j]] /\ DOMAIN ov' = Overlays
      /\ stash' = [j \in Overlays |-> stash'[j]]
  BY <1>2, <1>3 DEF StoreExtra, Inv, Shapes
<1>0. k \in Nat /\ VTableOverlayExtraSlot(k) = -4 - k
  <2>1. k \in Nat
    BY ParameterAssumption
  <2>. QED
    BY <2>1 DEF VTableOverlayExtraSlot, kVTableOverlayPrefixSize, kABIPrefixSize
<1>5. /\ ov'[i].block = [ov[i].block EXCEPT ![-4 - k] = DataWord(d)]
      /\ stash'[i] = [stash[i] EXCEPT ![k] = DataWord(d)]
      /\ ov'[i] = [y \in Fields |-> ov'[i][y]]
  BY <1>0, <1>2, <1>3 DEF StoreExtra, Fields
<1>6. /\ ov'[i].original_vptr = ov[i].original_vptr /\ ov'[i].inst = ov[i].inst
      /\ ov'[i].n_extra = ov[i].n_extra /\ ov'[i].orig_dtor = ov[i].orig_dtor
      /\ ov'[i].hook = ov[i].hook /\ ov'[i].dtor_fired = ov[i].dtor_fired
      /\ ov'[i].cleanup = ov[i].cleanup /\ ov'[i].state = ov[i].state
  BY <1>2, <1>3 DEF StoreExtra, Fields
<1>7. /\ ov[i].n_extra \in Nat /\ ClassOf[o].slots \in Nat /\ k \in 0 .. ov[i].n_extra - 1
      /\ BlockForm(ov[i].block, ov[i].n_extra, ClassOf[o].slots, i, stash[i])
  BY <1>0, <1>1, <1>2, BlockIsForm
<1>8. /\ BlockForm(ov'[i].block, ov[i].n_extra, ClassOf[o].slots, i, stash'[i])
      /\ \A s \in 0 .. ClassOf[o].slots - 1 : ov'[i].block[s] = ov[i].block[s]
  <2>1. /\ ov'[i].block = [ov[i].block EXCEPT ![-4 - k] = DataWord(d)]
        /\ stash'[i] = [stash[i] EXCEPT ![k] = DataWord(d)]
    BY <1>5
  <2>2. DOMAIN ov[i].block = -3 - ov[i].n_extra .. ClassOf[o].slots - 1 /\ DOMAIN stash[i] = 0 .. ov[i].n_extra - 1
    BY <1>7 DEF BlockForm
  <2>3. -4 - k \in DOMAIN ov[i].block /\ k \in DOMAIN stash[i]
    BY <1>7, <2>2
  <2>4. /\ DOMAIN ov'[i].block = DOMAIN ov[i].block /\ DOMAIN stash'[i] = DOMAIN stash[i]
        /\ \A y \in DOMAIN ov[i].block : y # -4 - k => ov'[i].block[y] = ov[i].block[y]
        /\ \A m \in DOMAIN stash[i] : m # k => stash'[i][m] = stash[i][m]
        /\ ov'[i].block[-4 - k] = stash'[i][k]
    BY <2>1, <2>3
  <2>. QED
    BY <1>7, <2>4, ExtraWritten, SMTT(60)
<1>11. ov'[i] # NoOverlay
  BY <1>5 DEF Fields, NoOverlay
<1>12. \A m \in 1 .. Len(layers[o]) : layers[o][m].overlay = i =>
         \A s \in 0 .. ClassOf[o].slots - 1 :
           WordOK(layers[o], m, ov'[i].block, ov'[i].state = "installed" /\ ov'[i].cleanup, s)
  <2>. SUFFICES ASSUME NEW m \in 1 .. Len(layers[o]), layers[o][m].overlay = i,
                       NEW s \in 0 .. ClassOf[o].slots - 1
                PROVE  WordOK(layers[o], m, ov'[i].block, ov'[i].state = "installed" /\ ov'[i].cleanup, s)
    OBVIOUS
  <2>1. WordOK(layers[o], m, ov[i].block, ov[i].state = "installed" /\ ov[i].cleanup, s)
    BY Installs DEF LayerOK
  <2>2. ov'[i].block[s] = ov[i].block[s]
    BY <1>8
  <2>. QED
    BY <1>6, <2>1, <2>2 DEF WordOK
<1>13. (\A p \in Objects : LayersOK(p)') /\ (\A j \in Overlays : Covered(j)')
  BY <1>1, <1>2, <1>4, <1>6, <1>11, <1>12, Rewritten
<1>14. OvOK(i)'
  <2>1. MadeOK(ov'[i])
    BY <1>2, <1>5, <1>6 DEF MadeOK
  <2>2. BlockOK(ov'[i], i, stash'[i])
    BY <1>2, <1>6, <1>8, <2>1, BlockIsForm
  <2>3. ov[i].dtor_fired => life[ov[i].inst] \in {"callback", "destructor", "gone"}
    BY <1>2 DEF Inv, OvOK
  <2>. QED
    BY <1>1, <1>6, <2>1, <2>2, <2>3 DEF OvOK
<1>15. \A j \in Overlays : OvOK(j)'
  BY <1>1, <1>4, <1>14 DEF Inv, OvOK
<1>16. \A j \in Overlays : OwedOK(j)'
  <2>. TAKE j \in Overlays
  <2>1. j # i => OwedOK(j)'
    BY <1>1, <1>4 DEF Inv, OwedOK, Hooked
  <2>2. OwedOK(i)'
    <3>1. OwedOK(i)
      BY <1>2 DEF Inv
    <3>. QED
      BY <1>1, <1>6, <1>11, <3>1 DEF OwedOK, Hooked
  <2>. QED
    BY <2>1, <2>2
<1>17. \A p \in Objects : LifeOK(p)'
  BY <1>1 DEF Inv, LifeOK
<1>18. Shapes'
  BY <1>1, <1>4 DEF Inv, Shapes
<1>. QED
  BY <1>13, <1>15, <1>16, <1>17, <1>18 DEF Inv

-----------------------------------------------------------------------------
(* The steps: the end of an object *)

\* A step that only moves objects on in their destruction leaves the layers.
LEMMA LayersKept ==
    ASSUME Inv, UNCHANGED <<ov, layers>>
    PROVE  (\A o \in Objects : LayersOK(o)') /\ (\A j \in Overlays : Covered(j)')
BY DEF Inv, LayersOK, Covered

\* `delete' dispatches to the hook exactly when one is in force.
LEMMA DeleteInv ==
    ASSUME Inv, NEW o \in Objects, Delete(o) PROVE Inv'
<1>1. life[o] = "alive" /\ UNCHANGED <<vptr, ov, snap, layers, stash, calls>>
  BY DEF Delete
<1>2. Readable(o)
  BY <1>1, Table DEF Readable, LiveStates
<1>3. /\ life' = [life EXCEPT ![o] =
                    IF Word(o, kDeletingDtorSlot) = Wrapper THEN "wrapper" ELSE "destructor"]
      /\ owed' = owed \cup {i \in Overlays : Hooked(i) /\ ov[i].inst = o}
      /\ fault' = fault
  BY <1>2 DEF Delete
<1>4. \A i \in owed : i \in Overlays /\ ov[i] # NoOverlay /\ ov[i].inst # o /\ ov[i].inst \in Objects
  <2>. TAKE i \in owed
  <2>1. i \in Overlays /\ OwedOK(i) /\ OvOK(i)
    BY DEF Inv, Shapes
  <2>. QED
    BY <1>1, <2>1 DEF OwedOK, OvOK, MadeOK
<1>5. \A p \in Objects : p # o => life'[p] = life[p]
  BY <1>3 DEF Inv, Shapes
<1>6. life'[o] = IF Word(o, kDeletingDtorSlot) = Wrapper THEN "wrapper" ELSE "destructor"
  BY <1>3 DEF Inv, Shapes
<1>7. \A i \in Overlays : Hooked(i) /\ ov[i].inst = o =>
        /\ ov[i] # NoOverlay /\ Len(layers[o]) # 0 /\ i = TopOf(layers[o])
        /\ life'[o] = "wrapper"
  <2>. SUFFICES ASSUME NEW i \in Overlays, Hooked(i), ov[i].inst = o
                PROVE  /\ ov[i] # NoOverlay /\ Len(layers[o]) # 0 /\ i = TopOf(layers[o])
                       /\ life'[o] = "wrapper"
    OBVIOUS
  <2>1. ov[i].state = "installed" /\ ov[i].cleanup /\ ov[i].state \in LiveStates
    BY DEF Hooked, LiveStates
  <2>2. ov[i].hook /\ ov[i] # NoOverlay
    BY <2>1, Made DEF MadeOK
  <2>3. Len(layers[o]) \in Nat /\ Len(layers[o]) # 0 /\ TopOf(layers[o]) = i /\ layers[o][Len(layers[o])].overlay = i
    BY <2>1, <2>2, HookOnTop
  <2>4. ov[i].block[kDeletingDtorSlot] = Wrapper
    BY <2>1, <2>3, DeletingWord
  <2>5. Word(o, kDeletingDtorSlot) = Wrapper
    BY <1>1, <2>3, <2>4, Table DEF Word
  <2>. QED
    BY <1>6, <2>2, <2>3, <2>5
<1>8. life'[o] = "wrapper" => Len(layers[o]) # 0 /\ TopOf(layers[o]) \in owed'
  <2>. SUFFICES ASSUME Word(o, kDeletingDtorSlot) = Wrapper
                PROVE  Len(layers[o]) # 0 /\ TopOf(layers[o]) \in owed'
    BY <1>6
  <2>1. Len(layers[o]) # 0
    <3>1. ClassWord(kDeletingDtorSlot) # Wrapper
      BY DEF ClassWord, Wrapper
    <3>. QED
      BY <1>1, <3>1, Table DEF Word
  <2>2. /\ vptr[o] = TopOf(layers[o]) /\ vptr[o] = layers[o][Len(layers[o])].overlay
        /\ vptr[o] \in Overlays /\ vptr[o] # ClassVTable /\ ov[vptr[o]].inst = o
    BY <1>1, <2>1, Table
  <2>3. ov[vptr[o]].block[kDeletingDtorSlot] = Wrapper
    BY <2>2 DEF Word
  <2>4. Hooked(vptr[o])
    <3>1. ClassWord(kDeletingDtorSlot) # Wrapper
      BY DEF ClassWord, Wrapper
    <3>2. Len(layers[o]) \in 1 .. Len(layers[o])
      BY <2>1, Installs
    <3>. QED
      BY <2>2, <2>3, <3>1, <3>2, DeletingWord DEF Hooked
  <2>. QED
    BY <1>3, <2>1, <2>2, <2>4
<1>9. \A i \in Overlays : OvOK(i)'
  <2>. TAKE i \in Overlays
  <2>1. OvOK(i)
    BY DEF Inv
  <2>2. ov[i] # NoOverlay => ov[i].inst \in Objects
    BY <2>1 DEF OvOK, MadeOK
  <2>3. ov[i] # NoOverlay /\ ov[i].dtor_fired => life'[ov[i].inst] = life[ov[i].inst]
    BY <1>1, <1>5, <2>1, <2>2 DEF OvOK
  <2>. QED
    BY <1>1, <2>1, <2>3 DEF OvOK
<1>10. \A i \in Overlays : OwedOK(i)'
  <2>. TAKE i \in Overlays
  <2>1. OwedOK(i)
    BY DEF Inv
  <2>2. CASE i \in owed
    <3>1. i \in owed' /\ life'[ov[i].inst] = life[ov[i].inst]
      BY <1>3, <1>4, <1>5, <2>2
    <3>. QED
      BY <1>1, <2>1, <2>2, <3>1 DEF OwedOK, Hooked
  <2>3. CASE i \notin owed /\ Hooked(i) /\ ov[i].inst = o
    <3>1. i \in owed' /\ calls[i] = 0 /\ life'[o] = "wrapper"
      BY <1>3, <1>7, <2>1, <2>3 DEF OwedOK
    <3>. QED
      BY <1>1, <1>7, <2>3, <3>1 DEF OwedOK, Hooked
  <2>4. CASE i \notin owed /\ ~(Hooked(i) /\ ov[i].inst = o)
    <3>1. i \notin owed'
      BY <1>3, <2>4
    <3>. QED
      BY <1>1, <2>1, <2>4, <3>1 DEF OwedOK
  <2>. QED
    BY <2>2, <2>3, <2>4
<1>11. \A p \in Objects : LifeOK(p)'
  <2>. TAKE p \in Objects
  <2>1. LifeOK(p) /\ owed \subseteq owed'
    BY <1>3 DEF Inv
  <2>2. CASE p = o
    BY <1>1, <1>6, <1>8, <2>1, <2>2 DEF LifeOK
  <2>3. CASE p # o
    BY <1>1, <1>5, <2>1, <2>3 DEF LifeOK
  <2>. QED
    BY <2>2, <2>3
<1>12. Shapes'
  BY <1>1, <1>3 DEF Inv, Shapes, Lives
<1>. QED
  BY <1>1, <1>9, <1>10, <1>11, <1>12, LayersKept DEF Inv

\* An object that is on its way to its destructor.
LEMMA MovesOn ==
    ASSUME Inv, NEW o \in Objects, NEW next \in {"destructor", "gone"},
           life[o] # "wrapper", owed' = owed, UNCHANGED <<ov, snap, fault, layers, stash, calls>>,
           life' = [life EXCEPT ![o] = next],
           vptr' \in [Objects -> Overlays \cup {ClassVTable}],
           \A p \in Objects : p # o => vptr'[p] = vptr[p],
           life[o] = "alive" => \A i \in owed : ov[i].inst # o
    PROVE  Inv'
<1>1. life'[o] = next /\ \A p \in Objects : p # o => life'[p] = life[p]
  BY DEF Inv, Shapes
<1>2. \A i \in Overlays : OvOK(i)'
  <2>. TAKE i \in Overlays
  <2>1. OvOK(i)
    BY DEF Inv
  <2>2. ov[i] # NoOverlay => ov[i].inst \in Objects
    BY <2>1 DEF OvOK, MadeOK
  <2>. QED
    BY <1>1, <2>1, <2>2 DEF OvOK
<1>3. \A i \in Overlays : OwedOK(i)'
  <2>. TAKE i \in Overlays
  <2>1. OwedOK(i) /\ OvOK(i)
    BY DEF Inv
  <2>2. ov[i] # NoOverlay => ov[i].inst \in Objects
    BY <2>1 DEF OvOK, MadeOK
  <2>3. CASE i \in owed /\ ov[i].inst = o
    BY <1>1, <2>1, <2>3 DEF OwedOK
  <2>4. CASE i \in owed /\ ov[i].inst # o
    <3>1. life'[ov[i].inst] = life[ov[i].inst]
      BY <1>1, <2>1, <2>2, <2>4 DEF OwedOK
    <3>. QED
      BY <2>1, <2>4, <3>1 DEF OwedOK, Hooked
  <2>5. CASE i \notin owed
    BY <2>1, <2>5 DEF OwedOK
  <2>. QED
    BY <2>3, <2>4, <2>5
<1>4. \A p \in Objects : LifeOK(p)'
  BY <1>1 DEF Inv, LifeOK
<1>5. Shapes'
  BY DEF Inv, Shapes, Lives
<1>. QED
  BY <1>2, <1>3, <1>4, <1>5, LayersKept DEF Inv

\* No overlay is owed a callback of an object that is alive.
LEMMA NotOwedAlive ==
    ASSUME Inv, NEW o \in Objects, life[o] = "alive", NEW i \in owed PROVE ov[i].inst # o
BY DEF Inv, Shapes, OwedOK

\* An explicit destructor call.
LEMMA InPlaceInv ==
    ASSUME Inv, NEW o \in Objects, DestroyInPlace(o) PROVE Inv'
BY MovesOn, NotOwedAlive DEF DestroyInPlace, Inv, Shapes

\* The destructor runs.
LEMMA RunDestructorInv ==
    ASSUME Inv, NEW o \in Objects, RunDestructor(o) PROVE Inv'
<1>1. vptr' \in [Objects -> Overlays \cup {ClassVTable}] /\ \A p \in Objects : p # o => vptr'[p] = vptr[p]
  BY DEF RunDestructor, Inv, Shapes
<1>. QED
  BY <1>1, MovesOn DEF RunDestructor

\* The hook calls the destructor it captured, which is the class's.
LEMMA LeaveInv ==
    ASSUME Inv, NEW o \in Objects, LeaveCallback(o) PROVE Inv'
<1>1. life[o] = "callback" /\ snap[o] = ClassWord(kDeletingDtorSlot)
  BY DEF LeaveCallback, Inv, LifeOK
<1>2. ClassWord(kDeletingDtorSlot) # Null /\ ClassWord(kDeletingDtorSlot) # Wrapper
  BY DEF ClassWord, Null, Wrapper
<1>3. /\ life' = [life EXCEPT ![o] = "destructor"] /\ fault' = fault
      /\ UNCHANGED <<vptr, ov, snap, layers, stash, owed, calls>>
  BY <1>1, <1>2 DEF LeaveCallback
<1>. QED
  BY <1>1, <1>3, MovesOn DEF Inv, Shapes

\* The hook finds its own overlay, captures the destructor of the class and
\* calls the callback, for the first time.
LEMMA EnterInv ==
    ASSUME Inv, NEW o \in Objects, NEW i, i = vptr[o], EnterWrapper(o) PROVE Inv'
<1>1. life[o] = "wrapper" /\ UNCHANGED <<vptr, layers, stash, owed>>
  BY DEF EnterWrapper
<1>2. /\ Len(layers[o]) # 0 /\ i = TopOf(layers[o]) /\ i \in owed
      /\ i \in Overlays /\ i # ClassVTable /\ ov[i].state \in LiveStates /\ ov[i].inst = o
      /\ MadeOK(ov[i]) /\ BlockOK(ov[i], i, stash[i]) /\ ov[i] # NoOverlay
  <2>1. LifeOK(o)
    BY DEF Inv
  <2>2. Len(layers[o]) # 0 /\ i = TopOf(layers[o]) /\ i \in owed
    BY <1>1, <2>1 DEF LifeOK
  <2>3. /\ i \in Overlays /\ i # ClassVTable /\ ov[i].state \in LiveStates /\ ov[i].inst = o
        /\ MadeOK(ov[i]) /\ BlockOK(ov[i], i, stash[i])
    BY <1>1, <2>2, Table
  <2>4. ov[i] # NoOverlay
    BY <2>3, Made DEF LiveStates
  <2>. QED
    BY <2>2, <2>3, <2>4
<1>3. Hooked(i) /\ calls[i] = 0
  BY <1>1, <1>2 DEF Inv, OwedOK
<1>4. Word(o, HiddenSlot)[2] = i
  <2>1. Word(o, HiddenSlot) = SelfWord(i)
    BY <1>2 DEF Word, BlockOK
  <2>. QED
    BY <2>1 DEF SelfWord
<1>5. Readable(o)
  BY <1>2 DEF Readable, LiveStates
<1>6. /\ snap' = [snap EXCEPT ![o] = ov[i].orig_dtor]
      /\ ov' = [ov EXCEPT ![i].dtor_fired = TRUE]
      /\ calls' = [calls EXCEPT ![i] = IF ov[i].cleanup THEN Min({calls[i] + 1, MaxCalls}) ELSE calls[i]]
      /\ life' = [life EXCEPT ![o] = "callback"]
      /\ fault' = fault
  BY <1>4, <1>5 DEF EnterWrapper
<1>7. ov[i].cleanup /\ ov[i].state = "installed" /\ ov[i].orig_dtor = ClassWord(kDeletingDtorSlot)
  BY <1>2, <1>3 DEF Hooked, MadeOK
<1>8. calls' = [calls EXCEPT ![i] = 1]
  <2>1. Min({calls[i] + 1, MaxCalls}) = 1
    <3>1. {calls[i] + 1, MaxCalls} = {1, 2}
      BY <1>3 DEF MaxCalls
    <3>2. \A x \in {1, 2} : (\A y \in {1, 2} : x <= y) <=> x = 1
      OBVIOUS
    <3>. QED
      BY <3>1, <3>2 DEF Min
  <2>. QED
    BY <1>6, <1>7, <2>1
<1>9. DOMAIN ov = Overlays /\ ov[i] = [x \in Fields |-> ov[i][x]]
  BY <1>2 DEF Inv, Shapes, MadeOK
<1>10. /\ \A j \in Overlays : j # i => ov'[j] = ov[j]
       /\ ov' = [j \in Overlays |-> ov'[j]] /\ DOMAIN ov' = Overlays
  BY <1>2, <1>6, <1>9
<1>11. ov'[i] = [x \in Fields |-> ov'[i][x]] /\ ov'[i].dtor_fired = TRUE
  BY <1>2, <1>6, <1>9 DEF Fields
<1>12. /\ ov'[i].original_vptr = ov[i].original_vptr /\ ov'[i].inst = ov[i].inst
       /\ ov'[i].n_extra = ov[i].n_extra /\ ov'[i].orig_dtor = ov[i].orig_dtor
       /\ ov'[i].hook = ov[i].hook /\ ov'[i].block = ov[i].block
       /\ ov'[i].cleanup = ov[i].cleanup /\ ov'[i].state = ov[i].state
  BY <1>2, <1>6, <1>9 DEF Fields
<1>13. /\ life'[o] = "callback" /\ \A p \in Objects : p # o => life'[p] = life[p]
       /\ snap'[o] = ClassWord(kDeletingDtorSlot) /\ \A p \in Objects : p # o => snap'[p] = snap[p]
       /\ calls'[i] = 1 /\ \A j \in Overlays : j # i => calls'[j] = calls[j]
  BY <1>2, <1>6, <1>7, <1>8 DEF Inv, Shapes
<1>14. ov'[i] # NoOverlay
  BY <1>11 DEF Fields, NoOverlay
<1>15. (\A p \in Objects : LayersOK(p)') /\ (\A j \in Overlays : Covered(j)')
  <2>1. \A m \in 1 .. Len(layers[o]) : layers[o][m].overlay = i =>
          \A s \in 0 .. ClassOf[o].slots - 1 :
            WordOK(layers[o], m, ov'[i].block, ov'[i].state = "installed" /\ ov'[i].cleanup, s)
    BY <1>12, Installs DEF LayerOK
  <2>. QED
    BY <1>1, <1>2, <1>10, <1>12, <1>14, <2>1, Rewritten
<1>16. OvOK(i)'
  <2>1. MadeOK(ov'[i])
    BY <1>2, <1>7, <1>11, <1>12 DEF MadeOK
  <2>2. BlockOK(ov'[i], i, stash'[i])
    BY <1>1, <1>2, <1>12 DEF BlockOK
  <2>. QED
    BY <1>2, <1>12, <1>13, <2>1, <2>2 DEF OvOK
<1>17. \A j \in Overlays : OvOK(j)'
  <2>. TAKE j \in Overlays
  <2>1. CASE j # i
    <3>1. ov'[j] = ov[j] /\ stash'[j] = stash[j] /\ OvOK(j)
      BY <1>1, <1>10, <2>1 DEF Inv
    <3>2. ov[j] # NoOverlay => ov[j].inst \in Objects
      BY <3>1 DEF OvOK, MadeOK
    <3>. QED
      BY <1>13, <3>1, <3>2 DEF OvOK
  <2>. QED
    BY <1>16, <2>1
<1>18. \A j \in Overlays : OwedOK(j)'
  <2>. TAKE j \in Overlays
  <2>1. CASE j = i
    BY <1>1, <1>2, <1>12, <1>13, <1>14, <2>1 DEF OwedOK
  <2>2. CASE j # i
    <3>1. ov'[j] = ov[j] /\ OwedOK(j) /\ OvOK(j) /\ calls'[j] = calls[j]
      BY <1>10, <1>13, <2>2 DEF Inv
    <3>2. j \in owed => ov[j] # NoOverlay /\ ov[j].inst \in Objects /\ ov[j].inst # o
      BY <1>1, <1>2, <2>2, <3>1 DEF OwedOK, OvOK, MadeOK
    <3>3. j \in owed => life'[ov[j].inst] = life[ov[j].inst]
      BY <1>13, <3>2
    <3>. QED
      BY <1>1, <3>1, <3>2, <3>3 DEF OwedOK, Hooked
  <2>. QED
    BY <2>1, <2>2
<1>19. \A p \in Objects : LifeOK(p)'
  BY <1>1, <1>13 DEF Inv, LifeOK
<1>20. Shapes'
  <2>1. calls' \in [Overlays -> 0 .. MaxCalls]
    <3>1. 1 \in 0 .. MaxCalls
      BY DEF MaxCalls
    <3>. QED
      BY <1>8, <3>1 DEF Inv, Shapes
  <2>. QED
    BY <1>1, <1>6, <1>10, <2>1 DEF Inv, Shapes, Lives
<1>. QED
  BY <1>15, <1>17, <1>18, <1>19, <1>20 DEF Inv

\* An overlay is given up: it is the newest of its object, whose table is the
\* one below from then on, unless the object is on its way out.
LEMMA DestroyInv ==
    ASSUME ~AnyOrder, Inv, NEW i \in Overlays, DestroyVTableOverlay(i), NEW o, o = ov[i].inst
    PROVE  Inv'
<1>. DEFINE depth == Len(layers[o])
            below == SubSeq(layers[o], 1, depth - 1)
<1>1. /\ ov[i].state = "installed" /\ ov[i].state \in LiveStates
      /\ life[o] = "alive" \/ ov[i].dtor_fired
      /\ ov[i].dtor_fired \/ Last(layers[o]).overlay = i
      /\ layers' = [layers EXCEPT ![o] = RemoveAt(layers[o], Layer(o, i))]
      /\ ov' = [ov EXCEPT ![i].state = "freed", ![i].block = <<>>]
      /\ UNCHANGED <<life, snap, stash, owed, calls>>
  BY DEF DestroyVTableOverlay, LiveStates
<1>2. MadeOK(ov[i]) /\ o \in Objects /\ ov[i] # NoOverlay
  BY <1>1, Installed, Made
<1>3. /\ depth \in Nat /\ depth # 0 /\ layers[o][depth].overlay = i
      /\ layers[o] \in Seq(Install) /\ DOMAIN layers[o] = 1 .. depth
  <2>1. CASE ov[i].dtor_fired
    <3>1. ov[i].hook
      BY <1>1, <1>2, <2>1 DEF MadeOK
    <3>. QED
      BY <1>1, <1>2, <3>1, HookOnTop, Installs
  <2>2. CASE ~ov[i].dtor_fired
    <3>1. \E k \in 1 .. depth : TRUE
      BY <1>1, Installed
    <3>. QED
      BY <1>1, <1>2, <2>2, <3>1, Installs DEF Last
  <2>. QED
    BY <2>1, <2>2
<1>4. Layer(o, i) = depth
  <2>1. \A k \in 1 .. depth : layers[o][k].overlay = i => k = depth
    BY <1>2, <1>3 DEF Inv, LayersOK
  <2>2. depth \in DOMAIN layers[o]
    BY <1>3
  <2>. QED
    BY <1>3, <2>1, <2>2 DEF Layer
<1>5. /\ below \in Seq(Install) /\ Len(below) = depth - 1
      /\ \A k \in 1 .. depth - 1 : below[k] = layers[o][k]
  <2>1. \A k \in 1 .. depth - 1 : layers[o][k] \in Install
    BY <1>3, ElementOfSeq
  <2>2. 1 \in Int /\ depth - 1 \in Int
    BY <1>3
  <2>. HIDE DEF depth
  <2>3. /\ SubSeq(layers[o], 1, depth - 1) \in Seq(Install)
        /\ Len(SubSeq(layers[o], 1, depth - 1)) = IF 1 <= depth - 1 THEN depth - 1 - 1 + 1 ELSE 0
        /\ \A k \in 1 .. depth - 1 - 1 + 1 :
             SubSeq(layers[o], 1, depth - 1)[k] = layers[o][1 + k - 1]
    BY <2>1, <2>2, SubSeqProperties
  <2>4. \A k \in 1 .. depth - 1 : k \in 1 .. depth - 1 - 1 + 1 /\ 1 + k - 1 = k
    BY <1>3
  <2>. QED
    BY <1>3, <2>3, <2>4
<1>6. RemoveAt(layers[o], Layer(o, i)) = below
  <2>1. SubSeq(layers[o], depth + 1, depth) = <<>>
    BY <1>3, SubSeqEmpty
  <2>2. below \o <<>> = below
    BY <1>5
  <2>. QED
    BY <1>4, <2>1, <2>2 DEF RemoveAt
<1>7. layers'[o] = below /\ \A p \in Objects : p # o => layers'[p] = layers[p]
  BY <1>1, <1>2, <1>6 DEF Inv, Shapes
<1>. HIDE DEF below, depth
<1>8. DOMAIN ov = Overlays /\ ov[i] = [x \in Fields |-> ov[i][x]]
  BY <1>2 DEF Inv, Shapes, MadeOK
<1>9. /\ \A j \in Overlays : j # i => ov'[j] = ov[j]
      /\ ov' = [j \in Overlays |-> ov'[j]] /\ DOMAIN ov' = Overlays
  BY <1>1, <1>8
<1>10. ov'[i].state = "freed" /\ ov'[i] = [x \in Fields |-> ov'[i][x]]
  BY <1>1, <1>8 DEF Fields
<1>11. /\ ov'[i].original_vptr = ov[i].original_vptr /\ ov'[i].inst = ov[i].inst
       /\ ov'[i].n_extra = ov[i].n_extra /\ ov'[i].orig_dtor = ov[i].orig_dtor
       /\ ov'[i].hook = ov[i].hook /\ ov'[i].dtor_fired = ov[i].dtor_fired
       /\ ov'[i].cleanup = ov[i].cleanup
  BY <1>1, <1>8 DEF Fields
<1>12. ov'[i] # NoOverlay
  BY <1>10 DEF Fields, NoOverlay
<1>13. life[o] # "wrapper" /\ (life[o] = "alive" => ~ov[i].dtor_fired)
  BY <1>1, <1>2 DEF Inv, OvOK
<1>14. /\ fault' = fault
       /\ vptr' = IF ov[i].dtor_fired THEN vptr ELSE [vptr EXCEPT ![o] = ov[i].original_vptr]
  BY <1>1, <1>13 DEF DestroyVTableOverlay, RestoresVPtr
<1>15. /\ vptr' \in [Objects -> Overlays \cup {ClassVTable}]
       /\ \A p \in Objects : p # o => vptr'[p] = vptr[p]
       /\ life[o] = "alive" => vptr'[o] = ov[i].original_vptr
  BY <1>2, <1>13, <1>14 DEF Inv, Shapes, MadeOK
<1>16. ov[i].original_vptr = TopOf(below)
  <2>1. LayerOK(o, layers[o], depth, ov[i])
    BY <1>2, <1>3, Installs DEF depth
  <2>. QED
    BY <1>3, <1>5, <2>1 DEF LayerOK, TopOf
<1>17. \A p \in Objects : \A k \in 1 .. Len(layers'[p]) :
         /\ k \in 1 .. Len(layers[p]) /\ layers'[p][k] = layers[p][k]
         /\ layers[p][k].overlay # i /\ ov'[layers[p][k].overlay] = ov[layers[p][k].overlay]
  <2>. TAKE p \in Objects
  <2>. TAKE k \in 1 .. Len(layers'[p])
  <2>1. CASE p = o
    <3>1. k \in 1 .. depth - 1 /\ k \in 1 .. depth /\ k # depth /\ depth \in 1 .. depth
      BY <1>3, <1>5, <1>7, <2>1
    <3>2. layers[o][k].overlay # i
      BY <1>3, <3>1, <1>2 DEF Inv, LayersOK, depth
    <3>3. layers[o][k].overlay \in Overlays
      BY <1>2, <3>1, Installs DEF depth
    <3>. QED
      BY <1>5, <1>7, <1>9, <2>1, <3>1, <3>2, <3>3 DEF depth
  <2>2. CASE p # o
    <3>1. layers'[p] = layers[p]
      BY <1>7, <2>2
    <3>2. layers[p][k].overlay \in Overlays /\ ov[layers[p][k].overlay].inst = p
      BY <3>1, Installs DEF LayerOK
    <3>. QED
      BY <1>9, <2>2, <3>1, <3>2
  <2>. QED
    BY <2>1, <2>2
<1>18. \A p \in Objects : Len(layers'[p]) \in Nat /\ Len(layers'[p]) <= Len(layers[p])
  BY <1>3, <1>5, <1>7, Installs DEF depth
<1>19. ASSUME NEW p \in Objects PROVE LayersOK(p)'
  <2>1. ASSUME NEW k \in 1 .. Len(layers'[p])
        PROVE  LayerOK(p, layers'[p], k, ov'[layers'[p][k].overlay])
    <3>1. LayerOK(p, layers[p], k, ov[layers[p][k].overlay]) /\ k \in Nat /\ Len(layers[p]) \in Nat
      BY <1>17, Installs
    <3>2. \A m \in 1 .. k : layers'[p][m] = layers[p][m]
      BY <1>17, <1>18
    <3>3. ASSUME NEW block, NEW hooked, NEW s, WordOK(layers[p], k, block, hooked, s)
          PROVE  WordOK(layers'[p], k, block, hooked, s)
      BY <3>1, <3>2, <3>3, SameWord
    <3>4. k # 1 => layers'[p][k - 1] = layers[p][k - 1]
      BY <3>1, <3>2
    <3>5. k < Len(layers'[p]) => k < Len(layers[p])
      BY <1>18, <3>1
    <3>6. layers'[p][k] = layers[p][k] /\ ov'[layers'[p][k].overlay] = ov[layers[p][k].overlay]
      BY <1>17
    <3>. QED
      BY <3>1, <3>3, <3>4, <3>5, <3>6 DEF LayerOK
  <2>2. \A k, m \in 1 .. Len(layers'[p]) : layers'[p][k].overlay = layers'[p][m].overlay => k = m
    BY <1>17 DEF Inv, LayersOK
  <2>. QED
    BY <2>1, <2>2 DEF LayersOK
<1>20. ASSUME NEW j \in Overlays PROVE Covered(j)'
  <2>. SUFFICES ASSUME ov'[j].state \in LiveStates
                PROVE  \E k \in 1 .. Len(layers'[ov'[j].inst]) : layers'[ov'[j].inst][k].overlay = j
    BY DEF Covered
  <2>1. j # i /\ ov'[j] = ov[j]
    BY <1>9, <1>10 DEF LiveStates
  <2>2. PICK k \in 1 .. Len(layers[ov[j].inst]) : layers[ov[j].inst][k].overlay = j
    BY <2>1, Installed
  <2>3. CASE ov[j].inst = o
    <3>1. k # depth
      BY <1>3, <2>1, <2>2, <2>3
    <3>2. k \in 1 .. depth - 1
      BY <1>3, <2>2, <2>3, <3>1 DEF depth
    <3>. QED
      BY <1>5, <1>7, <2>1, <2>2, <2>3, <3>2
  <2>4. CASE ov[j].inst # o
    <3>1. ov[j].inst \in Objects
      BY <2>1, Installed
    <3>. QED
      BY <1>7, <2>1, <2>2, <2>4, <3>1
  <2>. QED
    BY <2>3, <2>4
<1>21. ASSUME NEW j \in Overlays PROVE OvOK(j)'
  <2>1. CASE j = i
    <3>1. MadeOK(ov'[i])
      BY <1>2, <1>10, <1>11 DEF MadeOK, LiveStates
    <3>2. ov'[i].state \notin LiveStates
      BY <1>10 DEF LiveStates
    <3>3. ov[i].dtor_fired => life[ov[i].inst] \in {"callback", "destructor", "gone"}
      BY <1>2 DEF Inv, OvOK
    <3>. QED
      BY <1>1, <1>11, <2>1, <3>1, <3>2, <3>3 DEF OvOK
  <2>2. CASE j # i
    BY <1>1, <1>9, <2>2 DEF Inv, OvOK
  <2>. QED
    BY <2>1, <2>2
<1>22. ASSUME NEW j \in Overlays PROVE OwedOK(j)'
  <2>1. OwedOK(j) /\ OvOK(j)
    BY DEF Inv
  <2>2. CASE j = i
    BY <1>1, <1>11, <1>12, <1>13, <2>1, <2>2 DEF OwedOK
  <2>3. CASE j # i /\ ov[j].inst = o
    BY <1>1, <1>9, <1>13, <2>1, <2>3 DEF OwedOK
  <2>4. CASE j # i /\ ov[j].inst # o
    <3>1. ov'[j] = ov[j]
      BY <1>9, <2>4
    <3>2. j \in owed => layers'[ov[j].inst] = layers[ov[j].inst]
      BY <1>7, <2>1, <2>4 DEF OwedOK, OvOK, MadeOK
    <3>. QED
      BY <1>1, <2>1, <3>1, <3>2 DEF OwedOK, Hooked
  <2>. QED
    BY <2>2, <2>3, <2>4
<1>23. ASSUME NEW p \in Objects PROVE LifeOK(p)'
  <2>1. CASE p = o
    BY <1>1, <1>7, <1>13, <1>15, <1>16, <2>1 DEF Inv, LifeOK
  <2>2. CASE p # o
    BY <1>1, <1>7, <1>15, <2>2 DEF Inv, LifeOK
  <2>. QED
    BY <2>1, <2>2
<1>24. Shapes'
  <2>1. layers' \in [Objects -> Seq(Install)]
    BY <1>1, <1>5, <1>6 DEF Inv, Shapes
  <2>. QED
    BY <1>1, <1>9, <1>14, <1>15, <2>1 DEF Inv, Shapes
<1>. QED
  BY <1>19, <1>20, <1>21, <1>22, <1>23, <1>24 DEF Inv

\* Every step of the clients and of their objects keeps the invariant.
LEMMA InvStep == ASSUME ~Restack, ~AnyOrder PROVE Inv /\ [Next]_vars => Inv'
<1>. SUFFICES ASSUME Inv, [Next]_vars PROVE Inv'
  OBVIOUS
<1>1. ASSUME NEW o \in Objects, NEW i \in Overlays, NEW fns \in Requests,
             NEW n \in 0 .. MaxExtra, NEW hook \in BOOLEAN, MakeVTableOverlay(o, i, fns, n, hook)
      PROVE  Inv'
  BY <1>1, MakeInv DEF MakeVTableOverlay
<1>2. ASSUME NEW i \in Overlays, WireHook(i) PROVE Inv'
  BY <1>2, WireInv
<1>3. ASSUME NEW i \in Overlays, PublishHook(i) PROVE Inv'
  BY <1>3, PublishInv
<1>4. ASSUME NEW o \in Objects, NEW k \in 0 .. MaxExtra - 1, NEW d \in Fns, StoreExtra(o, k, d)
      PROVE  Inv'
  BY <1>4, StoreInv
<1>5. ASSUME NEW o \in Objects, Delete(o) PROVE Inv'
  BY <1>5, DeleteInv
<1>6. ASSUME NEW o \in Objects, DestroyInPlace(o) PROVE Inv'
  BY <1>6, InPlaceInv
<1>7. ASSUME NEW o \in Objects, EnterWrapper(o) PROVE Inv'
  BY <1>7, EnterInv
<1>8. ASSUME NEW o \in Objects, LeaveCallback(o) PROVE Inv'
  BY <1>8, LeaveInv
<1>9. ASSUME NEW o \in Objects, RunDestructor(o) PROVE Inv'
  BY <1>9, RunDestructorInv
<1>10. ASSUME NEW i \in Overlays, DestroyVTableOverlay(i) PROVE Inv'
  BY <1>10, DestroyInv
<1>11. CASE UNCHANGED vars
  BY <1>11 DEF vars, Inv, Shapes, OvOK, Covered, OwedOK, LayersOK, LifeOK, Hooked
<1>. QED
  BY <1>1, <1>2, <1>3, <1>4, <1>5, <1>6, <1>7, <1>8, <1>9, <1>10, <1>11 DEF Next

-----------------------------------------------------------------------------
(* What the invariant says of calls *)

\* A set of naturals that is not empty has a least member.
LEMMA Least == ASSUME NEW S \in SUBSET Nat, S # {} PROVE \E x \in S : \A y \in S : x <= y
<1>1. IsWellFoundedOn({ss \in Nat \X Nat : ss[1] < ss[2]}, Nat)
  BY NatLessThanWellFounded DEF OpToRel
<1>2. PICK x \in S : \A y \in S : <<y, x>> \notin {ss \in Nat \X Nat : ss[1] < ss[2]}
  BY <1>1, WFMin
<1>3. ASSUME NEW y \in S PROVE x <= y
  <2>1. <<y, x>> \in Nat \X Nat /\ <<y, x>>[1] = y /\ <<y, x>>[2] = x
    OBVIOUS
  <2>2. ~(y < x)
    BY <1>2, <2>1
  <2>. QED
    BY <2>2
<1>. QED
  BY <1>3

\* The newest of the layers S.
LEMMA Newest ==
    ASSUME NEW n \in Nat, NEW S \in SUBSET (1 .. n), S # {}
    PROVE  Max(S) \in S /\ \A x \in S : x <= Max(S)
<1>. DEFINE gaps == {n - x : x \in S}
<1>1. gaps \in SUBSET Nat /\ gaps # {}
  <2>1. \A x \in S : x \in Int /\ 1 <= x /\ x <= n
    OBVIOUS
  <2>2. \A x \in S : n - x \in Nat
    BY <2>1
  <2>. QED
    BY <2>2
<1>. HIDE DEF gaps
<1>2. PICK g \in gaps : \A h \in gaps : g <= h
  BY <1>1, Least
<1>. USE DEF gaps
<1>3. PICK m \in S : g = n - m
  OBVIOUS
<1>4. \A x \in S : x <= m
  <2>. TAKE x \in S
  <2>1. n - x \in gaps /\ m \in 1 .. n /\ x \in 1 .. n
    OBVIOUS
  <2>2. n - m <= n - x
    BY <1>2, <1>3, <2>1
  <2>. QED
    BY <2>1, <2>2
<1>5. \E x \in S : \A y \in S : x >= y
  <2>1. \A y \in S : m >= y
    BY <1>4
  <2>. QED
    BY <2>1
<1>6. Max(S) \in S /\ \A y \in S : Max(S) >= y
  BY <1>5 DEF Max
<1>. QED
  BY <1>6

\* A call on a live object runs what the installs in force say.
LEMMA Dispatches == Inv => DispatchExact
<1>. SUFFICES ASSUME Inv, NEW o \in Objects, life[o] = "alive"
              PROVE  /\ Readable(o)
                     /\ \A s \in 0 .. ClassOf[o].slots - 1 : Dispatched(o, s) = {Expected(o, s)}
  BY DEF DispatchExact
<1>. DEFINE depth == Len(layers[o])
            r == ov[layers[o][depth].overlay]
<1>1. Readable(o)
  BY Table DEF Readable, LiveStates
<1>2. depth \in Nat /\ DOMAIN layers[o] = 1 .. depth
  BY Installs
<1>3. ASSUME NEW s \in 0 .. ClassOf[o].slots - 1, depth = 0
      PROVE  Word(o, s) = ClassWord(s) /\ Expected(o, s) = ClassWord(s)
  <2>1. Word(o, s) = ClassWord(s)
    BY <1>3, Table DEF Word
  <2>2. DOMAIN layers[o] = {}
    BY <1>2, <1>3
  <2>. QED
    BY <2>1, <2>2 DEF Expected
<1>4. ASSUME depth # 0
      PROVE  /\ LayerOK(o, layers[o], depth, r) /\ depth \in 1 .. depth
             /\ vptr[o] = layers[o][depth].overlay /\ vptr[o] # ClassVTable
             /\ ~(ClassOf[o].vbases > 0) /\ ~(ClassOf[o].polybases > 1)
  <2>1. depth \in 1 .. depth
    BY <1>2, <1>4
  <2>2. LayerOK(o, layers[o], depth, r)
    BY <2>1, Installs
  <2>. QED
    BY <1>4, <2>1, <2>2, Table DEF LayerOK, Accepts, hasComplexVTableLayout
<1>5. ASSUME depth # 0
      PROVE  (\E k \in DOMAIN layers[o] : Hooked(layers[o][k].overlay))
               <=> r.state = "installed" /\ r.cleanup
  <2>1. ASSUME NEW k \in 1 .. depth, Hooked(layers[o][k].overlay) PROVE k = depth
    <3>1. LayerOK(o, layers[o], k, ov[layers[o][k].overlay]) /\ layers[o][k].overlay \in Overlays
      BY Installs
    <3>2. MadeOK(ov[layers[o][k].overlay])
      BY <3>1, Made DEF LayerOK, LiveStates
    <3>3. ov[layers[o][k].overlay].hook
      BY <2>1, <3>2 DEF MadeOK, Hooked
    <3>. QED
      BY <1>2, <3>1, <3>3 DEF LayerOK
  <2>2. Hooked(layers[o][depth].overlay) <=> r.state = "installed" /\ r.cleanup
    BY DEF Hooked
  <2>. QED
    BY <1>2, <1>4, <1>5, <2>1, <2>2
<1>6. ASSUME NEW s \in 0 .. ClassOf[o].slots - 1, depth # 0
      PROVE  Word(o, s) = Expected(o, s)
  <2>. DEFINE replaced == {k \in DOMAIN layers[o] : s \in DOMAIN layers[o][k].fns}
  <2>1. Word(o, s) = r.block[s] /\ WordOK(layers[o], depth, r.block, r.state = "installed" /\ r.cleanup, s)
    BY <1>4, <1>6 DEF Word, LayerOK
  <2>2. Expected(o, s) =
          IF replaced # {} THEN FnWord(layers[o][Max(replaced)].fns[s])
          ELSE IF s = kDeletingDtorSlot /\ (r.state = "installed" /\ r.cleanup) THEN Wrapper
          ELSE ClassWord(s)
    BY <1>5, <1>6 DEF Expected
  <2>3. CASE replaced # {}
    <3>1. replaced \in SUBSET (1 .. depth)
      BY <1>2
    <3>. HIDE DEF replaced, depth, r
    <3>2. Max(replaced) \in replaced /\ \A x \in replaced : x <= Max(replaced)
      BY <1>2, <2>3, <3>1, Newest
    <3>3. /\ Max(replaced) \in 1 .. depth /\ s \in DOMAIN layers[o][Max(replaced)].fns
          /\ \A q \in Max(replaced) + 1 .. depth : s \notin DOMAIN layers[o][q].fns
      <4>1. Max(replaced) \in 1 .. depth /\ s \in DOMAIN layers[o][Max(replaced)].fns
        BY <3>2, <1>2 DEF replaced
      <4>2. ASSUME NEW q \in Max(replaced) + 1 .. depth PROVE s \notin DOMAIN layers[o][q].fns
        <5>1. q \in 1 .. depth /\ ~(q <= Max(replaced))
          BY <1>2, <4>1
        <5>2. q \notin replaced
          BY <3>2, <5>1
        <5>. QED
          BY <1>2, <5>1, <5>2 DEF replaced
      <4>. QED
        BY <4>1, <4>2
    <3>. QED
      BY <2>1, <2>2, <2>3, <3>3 DEF WordOK
  <2>4. CASE replaced = {}
    <3>1. \A m \in 1 .. depth : s \notin DOMAIN layers[o][m].fns
      BY <1>2, <2>4
    <3>. QED
      BY <2>1, <2>2, <2>4, <3>1 DEF WordOK
  <2>. QED
    BY <2>3, <2>4
<1>7. ASSUME NEW s \in 0 .. ClassOf[o].slots - 1 PROVE Dispatched(o, s) = {Expected(o, s)}
  <2>1. CASE depth = 0
    BY <1>3, <2>1 DEF Dispatched
  <2>2. CASE depth # 0
    BY <1>4, <1>6, <2>2 DEF Dispatched
  <2>. QED
    BY <2>1, <2>2
<1>. QED
  BY <1>1, <1>7

\* The blocks are intact and no step was faulty.
LEMMA Tables == Inv => TablesSafe
<1>. SUFFICES ASSUME Inv PROVE TablesSafe
  OBVIOUS
<1>1. ASSUME NEW i \in Overlays
      PROVE  /\ ov[i].state \in {"unused", "published", "wired", "installed", "freed"}
             /\ ov[i].state \in LiveStates => BlockOK(ov[i], i, stash[i])
  <2>1. ov[i].state \in LiveStates => BlockOK(ov[i], i, stash[i])
    BY Installed
  <2>2. ov[i].state # "unused" => ov[i].state \in LiveStates \cup {"freed"}
    BY Made DEF MadeOK
  <2>. QED
    BY <2>1, <2>2 DEF LiveStates
<1>2. TypeOK
  BY <1>1 DEF TypeOK, Inv, Shapes, Lives, BlockOK, LiveStates
<1>3. PrefixIntact
  BY <1>1 DEF PrefixIntact, BlockOK, LiveStates
<1>. QED
  BY <1>2, <1>3 DEF TablesSafe, MemorySafe, Inv, Shapes

\* The hook reaches the destructor of the class, and each callback ran once.
LEMMA Hooks == Inv => HooksExact
<1>. SUFFICES ASSUME Inv PROVE HooksExact
  OBVIOUS
<1>1. HookReachesDestructor
  BY DEF HookReachesDestructor, Inv, LifeOK
<1>2. CleanupExact
  BY DEF CleanupExact, Inv, OwedOK
<1>. QED
  BY <1>1, <1>2 DEF HooksExact

-----------------------------------------------------------------------------
\* Clients that do not overlay an object whose destructor is hooked and that
\* destroy the overlays of an object newest first, with objects deleted or
\* destroyed at any point, a hook being wired included: no block is written
\* out of bounds or used after it was freed, and what lies in front of its
\* address point stays (applyVTableOverlay, ~VTableOverlay, Wrapper).
THEOREM OverlayTables == ASSUME ~Restack, ~AnyOrder PROVE Spec => []TablesSafe
<1>1. Init => Inv
  BY InvInit
<1>2. Inv /\ [Next]_vars => Inv'
  BY InvStep
<1>3. Inv => TablesSafe
  BY Tables
<1>. QED
  BY <1>1, <1>2, <1>3, PTL DEF Spec

\* For the same clients: a call on a live object runs the newest replacement
\* of its slot, the hook where one is in force, and the function of the class
\* otherwise (MakeVTableOverlay, DestroyVTableOverlay).
THEOREM OverlayDispatch == ASSUME ~Restack, ~AnyOrder PROVE Spec => []DispatchExact
<1>1. Init => Inv
  BY InvInit
<1>2. Inv /\ [Next]_vars => Inv'
  BY InvStep
<1>3. Inv => DispatchExact
  BY Dispatches
<1>. QED
  BY <1>1, <1>2, <1>3, PTL DEF Spec

\* For the same clients: a deletion runs the callback of the overlay whose hook
\* was in force exactly once, no other callback, and the hook hands over to
\* the destructor of the class (VTableOverlayDtorHost::Wrapper).
THEOREM OverlayHooks == ASSUME ~Restack, ~AnyOrder PROVE Spec => []HooksExact
<1>1. Init => Inv
  BY InvInit
<1>2. Inv /\ [Next]_vars => Inv'
  BY InvStep
<1>3. Inv => HooksExact
  BY Hooks
<1>. QED
  BY <1>1, <1>2, <1>3, PTL DEF Spec
=============================================================================
