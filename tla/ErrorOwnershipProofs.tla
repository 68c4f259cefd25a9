------------------------ MODULE ErrorOwnershipProofs ------------------------
(***************************************************************************)
(* Proofs about the ownership of errors, for any sets of threads, handles  *)
(* and errors.                                                             *)
(*                                                                         *)
(* That a count equals the number of owners is kept by each retain and     *)
(* release only while the slice it touches is alive, and an owner's slice  *)
(* is; so SliceInv relates the owners of a slice to the threads that wait  *)
(* to wrap or to delete it.  The halves of one call find what its first    *)
(* half left because no other call touches the same object (UseInv).       *)
(***************************************************************************)
EXTENDS ErrorOwnership, FiniteSetTheorems, TLAPS

\* A call in progress has its objects to itself, as the library demands.
UseInv ==
  /\ \A t \in Threads : pend[t].do = "wrap" =>
       /\ pend[t].kind \in ResultKinds /\ pend[t].ref \in Slices /\ pend[t].dying = Ok
       /\ obj[pend[t].h].kind = "none"
  /\ \A t \in Threads : pend[t].do = "assign" =>
       /\ pend[t].h # pend[t].from
       /\ obj[pend[t].h].kind = "Captured" /\ obj[pend[t].from].kind = "Captured"
  /\ \A t, u \in Threads : t # u =>
       /\ Target(t) \cap (Target(u) \cup Source(u)) = {}
       /\ pend[t].moves => Source(t) \cap (Target(u) \cup Source(u)) = {}

\* The threads that are about to wrap slice s for the first time, or to delete it.
Waiting(s) == {t \in Threads : \/ pend[t].dying = s
                               \/ pend[t].do = "wrap" /\ pend[t].ref = s}

\* A live slice is counted by the number of its owners, and one without
\* owners waits for the one thread that wraps or deletes it.
SliceOK(s) ==
  /\ heap[s] = "live" => Refcount[s] = Cardinality(Owners(s))
  /\ heap[s] # "live" => Owners(s) = {}
  /\ heap[s] = "fresh" => Refcount[s] = 0
  /\ heap[s] = "live" /\ Owners(s) = {} => Waiting(s) # {}
  /\ Waiting(s) # {} => heap[s] = "live" /\ Owners(s) = {}
  /\ \A t, u \in Waiting(s) : t = u

\* So is every slice.
SliceInv == \A s \in Slices : SliceOK(s)

\* An error nobody has looked at is in a Result that says so, or on its way
\* into one.
Carries(h, e) == obj[h].kind \in ResultKinds /\ obj[h].ref = e /\ obj[h].unchecked

\* An error nobody has looked at has such a Result, unless the process ended.
CarriedInv ==
  \A e \in made \ seen :
    \/ aborted
    \/ \E h \in Handles : Carries(h, e)
    \/ \E t \in Threads : pend[t].do = "wrap" /\ pend[t].ref = e

\* The inductive invariant.
Inv == TypeOK /\ UseInv /\ SliceInv /\ ~wild /\ CarriedInv

-----------------------------------------------------------------------------
(* What the steps do to the objects, as far as ownership goes. *)

\* Object g still owns what it owned.
SameOwner(g) == obj'[g].kind = obj[g].kind /\ obj'[g].ref = obj[g].ref

\* h becomes another owner of what o owns.
Shares(h, o) ==
  /\ h # o /\ Free(h) /\ obj[o].kind # "none" /\ Readable(o)
  /\ obj'[h].kind # "none" /\ obj'[h].ref = obj[o].ref
  /\ \A g \in Handles \ {h} : SameOwner(g)
  /\ RetainErrorRef(obj[o].ref) /\ UNCHANGED <<heap, pend>>

\* h becomes the owner of what o owns, o owns nothing.
Takes(h, o) ==
  /\ h # o /\ Free(h) /\ obj[o].kind # "none" /\ Writable(o)
  /\ obj'[h].kind # "none" /\ obj'[h].ref = obj[o].ref
  /\ obj'[o].kind = obj[o].kind /\ obj'[o].ref = Ok
  /\ \A g \in Handles \ {h, o} : SameOwner(g)
  /\ UNCHANGED <<heap, Refcount, pend, wild>>

\* h becomes an object that owns no slice.
Makes(h) ==
  /\ Free(h) /\ obj'[h].kind # "none" /\ obj'[h].ref \notin Slices
  /\ \A g \in Handles \ {h} : SameOwner(g)
  /\ UNCHANGED <<heap, Refcount, pend, wild>>

\* Nothing changes hands.
Looks == (\A g \in Handles : SameOwner(g)) /\ UNCHANGED <<heap, Refcount, pend, wild>>

\* h is destroyed, its share given back.
Ends(t, h) ==
  /\ Idle(t) /\ Writable(h) /\ obj[h].kind # "none" /\ obj'[h].kind = "none"
  /\ \A g \in Handles \ {h} : SameOwner(g)
  /\ ReleaseErrorRef(t, obj[h].ref, Nothing) /\ UNCHANGED heap

\* An object has the type of objects, a pending call that of pending calls.
LEMMA Types ==
  ASSUME TypeOK
  PROVE  /\ \A h \in Handles : obj[h] \in Objects
         /\ \A t \in Threads : pend[t] \in Pendings
BY DEF TypeOK

\* The values the steps write.
LEMMA ObjectValues ==
  ASSUME TypeOK, NEW o \in Handles, NEW r \in Refs, NEW k \in ResultKinds
  PROVE  /\ CapturedOf(r) \in Objects /\ NoObject \in Objects /\ ResultOf(r, k) \in Objects
         /\ [kind |-> k, ref |-> Ok, unchecked |-> TRUE, hasValue |-> k = "Result"] \in Objects
         /\ Checked(obj[o]) \in Objects /\ Naming(obj[o], r) \in Objects
         /\ Checked(Naming(obj[o], r)) \in Objects
<1>1. obj[o] \in Objects /\ Ok \in Refs
  BY DEF TypeOK, Refs
<1>2. Naming(obj[o], r) \in Objects
  BY <1>1 DEF Objects, Naming
<1>3. Checked(Naming(obj[o], r)) \in Objects
  BY <1>2 DEF Objects, Checked
<1>4. Checked(obj[o]) \in Objects
  BY <1>1 DEF Objects, Checked
<1>5. CapturedOf(r) \in Objects /\ NoObject \in Objects
  BY <1>1 DEF Objects, CapturedOf, NoObject, Kinds
<1>6. ResultOf(r, k) \in Objects
  BY DEF Objects, ResultOf, Kinds
<1>7. [kind |-> k, ref |-> Ok, unchecked |-> TRUE, hasValue |-> k = "Result"] \in Objects
  BY <1>1 DEF Objects, Kinds
<1>. QED
  BY <1>2, <1>3, <1>4, <1>5, <1>6, <1>7

\* Checking an object leaves its kind and its Ref, naming another Ref its kind.
LEMMA CheckedNaming ==
  ASSUME NEW x \in Objects, NEW r \in Refs
  PROVE  /\ Checked(x).kind = x.kind /\ Checked(x).ref = x.ref /\ Checked(x).unchecked = FALSE
         /\ Naming(x, r).kind = x.kind /\ Naming(x, r).ref = r
         /\ Naming(x, r).unchecked = x.unchecked
         /\ Checked(Naming(x, r)).kind = x.kind /\ Checked(Naming(x, r)).ref = r
         /\ Checked(Naming(x, r)).unchecked = FALSE
<1>1. Naming(x, r) \in Objects
  BY DEF Objects, Naming
<1>2. \A y \in Objects : /\ Checked(y).kind = y.kind /\ Checked(y).ref = y.ref
                         /\ Checked(y).unchecked = FALSE
  BY DEF Objects, Checked
<1>3. Naming(x, r).kind = x.kind /\ Naming(x, r).ref = r /\ Naming(x, r).unchecked = x.unchecked
  BY DEF Objects, Naming
<1>. QED
  BY <1>1, <1>2, <1>3

\* A moved-from object keeps its kind and names no error.
LEMMA Emptied ==
  ASSUME NEW x \in Objects
  PROVE  /\ Naming(x, Ok).kind = x.kind /\ Naming(x, Ok).ref = Ok
         /\ Checked(Naming(x, Ok)).kind = x.kind /\ Checked(Naming(x, Ok)).ref = Ok
<1>1. Ok \in Refs
  BY DEF Refs
<1>2. Naming(x, Ok) \in Objects /\ Naming(x, Ok).kind = x.kind /\ Naming(x, Ok).ref = Ok
  BY <1>1 DEF Objects, Naming
<1>3. \A y \in Objects : Checked(y).kind = y.kind /\ Checked(y).ref = y.ref
  BY DEF Objects, Checked
<1>. QED
  BY <1>2, <1>3

\* Every step is one of these, or one half of a call that has two.
LEMMA StepKinds ==
  ASSUME TypeOK, [Next]_vars
  PROVE  \/ \E h, o \in Handles : Shares(h, o) \/ Takes(h, o)
         \/ \E h \in Handles : Makes(h)
         \/ Looks
         \/ \E t \in Threads, h \in Handles : Ends(t, h)
         \/ \E t \in Threads, s \in Slices, h \in Handles, k \in ResultKinds : makeError(t, s, h, k)
         \/ \E t \in Threads : WrapResult(t) \/ FinishAssign(t) \/ DeleteSlice(t)
         \/ \E t \in Threads, h, o \in Handles, moves \in BOOLEAN : AssignCaptured(t, h, o, moves)
<1>1. ASSUME NEW t \in Threads, NEW h \in Handles, NEW k \in ResultKinds, NEW e \in Inlines,
             MakeInlineResult(t, e, h, k)
      PROVE  Makes(h)
  BY <1>1, ErrorsAssumption DEF MakeInlineResult, Makes, SameOwner, ResultOf, TypeOK, ResultKinds
<1>2. ASSUME NEW t \in Threads, NEW h \in Handles, NEW k \in ResultKinds, MakeValueResult(t, h, k)
      PROVE  Makes(h)
  BY <1>2, ErrorsAssumption DEF MakeValueResult, Makes, SameOwner, TypeOK, ResultKinds, Errors
<1>3. ASSUME NEW t \in Threads, NEW h \in Handles, NEW o \in Handles, CopyResult(t, h, o)
      PROVE  Shares(h, o)
  <2>1. h # o /\ obj[o].kind # "none" /\ Free(h) /\ Readable(o)
    BY <1>3 DEF CopyResult, Free, Holds, ResultKinds
  <2>2. /\ obj'[h] = obj[o] /\ SameOwner(o)
        /\ \A g \in Handles \ {h, o} : obj'[g] = obj[g]
    <3>1. obj' = [obj EXCEPT ![h] = obj[o], ![o] = Checked(obj[o])]
      BY <1>3 DEF CopyResult
    <3>2. obj[o] \in Objects /\ Ok \in Refs
      BY Types DEF Refs
    <3>3. /\ Checked(obj[o]).kind = obj[o].kind /\ Checked(obj[o]).ref = obj[o].ref
      BY <3>2, CheckedNaming
    <3>4. /\ obj'[h] = obj[o] /\ obj'[o] = Checked(obj[o])
          /\ \A g \in Handles \ {h, o} : obj'[g] = obj[g]
      BY <2>1, <3>1 DEF TypeOK
    <3>. QED
      BY <3>3, <3>4 DEF SameOwner
  <2>. QED
    BY <1>3, <2>1, <2>2 DEF CopyResult, Shares, SameOwner
<1>4. ASSUME NEW t \in Threads, NEW h \in Handles, NEW o \in Handles, MoveResult(t, h, o)
      PROVE  Takes(h, o)
  <2>1. h # o /\ obj[o].kind # "none" /\ Free(h) /\ Writable(o)
    BY <1>4 DEF MoveResult, Free, Holds, ResultKinds
  <2>2. /\ obj'[h] = obj[o] /\ obj'[o].kind = obj[o].kind /\ obj'[o].ref = Ok
        /\ \A g \in Handles \ {h, o} : obj'[g] = obj[g]
    <3>1. obj' = [obj EXCEPT ![h] = obj[o], ![o] = Checked(Naming(obj[o], Ok))]
      BY <1>4 DEF MoveResult
    <3>2. obj[o] \in Objects /\ Ok \in Refs
      BY Types DEF Refs
    <3>3. /\ Checked(Naming(obj[o], Ok)).kind = obj[o].kind /\ Checked(Naming(obj[o], Ok)).ref = Ok
      BY <3>2, Emptied
    <3>4. /\ obj'[h] = obj[o] /\ obj'[o] = Checked(Naming(obj[o], Ok))
          /\ \A g \in Handles \ {h, o} : obj'[g] = obj[g]
      BY <2>1, <3>1 DEF TypeOK
    <3>. QED
      BY <3>3, <3>4
  <2>. QED
    BY <1>4, <2>1, <2>2 DEF MoveResult, Takes, SameOwner
<1>5. ASSUME NEW t \in Threads, NEW h \in Handles, NEW o \in Handles, ResultFromError(t, h, o)
      PROVE  Shares(h, o)
  <2>1. h # o /\ obj[o].kind # "none" /\ Free(h) /\ Readable(o)
    BY <1>5 DEF ResultFromError, Free, Holds, ResultKinds
  <2>2. /\ obj'[h] = ResultOf(obj[o].ref, obj[o].kind) /\ SameOwner(o)
        /\ \A g \in Handles \ {h, o} : obj'[g] = obj[g]
    <3>1. obj' = [obj EXCEPT ![h] = ResultOf(obj[o].ref, obj[o].kind), ![o] = Checked(obj[o])]
      BY <1>5 DEF ResultFromError
    <3>2. obj[o] \in Objects /\ Ok \in Refs
      BY Types DEF Refs
    <3>3. /\ Checked(obj[o]).kind = obj[o].kind /\ Checked(obj[o]).ref = obj[o].ref
      BY <3>2, CheckedNaming
    <3>4. /\ obj'[h] = ResultOf(obj[o].ref, obj[o].kind) /\ obj'[o] = Checked(obj[o])
          /\ \A g \in Handles \ {h, o} : obj'[g] = obj[g]
      BY <2>1, <3>1 DEF TypeOK
    <3>. QED
      BY <3>3, <3>4 DEF SameOwner
  <2>. QED
    <3>1. obj'[h].kind # "none" /\ obj'[h].ref = obj[o].ref
      BY <2>1, <2>2 DEF ResultOf
    <3>. QED
      BY <1>5, <2>1, <2>2, <3>1 DEF ResultFromError, Shares, SameOwner
<1>6. ASSUME NEW t \in Threads, NEW h \in Handles, CheckResult(t, h) \/ ValueResult(t, h)
      PROVE  Looks
  <2>1. obj' = [obj EXCEPT ![h] = Checked(obj[h])] /\ obj[h] \in Objects /\ Ok \in Refs
    BY <1>6, Types DEF CheckResult, ValueResult, Refs
  <2>2. SameOwner(h) /\ \A g \in Handles \ {h} : obj'[g] = obj[g]
    <3>1. Checked(obj[h]).kind = obj[h].kind /\ Checked(obj[h]).ref = obj[h].ref
      BY <2>1, CheckedNaming
    <3>2. obj'[h] = Checked(obj[h]) /\ \A g \in Handles \ {h} : obj'[g] = obj[g]
      BY <2>1 DEF TypeOK
    <3>. QED
      BY <3>1, <3>2 DEF SameOwner
  <2>. QED
    BY <1>6, <2>2 DEF CheckResult, ValueResult, Looks, SameOwner
<1>7. ASSUME NEW t \in Threads, NEW h \in Handles, DestroyResult(t, h)
      PROVE  Looks \/ Ends(t, h)
  BY <1>7 DEF DestroyResult, Looks, Ends, SameOwner, Holds, ResultKinds, NoObject, TypeOK
<1>8. ASSUME NEW t \in Threads, NEW h \in Handles, NEW o \in Handles, ShareResult(t, h, o)
      PROVE  Shares(h, o)
  <2>1. h # o /\ obj[o].kind # "none" /\ Free(h) /\ Readable(o)
    BY <1>8 DEF ShareResult, Free, Holds, ResultKinds
  <2>2. /\ obj'[h] = CapturedOf(obj[o].ref) /\ SameOwner(o)
        /\ \A g \in Handles \ {h, o} : obj'[g] = obj[g]
    <3>1. obj' = [obj EXCEPT ![h] = CapturedOf(obj[o].ref), ![o] = Checked(obj[o])]
      BY <1>8 DEF ShareResult
    <3>2. obj[o] \in Objects /\ Ok \in Refs
      BY Types DEF Refs
    <3>3. /\ Checked(obj[o]).kind = obj[o].kind /\ Checked(obj[o]).ref = obj[o].ref
      BY <3>2, CheckedNaming
    <3>4. /\ obj'[h] = CapturedOf(obj[o].ref) /\ obj'[o] = Checked(obj[o])
          /\ \A g \in Handles \ {h, o} : obj'[g] = obj[g]
      BY <2>1, <3>1 DEF TypeOK
    <3>. QED
      BY <3>3, <3>4 DEF SameOwner
  <2>. QED
    <3>1. obj'[h].kind # "none" /\ obj'[h].ref = obj[o].ref
      BY <2>1, <2>2 DEF CapturedOf
    <3>. QED
      BY <1>8, <2>1, <2>2, <3>1 DEF ShareResult, Shares, SameOwner
<1>9. ASSUME NEW t \in Threads, NEW h \in Handles, NEW o \in Handles, CopyCaptured(t, h, o)
      PROVE  Shares(h, o)
  BY <1>9 DEF CopyCaptured, Shares, SameOwner, Free, Holds, TypeOK
<1>10. ASSUME NEW t \in Threads, NEW h \in Handles, NEW o \in Handles, MoveCaptured(t, h, o)
       PROVE  Takes(h, o)
  <2>1. h # o /\ obj[o].kind # "none" /\ Free(h) /\ Writable(o)
    BY <1>10 DEF MoveCaptured, Free, Holds
  <2>2. /\ obj'[h] = obj[o] /\ obj'[o].kind = obj[o].kind /\ obj'[o].ref = Ok
        /\ \A g \in Handles \ {h, o} : obj'[g] = obj[g]
    <3>1. obj' = [obj EXCEPT ![h] = obj[o], ![o] = Naming(obj[o], Ok)]
      BY <1>10 DEF MoveCaptured
    <3>2. obj[o] \in Objects /\ Ok \in Refs
      BY Types DEF Refs
    <3>3. /\ Naming(obj[o], Ok).kind = obj[o].kind /\ Naming(obj[o], Ok).ref = Ok
      BY <3>2, Emptied
    <3>4. /\ obj'[h] = obj[o] /\ obj'[o] = Naming(obj[o], Ok)
          /\ \A g \in Handles \ {h, o} : obj'[g] = obj[g]
      BY <2>1, <3>1 DEF TypeOK
    <3>. QED
      BY <3>3, <3>4
  <2>. QED
    BY <1>10, <2>1, <2>2 DEF MoveCaptured, Takes, SameOwner
<1>11. ASSUME NEW t \in Threads, NEW h \in Handles, DestroyCaptured(t, h)
       PROVE  Ends(t, h)
  BY <1>11 DEF DestroyCaptured, Ends, SameOwner, Holds, NoObject, TypeOK
<1>12. CASE UNCHANGED vars
  BY <1>12 DEF vars, Looks, SameOwner
<1>13. ASSUME NEW t \in Threads, ResultStep(t)
       PROVE  \/ \E h, o \in Handles : Shares(h, o) \/ Takes(h, o)
              \/ \E h \in Handles : Makes(h) \/ Ends(t, h)
              \/ Looks \/ WrapResult(t)
              \/ \E s \in Slices, h \in Handles, k \in ResultKinds : makeError(t, s, h, k)
  BY <1>1, <1>2, <1>3, <1>4, <1>5, <1>6, <1>7, <1>13 DEF ResultStep
<1>14. ASSUME NEW t \in Threads, CapturedStep(t)
       PROVE  \/ \E h, o \in Handles : Shares(h, o) \/ Takes(h, o)
              \/ \E h \in Handles : Ends(t, h)
              \/ FinishAssign(t)
              \/ \E h, o \in Handles, moves \in BOOLEAN : AssignCaptured(t, h, o, moves)
  BY <1>8, <1>9, <1>10, <1>11, <1>14 DEF CapturedStep
<1>. QED
  BY <1>12, <1>13, <1>14 DEF Next

-----------------------------------------------------------------------------
(* Types and counts. *)

\* A thread without a pending call.
LEMMA NothingType == Nothing \in Pendings /\ Nothing.do = "idle" /\ Nothing.dying = Ok
<1>1. (CHOOSE h \in Handles : TRUE) \in Handles
  BY HandlesAssumption
<1>. QED
  BY <1>1 DEF Nothing, Pendings, Kinds, ResultKinds, Refs

\* Only a live slice has owners, and its count is positive.
LEMMA OwnedIsLive ==
  ASSUME TypeOK, SliceInv, NEW s \in Slices, NEW h \in Owners(s)
  PROVE  /\ heap[s] = "live" /\ Waiting(s) = {} /\ h \in Handles
         /\ IsFiniteSet(Owners(s)) /\ Refcount[s] = Cardinality(Owners(s)) /\ Refcount[s] > 0
<1>1. IsFiniteSet(Owners(s)) /\ h \in Handles
  BY HandlesAssumption, FS_Subset DEF Owners
<1>2. heap[s] = "live" /\ Waiting(s) = {} /\ Refcount[s] = Cardinality(Owners(s))
  BY DEF SliceInv, SliceOK
<1>3. Cardinality(Owners(s)) # 0 /\ Cardinality(Owners(s)) \in Nat
  BY <1>1, FS_EmptySet, FS_CardinalityType
<1>. QED
  BY <1>1, <1>2, <1>3

\* An object that nobody is writing owns the slice it names.
LEMMA ReadableOwns ==
  ASSUME NEW h \in Handles, obj[h].kind # "none", Readable(h) \/ Writable(h),
         obj[h].ref \in Slices
  PROVE  h \in Owners(obj[h].ref)
BY DEF Readable, Writable, Target, Owners

\* Retaining keeps the types of the counts.
LEMMA RetainTypes ==
  ASSUME TypeOK, NEW ref, RetainErrorRef(ref)
  PROVE  Refcount' \in [Slices -> Nat] /\ wild' \in BOOLEAN
<1>1. CASE ref \in Slices
  <2>1. Refcount[ref] + 1 \in Nat
    BY <1>1 DEF TypeOK
  <2>. QED
    BY <1>1, <2>1 DEF RetainErrorRef, TypeOK
<1>2. CASE ref \notin Slices
  BY <1>2 DEF RetainErrorRef, TypeOK
<1>. QED
  BY <1>1, <1>2

\* So does releasing, by an owner.
LEMMA ReleaseTypes ==
  ASSUME TypeOK, NEW t \in Threads, NEW ref, NEW then \in Pendings,
         ref \in Slices => Refcount[ref] > 0, ReleaseErrorRef(t, ref, then)
  PROVE  /\ Refcount' \in [Slices -> Nat] /\ wild' \in BOOLEAN
         /\ pend' \in [Threads -> Pendings]
<1>1. CASE ref \in Slices
  <2>1. Refcount[ref] - 1 \in Nat
    BY <1>1 DEF TypeOK
  <2>2. [then EXCEPT !.dying = IF Refcount[ref] = 1 THEN ref ELSE Ok] \in Pendings
    BY <1>1 DEF Pendings
  <2>. QED
    BY <1>1, <2>1, <2>2 DEF ReleaseErrorRef, TypeOK
<1>2. CASE ref \notin Slices
  BY <1>2 DEF ReleaseErrorRef, TypeOK
<1>. QED
  BY <1>1, <1>2

\* What the step leaves of the pending calls.
LEMMA ReleasePends ==
  ASSUME TypeOK, NEW t \in Threads, NEW ref, NEW then \in Pendings,
         ReleaseErrorRef(t, ref, then)
  PROVE  /\ \A u \in Threads \ {t} : pend'[u] = pend[u]
         /\ pend'[t].do = then.do /\ pend'[t].h = then.h /\ pend'[t].from = then.from
         /\ pend'[t].ref = then.ref /\ pend'[t].moves = then.moves
         /\ pend'[t].dying = IF ref \in Slices /\ Refcount[ref] = 1 THEN ref
                             ELSE IF ref \in Slices THEN Ok ELSE then.dying
<1>1. CASE ref \in Slices
  <2>1. /\ \A u \in Threads \ {t} : pend'[u] = pend[u]
        /\ pend'[t] = [then EXCEPT !.dying = IF Refcount[ref] = 1 THEN ref ELSE Ok]
    BY <1>1 DEF ReleaseErrorRef, TypeOK
  <2>. QED
    BY <1>1, <2>1 DEF Pendings
<1>2. CASE ref \notin Slices
  BY <1>2 DEF ReleaseErrorRef, TypeOK
<1>. QED
  BY <1>1, <1>2

\* An update of one or two objects.
LEMMA ObjectUpdate ==
  ASSUME TypeOK, NEW h \in Handles, NEW a \in Objects, NEW o \in Handles, NEW b \in Objects
  PROVE  /\ [obj EXCEPT ![h] = a] \in [Handles -> Objects]
         /\ [obj EXCEPT ![h] = a, ![o] = b] \in [Handles -> Objects]
BY DEF TypeOK

\* Every action writes objects.
LEMMA ObjectTypes ==
  ASSUME TypeOK, UseInv, [Next]_vars
  PROVE  obj' \in [Handles -> Objects]
<1>1. /\ \A h \in Handles : obj[h] \in Objects /\ obj[h].ref \in Refs
      /\ Ok \in Refs /\ Inlines \subseteq Refs
  BY Types DEF Objects, Refs, Errors
<1>2. \A h \in Handles, a \in Objects : [obj EXCEPT ![h] = a] \in [Handles -> Objects]
  BY ObjectUpdate
<1>3. \A h, o \in Handles, a, b \in Objects :
        [obj EXCEPT ![h] = a, ![o] = b] \in [Handles -> Objects]
  BY ObjectUpdate
<1>4. ASSUME NEW t \in Threads, NEW h \in Handles, NEW k \in ResultKinds,
             \/ \E s \in Slices : makeError(t, s, h, k)
             \/ \E e \in Inlines : MakeInlineResult(t, e, h, k)
             \/ MakeValueResult(t, h, k)
      PROVE  obj' \in [Handles -> Objects]
  <2>1. CASE \E s \in Slices : makeError(t, s, h, k)
    BY <2>1 DEF makeError, TypeOK
  <2>2. CASE \E e \in Inlines : MakeInlineResult(t, e, h, k)
    <3>1. PICK e \in Inlines : MakeInlineResult(t, e, h, k)
      BY <2>2
    <3>2. e \in Refs
      BY <1>1
    <3>3. ResultOf(e, k) \in Objects
      BY <3>2, ObjectValues
    <3>. QED
      BY <1>2, <3>1, <3>3 DEF MakeInlineResult
  <2>3. CASE MakeValueResult(t, h, k)
    BY <1>1, <1>2, <2>3, ObjectValues DEF MakeValueResult
  <2>. QED
    BY <1>4, <2>1, <2>2, <2>3
<1>5. ASSUME NEW t \in Threads, NEW h \in Handles, NEW o \in Handles,
             \/ CopyResult(t, h, o) \/ MoveResult(t, h, o) \/ ResultFromError(t, h, o)
             \/ ShareResult(t, h, o) \/ CopyCaptured(t, h, o) \/ MoveCaptured(t, h, o)
      PROVE  obj' \in [Handles -> Objects]
  <2>1. \E k \in ResultKinds : TRUE
    BY DEF ResultKinds
  <2>2. CASE CopyResult(t, h, o)
    BY <1>1, <1>3, <2>1, <2>2, ObjectValues DEF CopyResult
  <2>3. CASE MoveResult(t, h, o)
    BY <1>1, <1>3, <2>1, <2>3, ObjectValues DEF MoveResult
  <2>4. CASE ResultFromError(t, h, o)
    BY <1>1, <1>3, <2>4, ObjectValues DEF ResultFromError, Holds
  <2>5. CASE ShareResult(t, h, o)
    BY <1>1, <1>3, <2>1, <2>5, ObjectValues DEF ShareResult
  <2>6. CASE CopyCaptured(t, h, o)
    BY <1>1, <1>2, <2>6 DEF CopyCaptured
  <2>7. CASE MoveCaptured(t, h, o)
    BY <1>1, <1>3, <2>1, <2>7, ObjectValues DEF MoveCaptured
  <2>. QED
    BY <1>5, <2>2, <2>3, <2>4, <2>5, <2>6, <2>7
<1>6. ASSUME NEW t \in Threads, NEW h \in Handles,
             CheckResult(t, h) \/ ValueResult(t, h) \/ DestroyResult(t, h) \/ DestroyCaptured(t, h)
      PROVE  obj' \in [Handles -> Objects]
  <2>1. obj' \in {obj, [obj EXCEPT ![h] = Checked(obj[h])], [obj EXCEPT ![h] = NoObject]}
    BY <1>6 DEF CheckResult, ValueResult, DestroyResult, DestroyCaptured
  <2>2. Checked(obj[h]) \in Objects /\ NoObject \in Objects
    BY <1>1, ObjectValues DEF ResultKinds
  <2>. QED
    BY <1>2, <2>1, <2>2 DEF TypeOK
<1>7. ASSUME NEW t \in Threads, WrapResult(t) \/ FinishAssign(t)
      PROVE  obj' \in [Handles -> Objects]
  <2>1. pend[t].h \in Handles /\ pend[t].ref \in Refs /\ pend[t].from \in Handles
    BY Types DEF Pendings
  <2>2. CASE WrapResult(t)
    <3>1. pend[t].kind \in ResultKinds
      BY <2>2 DEF WrapResult, UseInv
    <3>. QED
      BY <1>2, <2>1, <2>2, <3>1, ObjectValues DEF WrapResult
  <2>3. CASE FinishAssign(t)
    <3>1. /\ Naming(obj[pend[t].h], obj[pend[t].from].ref) \in Objects
          /\ Naming(obj[pend[t].from], Ok) \in Objects
      BY <1>1, <2>1, ObjectValues DEF ResultKinds
    <3>. QED
      BY <1>2, <1>3, <2>1, <2>3, <3>1 DEF FinishAssign
  <2>. QED
    BY <1>7, <2>2, <2>3
<1>8. ASSUME NEW t \in Threads, DeleteSlice(t) \/ \E h, o \in Handles, moves \in BOOLEAN :
                                                     AssignCaptured(t, h, o, moves)
      PROVE  obj' \in [Handles -> Objects]
  BY <1>8 DEF DeleteSlice, AssignCaptured, TypeOK
<1>9. CASE UNCHANGED vars
  BY <1>9 DEF vars, TypeOK
<1>. QED
  BY <1>4, <1>5, <1>6, <1>7, <1>8, <1>9 DEF Next, ResultStep, CapturedStep

\* The calls that have a second half.
LEMMA CallTypes ==
  /\ \A k \in ResultKinds, h \in Handles, s \in Slices : Wrapping(k, h, s) \in Pendings
  /\ \A h, o \in Handles, moves \in BOOLEAN : Assigning(h, o, moves) \in Pendings
BY DEF Wrapping, Assigning, Pendings, Kinds, Refs, Errors

\* Counts and pending calls keep their types: a count is lowered by an owner.
LEMMA CountTypes ==
  ASSUME TypeOK, SliceInv, [Next]_vars
  PROVE  /\ Refcount' \in [Slices -> Nat] /\ wild' \in BOOLEAN
         /\ pend' \in [Threads -> Pendings] /\ heap' \in [Slices -> {"fresh", "live", "freed"}]
<1>1. ASSUME NEW h \in Handles, obj[h].kind # "none", Writable(h), obj[h].ref \in Slices
      PROVE  Refcount[obj[h].ref] > 0
  <2>1. h \in Owners(obj[h].ref)
    BY <1>1, ReadableOwns
  <2>. QED
    BY <1>1, <2>1, OwnedIsLive
<1>2. CASE \E h, o \in Handles : Shares(h, o) \/ Takes(h, o)
  <2>1. PICK h \in Handles, o \in Handles : Shares(h, o) \/ Takes(h, o)
    BY <1>2
  <2>2. CASE Shares(h, o)
    BY <2>2, RetainTypes DEF Shares, TypeOK
  <2>3. CASE Takes(h, o)
    BY <2>3 DEF Takes, TypeOK
  <2>. QED
    BY <2>1, <2>2, <2>3
<1>3. CASE Looks \/ \E h \in Handles : Makes(h)
  BY <1>3 DEF Looks, Makes, TypeOK
<1>4. ASSUME NEW t \in Threads, NEW h \in Handles, Ends(t, h)
      PROVE  /\ Refcount' \in [Slices -> Nat] /\ wild' \in BOOLEAN
             /\ pend' \in [Threads -> Pendings] /\ heap' = heap
  BY <1>1, <1>4, NothingType, ReleaseTypes DEF Ends
<1>5. ASSUME NEW t \in Threads, NEW s \in Slices, NEW h \in Handles, NEW k \in ResultKinds,
             makeError(t, s, h, k)
      PROVE  /\ Refcount' \in [Slices -> Nat] /\ wild' \in BOOLEAN
             /\ pend' \in [Threads -> Pendings] /\ heap' \in [Slices -> {"fresh", "live", "freed"}]
  <2>1. Wrapping(k, h, s) \in Pendings
    BY CallTypes
  <2>. QED
    BY <1>5, <2>1 DEF makeError, TypeOK
<1>6. ASSUME NEW t \in Threads, WrapResult(t) \/ FinishAssign(t)
      PROVE  /\ Refcount' \in [Slices -> Nat] /\ wild' \in BOOLEAN
             /\ pend' \in [Threads -> Pendings] /\ heap' = heap
  <2>1. pend' \in [Threads -> Pendings] /\ heap' = heap
    BY <1>6, NothingType DEF WrapResult, FinishAssign, TypeOK
  <2>2. \/ UNCHANGED <<Refcount, wild>> \/ RetainErrorRef(pend[t].ref)
        \/ RetainErrorRef(obj[pend[t].from].ref)
    BY <1>6 DEF WrapResult, FinishAssign
  <2>3. Refcount' \in [Slices -> Nat] /\ wild' \in BOOLEAN
    BY <2>2, RetainTypes DEF TypeOK
  <2>. QED
    BY <2>1, <2>3
<1>7. ASSUME NEW t \in Threads, DeleteSlice(t)
      PROVE  /\ Refcount' \in [Slices -> Nat] /\ wild' \in BOOLEAN
             /\ pend' \in [Threads -> Pendings] /\ heap' \in [Slices -> {"fresh", "live", "freed"}]
  <2>1. Refcount' = Refcount /\ wild' \in BOOLEAN
    BY <1>7 DEF DeleteSlice, TypeOK
  <2>2. [pend[t] EXCEPT !.dying = Ok] \in Pendings
    BY Types DEF Pendings
  <2>3. pend' = [pend EXCEPT ![t] = [pend[t] EXCEPT !.dying = Ok]]
    BY <1>7 DEF DeleteSlice, TypeOK
  <2>4. heap' \in [Slices -> {"fresh", "live", "freed"}]
    BY <1>7 DEF DeleteSlice, TypeOK
  <2>. QED
    BY <2>1, <2>2, <2>3, <2>4 DEF TypeOK
<1>8. ASSUME NEW t \in Threads, NEW h \in Handles, NEW o \in Handles, NEW moves \in BOOLEAN,
             AssignCaptured(t, h, o, moves)
      PROVE  /\ Refcount' \in [Slices -> Nat] /\ wild' \in BOOLEAN
             /\ pend' \in [Threads -> Pendings] /\ heap' = heap
  <2>1. Assigning(h, o, moves) \in Pendings
    BY CallTypes
  <2>2. obj[h].kind # "none" /\ Writable(h)
    BY <1>8 DEF AssignCaptured, Holds
  <2>. QED
    BY <1>1, <1>8, <2>1, <2>2, ReleaseTypes DEF AssignCaptured
<1>9. heap \in [Slices -> {"fresh", "live", "freed"}]
  BY DEF TypeOK
<1>. QED
  BY <1>2, <1>3, <1>4, <1>5, <1>6, <1>7, <1>8, <1>9, StepKinds

\* The histories hold errors only.
LEMMA HistoryTypes ==
  ASSUME TypeOK, [Next]_vars
  PROVE  /\ made' \subseteq Errors /\ seen' \subseteq Errors
         /\ badDtor' \in BOOLEAN /\ aborted' \in BOOLEAN
<1>1. \A h \in Handles : {obj[h].ref} \ {Ok} \subseteq Errors
  BY Types DEF Objects, Refs
<1>2. made \subseteq Errors /\ seen \subseteq Errors /\ badDtor \in BOOLEAN /\ aborted \in BOOLEAN
  BY DEF TypeOK
<1>3. ASSUME NEW t \in Threads, ResultStep(t)
      PROVE  /\ made' \subseteq Errors /\ seen' \subseteq Errors
             /\ badDtor' \in BOOLEAN /\ aborted' \in BOOLEAN
  <2>1. ASSUME NEW h \in Handles, NEW k \in ResultKinds,
               \/ \E s \in Slices : makeError(t, s, h, k)
               \/ \E e \in Inlines : MakeInlineResult(t, e, h, k)
               \/ MakeValueResult(t, h, k)
        PROVE  /\ made' \subseteq Errors /\ seen' \subseteq Errors
               /\ badDtor' \in BOOLEAN /\ aborted' \in BOOLEAN
    BY <1>2, <2>1 DEF makeError, MakeInlineResult, MakeValueResult, Errors
  <2>2. CASE WrapResult(t)
    BY <1>2, <2>2 DEF WrapResult
  <2>3. ASSUME NEW h \in Handles, NEW o \in Handles,
               CopyResult(t, h, o) \/ MoveResult(t, h, o) \/ ResultFromError(t, h, o)
        PROVE  /\ made' \subseteq Errors /\ seen' \subseteq Errors
               /\ badDtor' \in BOOLEAN /\ aborted' \in BOOLEAN
    BY <1>1, <1>2, <2>3 DEF CopyResult, MoveResult, ResultFromError
  <2>4. ASSUME NEW h \in Handles, CheckResult(t, h) \/ ValueResult(t, h)
        PROVE  /\ made' \subseteq Errors /\ seen' \subseteq Errors
               /\ badDtor' \in BOOLEAN /\ aborted' \in BOOLEAN
    BY <1>1, <1>2, <2>4 DEF CheckResult, ValueResult, HasError
  <2>5. ASSUME NEW h \in Handles, DestroyResult(t, h)
        PROVE  /\ made' \subseteq Errors /\ seen' \subseteq Errors
               /\ badDtor' \in BOOLEAN /\ aborted' \in BOOLEAN
    BY <1>2, <2>5 DEF DestroyResult
  <2>. QED
    BY <1>3, <2>1, <2>2, <2>3, <2>4, <2>5 DEF ResultStep
<1>4. ASSUME NEW t \in Threads, CapturedStep(t) \/ DeleteSlice(t)
      PROVE  /\ made' \subseteq Errors /\ seen' \subseteq Errors
             /\ badDtor' \in BOOLEAN /\ aborted' \in BOOLEAN
  <2>1. ASSUME NEW h \in Handles, NEW o \in Handles, ShareResult(t, h, o)
        PROVE  /\ made' \subseteq Errors /\ seen' \subseteq Errors
               /\ badDtor' \in BOOLEAN /\ aborted' \in BOOLEAN
    BY <1>1, <1>2, <2>1 DEF ShareResult
  <2>2. ASSUME NEW h \in Handles, NEW o \in Handles,
               \/ CopyCaptured(t, h, o) \/ MoveCaptured(t, h, o)
               \/ \E moves \in BOOLEAN : AssignCaptured(t, h, o, moves)
        PROVE  UNCHANGED <<made, seen, badDtor, aborted>>
    BY <2>2 DEF CopyCaptured, MoveCaptured, AssignCaptured
  <2>3. ASSUME \/ FinishAssign(t) \/ DeleteSlice(t) \/ \E h \in Handles : DestroyCaptured(t, h)
        PROVE  UNCHANGED <<made, seen, badDtor, aborted>>
    BY <2>3 DEF FinishAssign, DeleteSlice, DestroyCaptured
  <2>. QED
    BY <1>2, <1>4, <2>1, <2>2, <2>3 DEF CapturedStep
<1>5. CASE UNCHANGED vars
  BY <1>2, <1>5 DEF vars
<1>. QED
  BY <1>3, <1>4, <1>5 DEF Next

\* Every step keeps the types.
LEMMA TypeStep ==
  ASSUME Inv, [Next]_vars
  PROVE  TypeOK'
<1>1. TypeOK /\ UseInv /\ SliceInv
  BY DEF Inv
<1>. QED
  BY <1>1, ObjectTypes, CountTypes, HistoryTypes DEF TypeOK

-----------------------------------------------------------------------------
(* A call in progress keeps its objects to itself. *)

\* No call begins, and the objects of the calls in progress stay what they are.
LEMMA KeepUse ==
  ASSUME UseInv,
         \A u \in Threads :
           \/ pend'[u].do = "idle"
           \/ /\ pend'[u].do = pend[u].do /\ pend'[u].kind = pend[u].kind
              /\ pend'[u].h = pend[u].h /\ pend'[u].from = pend[u].from
              /\ pend'[u].ref = pend[u].ref /\ pend'[u].moves = pend[u].moves
              /\ pend[u].do = "wrap" => pend'[u].dying = pend[u].dying
              /\ \A g \in Target(u) \cup Source(u) : obj'[g].kind = obj[g].kind
  PROVE  UseInv'
<1>1. \A u \in Threads : /\ Target(u)' = {} \/ Target(u)' = Target(u)
                         /\ Source(u)' = {} \/ Source(u)' = Source(u)
                         /\ Source(u)' # {} => pend'[u].moves = pend[u].moves
  BY DEF Target, Source
<1>2. \A t \in Threads : pend'[t].do = "wrap" =>
        /\ pend'[t].kind \in ResultKinds /\ pend'[t].ref \in Slices /\ pend'[t].dying = Ok
        /\ obj'[pend'[t].h].kind = "none"
  BY DEF UseInv, Target
<1>3. \A t \in Threads : pend'[t].do = "assign" =>
        /\ pend'[t].h # pend'[t].from
        /\ obj'[pend'[t].h].kind = "Captured" /\ obj'[pend'[t].from].kind = "Captured"
  BY DEF UseInv, Target, Source
<1>4. \A t, u \in Threads : t # u =>
        /\ Target(t)' \cap (Target(u)' \cup Source(u)') = {}
        /\ pend'[t].moves => Source(t)' \cap (Target(u)' \cup Source(u)') = {}
  BY <1>1 DEF UseInv
<1>. QED
  BY <1>2, <1>3, <1>4 DEF UseInv

\* A step that leaves the pending calls and writes only what no call touches.
LEMMA KeepUseFree ==
  ASSUME TypeOK, UseInv,
         \A u \in Threads : pend'[u] = pend[u] \/ pend'[u].do = "idle",
         \A g \in Handles : Writable(g) \/ obj'[g].kind = obj[g].kind
  PROVE  UseInv'
<1>1. \A u \in Threads : Target(u) \cup Source(u) \subseteq Handles
  BY Types DEF Target, Source, Pendings
<1>2. \A u \in Threads : \A g \in Target(u) \cup Source(u) : obj'[g].kind = obj[g].kind
  BY <1>1 DEF Writable
<1>. QED
  BY <1>2, KeepUse

\* A call begins whose objects no other call touches.
LEMMA BeginUse ==
  ASSUME TypeOK, UseInv, NEW t \in Threads, Idle(t), obj' = obj,
         \A u \in Threads \ {t} : pend'[u] = pend[u],
         Target(t)' \cup Source(t)' \subseteq Handles,
         \A g \in Target(t)' : Writable(g), \A g \in Source(t)' : Readable(g),
         pend'[t].moves => \A g \in Source(t)' : Writable(g),
         pend'[t].do = "wrap" =>
           /\ pend'[t].kind \in ResultKinds /\ pend'[t].ref \in Slices /\ pend'[t].dying = Ok
           /\ obj[pend'[t].h].kind = "none",
         pend'[t].do = "assign" =>
           /\ pend'[t].h # pend'[t].from
           /\ obj[pend'[t].h].kind = "Captured" /\ obj[pend'[t].from].kind = "Captured"
  PROVE  UseInv'
<1>1. \A u \in Threads \ {t} : Target(u)' = Target(u) /\ Source(u)' = Source(u)
  BY DEF Target, Source
<1>2. \A u \in Threads : pend'[u].do = "wrap" =>
        /\ pend'[u].kind \in ResultKinds /\ pend'[u].ref \in Slices /\ pend'[u].dying = Ok
        /\ obj'[pend'[u].h].kind = "none"
  BY DEF UseInv
<1>3. \A u \in Threads : pend'[u].do = "assign" =>
        /\ pend'[u].h # pend'[u].from
        /\ obj'[pend'[u].h].kind = "Captured" /\ obj'[pend'[u].from].kind = "Captured"
  BY DEF UseInv
<1>4. \A u \in Threads \ {t} :
        /\ Target(t)' \cap (Target(u)' \cup Source(u)') = {}
        /\ Source(t)' \cap Target(u)' = {}
        /\ pend'[t].moves \/ pend[u].moves => Source(t)' \cap Source(u)' = {}
  BY <1>1 DEF Writable, Readable
<1>5. ASSUME NEW v \in Threads, NEW u \in Threads, v # u
      PROVE  /\ Target(v)' \cap (Target(u)' \cup Source(u)') = {}
             /\ pend'[v].moves => Source(v)' \cap (Target(u)' \cup Source(u)') = {}
  <2>1. CASE v = t
    BY <1>4, <1>5, <2>1
  <2>2. CASE u = t
    BY <1>4, <1>5, <2>2
  <2>3. CASE v # t /\ u # t
    BY <1>1, <1>5, <2>3 DEF UseInv
  <2>. QED
    BY <2>1, <2>2, <2>3
<1>. QED
  BY <1>2, <1>3, <1>5 DEF UseInv

\* A pending call's objects stay what they were when it began.
LEMMA UseStep ==
  ASSUME Inv, [Next]_vars
  PROVE  UseInv'
<1>. USE DEF Inv
<1>1. CASE \E h, o \in Handles : Shares(h, o) \/ Takes(h, o)
  BY <1>1, KeepUseFree DEF Shares, Takes, SameOwner, Free
<1>2. CASE \E h \in Handles : Makes(h)
  BY <1>2, KeepUseFree DEF Makes, SameOwner, Free
<1>3. CASE Looks
  BY <1>3, KeepUseFree DEF Looks, SameOwner
<1>4. ASSUME NEW t \in Threads, NEW h \in Handles, Ends(t, h)
      PROVE  UseInv'
  <2>1. /\ \A u \in Threads \ {t} : pend'[u] = pend[u]
        /\ pend'[t].do = "idle"
    BY <1>4, NothingType, ReleasePends DEF Ends
  <2>. QED
    BY <1>4, <2>1, KeepUseFree DEF Ends, SameOwner
<1>5. ASSUME NEW t \in Threads, NEW s \in Slices, NEW h \in Handles, NEW k \in ResultKinds,
             makeError(t, s, h, k)
      PROVE  UseInv'
  <2>1. /\ \A u \in Threads \ {t} : pend'[u] = pend[u]
        /\ pend'[t] = Wrapping(k, h, s)
        /\ Idle(t) /\ obj' = obj /\ obj[h].kind = "none" /\ Writable(h)
    BY <1>5 DEF makeError, TypeOK, Free
  <2>2. /\ pend'[t].do = "wrap" /\ pend'[t].h = h /\ pend'[t].kind = k /\ pend'[t].ref = s
        /\ pend'[t].dying = Ok /\ pend'[t].moves = FALSE
    BY <2>1 DEF Wrapping
  <2>3. Target(t)' = {h} /\ Source(t)' = {}
    BY <2>2 DEF Target, Source
  <2>. QED
    BY <2>1, <2>2, <2>3, BeginUse
<1>6. ASSUME NEW t \in Threads, WrapResult(t)
      PROVE  UseInv'
  <2>1. /\ \A u \in Threads \ {t} : pend'[u] = pend[u]
        /\ pend'[t].do = "idle" /\ Target(t) = {pend[t].h}
        /\ \A g \in Handles \ {pend[t].h} : obj'[g] = obj[g]
    BY <1>6, NothingType DEF WrapResult, TypeOK, Target
  <2>2. \A u \in Threads \ {t} : /\ pend[t].h \notin Target(u) \cup Source(u)
                                 /\ Target(u) \cup Source(u) \subseteq Handles
    BY <2>1, Types DEF UseInv, Target, Source, Pendings
  <2>. QED
    BY <2>1, <2>2, KeepUse
<1>7. ASSUME NEW t \in Threads, FinishAssign(t)
      PROVE  UseInv'
  <2>1. /\ \A u \in Threads \ {t} : pend'[u] = pend[u]
        /\ pend'[t].do = "idle"
    BY <1>7, NothingType DEF FinishAssign, TypeOK
  <2>2. /\ pend[t].h \in Handles /\ pend[t].from \in Handles
        /\ obj[pend[t].h] \in Objects /\ obj[pend[t].from] \in Objects
        /\ obj[pend[t].from].ref \in Refs
    BY Types DEF Pendings, Objects
  <2>3. /\ Naming(obj[pend[t].h], obj[pend[t].from].ref).kind = obj[pend[t].h].kind
        /\ Naming(obj[pend[t].from], Ok).kind = obj[pend[t].from].kind
    BY <2>2, CheckedNaming, Emptied
  <2>4. \A g \in Handles : obj'[g].kind = obj[g].kind
    BY <1>7, <2>2, <2>3 DEF FinishAssign, TypeOK
  <2>. QED
    BY <2>1, <2>4, KeepUseFree
<1>8. ASSUME NEW t \in Threads, DeleteSlice(t)
      PROVE  UseInv'
  <2>1. /\ \A u \in Threads \ {t} : pend'[u] = pend[u]
        /\ pend'[t] = [pend[t] EXCEPT !.dying = Ok]
        /\ pend[t] \in Pendings /\ obj' = obj
    BY <1>8, Types DEF DeleteSlice, TypeOK
  <2>2. /\ pend'[t].do = pend[t].do /\ pend'[t].kind = pend[t].kind
        /\ pend'[t].h = pend[t].h /\ pend'[t].from = pend[t].from
        /\ pend'[t].ref = pend[t].ref /\ pend'[t].moves = pend[t].moves
    BY <2>1 DEF Pendings
  <2>3. pend[t].do # "wrap"
    BY <1>8, ErrorsAssumption DEF DeleteSlice, UseInv, Errors
  <2>. QED
    BY <2>1, <2>2, <2>3, KeepUse
<1>9. ASSUME NEW t \in Threads, NEW h \in Handles, NEW o \in Handles, NEW moves \in BOOLEAN,
             AssignCaptured(t, h, o, moves)
      PROVE  UseInv'
  <2>1. /\ Assigning(h, o, moves).do = "assign" /\ Assigning(h, o, moves).h = h
        /\ Assigning(h, o, moves).from = o /\ Assigning(h, o, moves).moves = moves
    BY DEF Assigning
  <2>2. ReleaseErrorRef(t, obj[h].ref, Assigning(h, o, moves)) /\ Assigning(h, o, moves) \in Pendings
    BY <1>9, CallTypes DEF AssignCaptured
  <2>3. /\ \A u \in Threads \ {t} : pend'[u] = pend[u]
        /\ pend'[t].do = "assign" /\ pend'[t].h = h /\ pend'[t].from = o
        /\ pend'[t].moves = moves
    BY <2>1, <2>2, ReleasePends
  <2>4. Target(t)' = {h} /\ Source(t)' = {o}
    BY <2>3 DEF Target, Source
  <2>5. /\ Idle(t) /\ obj' = obj /\ h # o /\ Writable(h) /\ Readable(o)
        /\ moves => Writable(o)
        /\ obj[h].kind = "Captured" /\ obj[o].kind = "Captured"
    BY <1>9 DEF AssignCaptured, Holds, Writable, Readable
  <2>. QED
    BY <2>3, <2>4, <2>5, BeginUse
<1>. QED
  BY <1>1, <1>2, <1>3, <1>4, <1>5, <1>6, <1>7, <1>8, <1>9, StepKinds

-----------------------------------------------------------------------------
(* The life of one slice: what a step may do to its owners and its count. *)

\* A slice has finitely many owners.
LEMMA OwnersFinite == \A s : IsFiniteSet(Owners(s)) /\ Owners(s) \subseteq Handles
<1>1. \A s : Owners(s) \subseteq Handles
  BY DEF Owners
<1>. QED
  BY <1>1, HandlesAssumption, FS_Subset

\* A slice nobody touches.
LEMMA SliceKept ==
  ASSUME NEW s \in Slices, SliceOK(s), heap'[s] = heap[s], Refcount'[s] = Refcount[s],
         Owners(s)' = Owners(s), Waiting(s)' = Waiting(s)
  PROVE  SliceOK(s)'
BY DEF SliceOK

\* A slice with one owner more.
LEMMA SliceGains ==
  ASSUME NEW s \in Slices, SliceOK(s), NEW h \in Handles \ Owners(s),
         heap[s] = "live", heap'[s] = "live", Refcount'[s] = Refcount[s] + 1,
         Owners(s)' = Owners(s) \cup {h}, Waiting(s)' = {}
  PROVE  SliceOK(s)'
<1>1. Cardinality(Owners(s) \cup {h}) = Cardinality(Owners(s)) + 1
  BY OwnersFinite, FS_AddElement
<1>. QED
  BY <1>1 DEF SliceOK

\* A slice that passes from one owner to another.
LEMMA SliceSwaps ==
  ASSUME NEW s \in Slices, SliceOK(s), NEW h \in Handles \ Owners(s), NEW o \in Owners(s),
         heap'[s] = heap[s], Refcount'[s] = Refcount[s],
         Owners(s)' = (Owners(s) \ {o}) \cup {h}, Waiting(s)' = Waiting(s)
  PROVE  SliceOK(s)'
<1>1. /\ Cardinality(Owners(s) \ {o}) = Cardinality(Owners(s)) - 1
      /\ IsFiniteSet(Owners(s) \ {o}) /\ Cardinality(Owners(s)) \in Nat
  BY OwnersFinite, FS_RemoveElement, FS_CardinalityType
<1>2. Cardinality((Owners(s) \ {o}) \cup {h}) = Cardinality(Owners(s) \ {o}) + 1
  BY <1>1, FS_AddElement
<1>3. heap[s] = "live" /\ Waiting(s) = {}
  BY DEF SliceOK
<1>. QED
  BY <1>1, <1>2, <1>3 DEF SliceOK

\* A slice with one owner less; the last one deletes it.
LEMMA SliceLoses ==
  ASSUME NEW s \in Slices, SliceOK(s), NEW h \in Owners(s), NEW t \in Threads,
         heap'[s] = heap[s], Refcount'[s] = Refcount[s] - 1,
         Owners(s)' = Owners(s) \ {h}, Waiting(s)' = IF Refcount[s] = 1 THEN {t} ELSE {}
  PROVE  SliceOK(s)'
<1>1. /\ Cardinality(Owners(s) \ {h}) = Cardinality(Owners(s)) - 1
      /\ IsFiniteSet(Owners(s) \ {h})
  BY OwnersFinite, FS_RemoveElement
<1>2. heap[s] = "live" /\ Refcount[s] = Cardinality(Owners(s))
  BY DEF SliceOK
<1>3. Cardinality(Owners(s)) \in Nat
  BY OwnersFinite, FS_CardinalityType
<1>4. Cardinality(Owners(s) \ {h}) = 0 <=> Owners(s) \ {h} = {}
  BY <1>1, FS_EmptySet
<1>5. CASE Refcount[s] = 1
  <2>1. Owners(s)' = {} /\ Waiting(s)' = {t}
    BY <1>1, <1>2, <1>4, <1>5
  <2>. QED
    BY <1>1, <1>2, <2>1 DEF SliceOK
<1>6. CASE Refcount[s] # 1
  <2>1. Owners(s)' # {} /\ Waiting(s)' = {}
    BY <1>1, <1>2, <1>3, <1>4, <1>6
  <2>. QED
    BY <1>1, <1>2, <2>1 DEF SliceOK
<1>. QED
  BY <1>5, <1>6

\* Who owns what after a step that leaves the pending calls.
LEMMA SamePends ==
  ASSUME pend' = pend
  PROVE  /\ \A s : Waiting(s)' = Waiting(s)
         /\ \A s : Owners(s)' = {g \in Handles : obj'[g].kind # "none" /\ obj'[g].ref = s /\
                                  \A t \in Threads : pend[t].do = "assign" => pend[t].h # g}
BY DEF Waiting, Owners

\* A copy retains what it shares.
LEMMA SharesSlices ==
  ASSUME TypeOK, SliceInv, ~wild, NEW h \in Handles, NEW o \in Handles, Shares(h, o),
         NEW r, r = obj[o].ref
  PROVE  SliceInv' /\ ~wild'
<1>1. \A s : h \notin Owners(s)
  BY DEF Shares, Free, Owners
<1>2. \A s \in Slices \ {r} : Owners(s)' = Owners(s) /\ Refcount'[s] = Refcount[s]
  <2>1. ASSUME NEW s \in Slices \ {r}
        PROVE  Owners(s)' = Owners(s)
    BY <1>1, <2>1, SamePends DEF Shares, SameOwner, Owners
  <2>2. ASSUME NEW s \in Slices \ {r}
        PROVE  Refcount'[s] = Refcount[s]
    BY <2>2 DEF Shares, RetainErrorRef, TypeOK
  <2>. QED
    BY <2>1, <2>2
<1>3. heap' = heap /\ \A s : Waiting(s)' = Waiting(s)
  BY SamePends DEF Shares
<1>4. \A s \in Slices \ {r} : SliceOK(s)'
  BY <1>2, <1>3, SliceKept DEF SliceInv
<1>5. ASSUME r \in Slices
      PROVE  SliceOK(r)' /\ ~wild'
  <2>1. o \in Owners(r)
    BY <1>5, ReadableOwns DEF Shares
  <2>2. heap[r] = "live" /\ Waiting(r) = {}
    BY <1>5, <2>1, OwnedIsLive
  <2>3. Refcount'[r] = Refcount[r] + 1 /\ ~wild'
    BY <1>5, <2>2 DEF Shares, RetainErrorRef, TypeOK
  <2>4. Owners(r)' = Owners(r) \cup {h}
    BY SamePends DEF Shares, SameOwner, Owners, Free, Writable, Target
  <2>5. SliceOK(r)
    BY <1>5 DEF SliceInv
  <2>. QED
    BY <1>1, <1>3, <1>5, <2>2, <2>3, <2>4, <2>5, SliceGains
<1>6. ASSUME r \notin Slices
      PROVE  ~wild'
  BY <1>6 DEF Shares, RetainErrorRef
<1>. QED
  BY <1>4, <1>5, <1>6 DEF SliceInv

\* A move changes the owner and no count.
LEMMA TakesSlices ==
  ASSUME TypeOK, SliceInv, ~wild, NEW h \in Handles, NEW o \in Handles, Takes(h, o),
         NEW r, r = obj[o].ref
  PROVE  SliceInv' /\ ~wild'
<1>1. (\A s : h \notin Owners(s)) /\ Ok \notin Slices
  BY ErrorsAssumption DEF Takes, Free, Owners, Errors
<1>2. /\ heap' = heap /\ Refcount' = Refcount /\ wild' = wild
      /\ \A s : Waiting(s)' = Waiting(s)
  BY SamePends DEF Takes
<1>3. ASSUME NEW s \in Slices \ {r}
      PROVE  SliceOK(s)'
  <2>1. Owners(s)' = Owners(s)
    <3>1. o \notin Owners(s) /\ o \notin Owners(s)'
      BY <1>1 DEF Owners, Takes
    <3>2. h \notin Owners(s)'
      BY DEF Owners, Takes
    <3>3. \A g \in Handles \ {h, o} : g \in Owners(s)' <=> g \in Owners(s)
      BY DEF Owners, Takes, SameOwner
    <3>4. Owners(s) \subseteq Handles /\ Owners(s)' \subseteq Handles
      BY DEF Owners
    <3>. QED
      BY <1>1, <3>1, <3>2, <3>3, <3>4
  <2>. QED
    BY <1>2, <2>1, SliceKept DEF SliceInv
<1>4. ASSUME r \in Slices
      PROVE  SliceOK(r)'
  <2>1. o \in Owners(r)
    BY <1>4, ReadableOwns DEF Takes
  <2>2. Owners(r)' = (Owners(r) \ {o}) \cup {h}
    <3>1. o \notin Owners(r)'
      BY <1>1, <1>4 DEF Owners, Takes
    <3>2. h \in Owners(r)'
      BY DEF Owners, Takes, Free, Writable, Target
    <3>3. \A g \in Handles \ {h, o} : g \in Owners(r)' <=> g \in Owners(r)
      BY DEF Owners, Takes, SameOwner
    <3>4. Owners(r) \subseteq Handles /\ Owners(r)' \subseteq Handles
      BY DEF Owners
    <3>. QED
      BY <3>1, <3>2, <3>3, <3>4 DEF Takes
  <2>3. SliceOK(r)
    BY <1>4 DEF SliceInv
  <2>. QED
    BY <1>1, <1>2, <1>4, <2>1, <2>2, <2>3, SliceSwaps
<1>. QED
  BY <1>2, <1>3, <1>4 DEF SliceInv

\* A share given back: by a destructor, or by the first half of an assignment.
LEMMA ReleasedSlices ==
  ASSUME TypeOK, SliceInv, ~wild, NEW t \in Threads, NEW h \in Handles, NEW then \in Pendings,
         Idle(t), Writable(h), obj[h].kind # "none", then.dying = Ok, then.do # "wrap",
         ReleaseErrorRef(t, obj[h].ref, then), heap' = heap,
         \A s \in Slices : Owners(s)' = Owners(s) \ {h},
         NEW r, r = obj[h].ref
  PROVE  SliceInv' /\ ~wild'
<1>0. Ok \notin Slices
  BY ErrorsAssumption DEF Errors
<1>1. /\ \A u \in Threads \ {t} : pend'[u] = pend[u]
      /\ pend'[t].do # "wrap"
      /\ pend'[t].dying = IF r \in Slices /\ Refcount[r] = 1 THEN r ELSE Ok
  BY ReleasePends
<1>2. \A s \in Slices : t \notin Waiting(s)
  BY <1>0 DEF Waiting, Idle
<1>3. \A s \in Slices : /\ \A u \in Threads \ {t} : u \in Waiting(s)' <=> u \in Waiting(s)
                        /\ t \in Waiting(s)' <=> (s = r /\ Refcount[r] = 1)
  BY <1>0, <1>1 DEF Waiting
<1>4. \A s \in Slices : Waiting(s) \subseteq Threads /\ Waiting(s)' \subseteq Threads
  BY DEF Waiting
<1>5. ASSUME NEW s \in Slices \ {r}
      PROVE  SliceOK(s)'
  <2>1. h \notin Owners(s)
    BY DEF Owners
  <2>2. Waiting(s)' = Waiting(s)
    <3>1. s \in Slices /\ s # r
      OBVIOUS
    <3>2. t \notin Waiting(s) /\ t \notin Waiting(s)'
      BY <1>2, <1>3, <3>1
    <3>3. \A u \in Threads \ {t} : u \in Waiting(s)' <=> u \in Waiting(s)
      BY <1>3, <3>1
    <3>4. Waiting(s) \subseteq Threads /\ Waiting(s)' \subseteq Threads
      BY <1>4, <3>1
    <3>. QED
      BY <3>2, <3>3, <3>4
  <2>3. Refcount'[s] = Refcount[s]
    BY DEF ReleaseErrorRef, TypeOK
  <2>4. Owners(s)' = Owners(s) /\ heap'[s] = heap[s] /\ SliceOK(s)
    BY <2>1 DEF SliceInv
  <2>. QED
    BY <2>2, <2>3, <2>4, SliceKept
<1>6. ASSUME r \in Slices
      PROVE  SliceOK(r)' /\ ~wild'
  <2>1. h \in Owners(r)
    BY <1>6, ReadableOwns
  <2>2. heap[r] = "live" /\ Waiting(r) = {}
    BY <1>6, <2>1, OwnedIsLive
  <2>3. Refcount'[r] = Refcount[r] - 1 /\ ~wild'
    BY <1>6, <2>2 DEF ReleaseErrorRef, TypeOK
  <2>4. Waiting(r)' = IF Refcount[r] = 1 THEN {t} ELSE {}
    BY <1>3, <1>4, <1>6, <2>2
  <2>5. Owners(r)' = Owners(r) \ {h} /\ heap'[r] = heap[r] /\ SliceOK(r)
    BY <1>6 DEF SliceInv
  <2>. QED
    BY <1>6, <2>1, <2>3, <2>4, <2>5, SliceLoses
<1>7. ASSUME r \notin Slices
      PROVE  ~wild'
  BY <1>7 DEF ReleaseErrorRef
<1>. QED
  BY <1>5, <1>6, <1>7 DEF SliceInv

\* A destructor gives its share back.
LEMMA EndsSlices ==
  ASSUME TypeOK, SliceInv, ~wild, NEW t \in Threads, NEW h \in Handles, Ends(t, h)
  PROVE  SliceInv' /\ ~wild'
<1>1. /\ \A u \in Threads \ {t} : pend'[u] = pend[u]
      /\ pend'[t].do = "idle" /\ pend[t].do = "idle"
  BY NothingType, ReleasePends DEF Ends, Idle
<1>2. ASSUME NEW s \in Slices
      PROVE  Owners(s)' = Owners(s) \ {h}
  <2>1. h \notin Owners(s)'
    BY DEF Owners, Ends
  <2>2. ASSUME NEW g \in Handles \ {h}
        PROVE  g \in Owners(s)' <=> g \in Owners(s)
    <3>1. obj'[g].kind = obj[g].kind /\ obj'[g].ref = obj[g].ref
      BY DEF Ends, SameOwner
    <3>2. \A u \in Threads : (pend'[u].do = "assign" => pend'[u].h # g)
                               <=> (pend[u].do = "assign" => pend[u].h # g)
      BY <1>1
    <3>. QED
      BY <3>1, <3>2 DEF Owners
  <2>3. Owners(s)' \subseteq Handles /\ Owners(s) \subseteq Handles
    BY DEF Owners
  <2>. QED
    BY <2>1, <2>2, <2>3
<1>. QED
  BY <1>2, NothingType, ReleasedSlices DEF Ends

\* So does an assignment, before it takes the new share.
LEMMA AssignSlices ==
  ASSUME TypeOK, SliceInv, ~wild, NEW t \in Threads, NEW h \in Handles, NEW o \in Handles,
         NEW moves \in BOOLEAN, AssignCaptured(t, h, o, moves)
  PROVE  SliceInv' /\ ~wild'
<1>1. /\ Assigning(h, o, moves).do = "assign" /\ Assigning(h, o, moves).h = h
      /\ Assigning(h, o, moves).dying = Ok
      /\ Assigning(h, o, moves) \in Pendings
  BY CallTypes DEF Assigning
<1>2. /\ Idle(t) /\ Writable(h) /\ obj[h].kind # "none" /\ heap' = heap /\ obj' = obj
      /\ ReleaseErrorRef(t, obj[h].ref, Assigning(h, o, moves))
  BY DEF AssignCaptured, Holds
<1>3. /\ \A u \in Threads \ {t} : pend'[u] = pend[u]
      /\ pend'[t].do = "assign" /\ pend'[t].h = h /\ pend[t].do = "idle"
  BY <1>1, <1>2, ReleasePends DEF Idle
<1>4. ASSUME NEW s \in Slices
      PROVE  Owners(s)' = Owners(s) \ {h}
  <2>1. h \notin Owners(s)'
    BY <1>3 DEF Owners
  <2>2. ASSUME NEW g \in Handles \ {h}
        PROVE  g \in Owners(s)' <=> g \in Owners(s)
    <3>1. \A u \in Threads : (pend'[u].do = "assign" => pend'[u].h # g)
                               <=> (pend[u].do = "assign" => pend[u].h # g)
      BY <1>3
    <3>. QED
      BY <1>2, <3>1 DEF Owners
  <2>3. Owners(s)' \subseteq Handles /\ Owners(s) \subseteq Handles
    BY DEF Owners
  <2>. QED
    BY <2>1, <2>2, <2>3
<1>. QED
  BY <1>1, <1>2, <1>4, ReleasedSlices

\* A new slice has no owner yet and is waited for.
LEMMA MakeErrorSlices ==
  ASSUME TypeOK, SliceInv, ~wild, NEW t \in Threads, NEW s \in Slices, NEW h \in Handles,
         NEW k \in ResultKinds, makeError(t, s, h, k)
  PROVE  SliceInv' /\ ~wild'
<1>1. /\ pend[t].do = "idle" /\ pend[t].dying = Ok /\ Writable(h) /\ obj[h].kind = "none"
      /\ pend'[t] = Wrapping(k, h, s) /\ (\A u \in Threads \ {t} : pend'[u] = pend[u])
      /\ heap[s] = "fresh" /\ heap'[s] = "live" /\ \A r \in Slices \ {s} : heap'[r] = heap[r]
      /\ Refcount' = Refcount /\ obj' = obj /\ wild' = wild
  BY DEF makeError, TypeOK, Idle, Free
<1>2. pend'[t].do = "wrap" /\ pend'[t].ref = s /\ pend'[t].dying = Ok
  BY <1>1 DEF Wrapping
<1>3. Ok \notin Slices
  BY ErrorsAssumption DEF Errors
<1>4. \A r : Owners(r)' = Owners(r)
  BY <1>1, <1>2 DEF Owners
<1>5. SliceOK(s) /\ Owners(s) = {} /\ Waiting(s) = {} /\ Refcount[s] = 0
  BY <1>1 DEF SliceInv, SliceOK
<1>6. Waiting(s)' = {t}
  BY <1>1, <1>2, <1>5 DEF Waiting
<1>7. Cardinality({}) = 0
  BY FS_EmptySet
<1>8. SliceOK(s)'
  BY <1>1, <1>4, <1>5, <1>6, <1>7 DEF SliceOK
<1>9. ASSUME NEW r \in Slices \ {s}
      PROVE  SliceOK(r)'
  <2>1. Waiting(r)' = Waiting(r)
    BY <1>1, <1>2, <1>3 DEF Waiting
  <2>. QED
    BY <1>1, <1>4, <2>1, SliceKept DEF SliceInv
<1>. QED
  BY <1>1, <1>8, <1>9 DEF SliceInv

\* The new slice gets its first owner.
LEMMA WrapSlices ==
  ASSUME TypeOK, UseInv, SliceInv, ~wild, NEW t \in Threads, WrapResult(t),
         NEW h, h = pend[t].h, NEW s, s = pend[t].ref
  PROVE  SliceInv' /\ ~wild'
<1>1. /\ h \in Handles /\ s \in Slices /\ pend[t].do = "wrap" /\ pend[t].dying = Ok
      /\ obj[h].kind = "none" /\ pend[t].kind \in ResultKinds
  BY Types DEF WrapResult, UseInv, Pendings
<1>2. /\ pend'[t].do = "idle" /\ pend'[t].dying = Ok
      /\ (\A u \in Threads \ {t} : pend'[u] = pend[u])
      /\ obj'[h] = ResultOf(s, pend[t].kind) /\ (\A g \in Handles \ {h} : obj'[g] = obj[g])
      /\ heap' = heap
  BY <1>1, NothingType DEF WrapResult, TypeOK
<1>3. /\ obj'[h].kind # "none" /\ obj'[h].ref = s
  BY <1>1, <1>2 DEF ResultOf, ResultKinds
<1>4. \A u \in Threads \ {t} : pend[u].do = "assign" => pend[u].h # h
  BY <1>1 DEF UseInv, Target
<1>5. t \in Waiting(s) /\ Ok \notin Slices /\ SliceOK(s)
  BY <1>1, ErrorsAssumption DEF Waiting, Errors, SliceInv
<1>6. heap[s] = "live" /\ Owners(s) = {} /\ Waiting(s) = {t}
  BY <1>5 DEF SliceOK
<1>7. /\ Refcount'[s] = Refcount[s] + 1 /\ ~wild'
      /\ \A r \in Slices \ {s} : Refcount'[r] = Refcount[r]
  BY <1>1, <1>6 DEF WrapResult, RetainErrorRef, TypeOK
<1>8. \A g \in Handles \ {h}, r \in Slices : g \in Owners(r)' <=> g \in Owners(r)
  <2>1. ASSUME NEW g \in Handles \ {h}
        PROVE  (\A u \in Threads : pend'[u].do = "assign" => pend'[u].h # g)
                 <=> (\A u \in Threads : pend[u].do = "assign" => pend[u].h # g)
    BY <1>1, <1>2
  <2>. QED
    BY <1>2, <2>1 DEF Owners
<1>9. \A r \in Slices : h \notin Owners(r) /\ (h \in Owners(r)' <=> r = s)
  <2>1. \A u \in Threads : pend'[u].do = "assign" => pend'[u].h # h
    BY <1>2, <1>4
  <2>. QED
    BY <1>1, <1>3, <2>1 DEF Owners
<1>10. \A r : Owners(r) \subseteq Handles /\ Owners(r)' \subseteq Handles
  BY DEF Owners
<1>11. Owners(s)' = Owners(s) \cup {h} /\ \A r \in Slices \ {s} : Owners(r)' = Owners(r)
  BY <1>1, <1>8, <1>9, <1>10
<1>12. Waiting(s)' = {} /\ \A r \in Slices \ {s} : Waiting(r)' = Waiting(r)
  <2>1. Waiting(s)' = {}
    BY <1>1, <1>2, <1>5, <1>6 DEF Waiting
  <2>2. ASSUME NEW r \in Slices \ {s}
        PROVE  Waiting(r)' = Waiting(r)
    BY <1>1, <1>2, <1>5 DEF Waiting
  <2>. QED
    BY <2>1, <2>2
<1>13. SliceOK(s)'
  BY <1>1, <1>2, <1>5, <1>6, <1>7, <1>9, <1>11, <1>12, SliceGains
<1>14. ASSUME NEW r \in Slices \ {s}
       PROVE  SliceOK(r)'
  BY <1>2, <1>7, <1>11, <1>12, SliceKept DEF SliceInv
<1>. QED
  BY <1>7, <1>13, <1>14 DEF SliceInv

\* The second half of an assignment: h becomes an owner, and a moved-from o
\* stops being one.
LEMMA FinishSlices ==
  ASSUME TypeOK, UseInv, SliceInv, ~wild, NEW t \in Threads, FinishAssign(t),
         NEW h, h = pend[t].h, NEW o, o = pend[t].from, NEW s, s = obj[o].ref
  PROVE  SliceInv' /\ ~wild'
<1>1. /\ h \in Handles /\ o \in Handles /\ h # o
      /\ pend[t].do = "assign" /\ pend[t].dying = Ok /\ pend[t].moves \in BOOLEAN
      /\ obj[h] \in Objects /\ obj[o] \in Objects /\ s \in Refs
      /\ obj[h].kind # "none" /\ obj[o].kind # "none"
  BY Types DEF FinishAssign, UseInv, Pendings, Objects
<1>2. /\ pend'[t].do = "idle" /\ pend'[t].dying = Ok
      /\ \A u \in Threads \ {t} : pend'[u] = pend[u]
      /\ heap' = heap
  BY NothingType DEF FinishAssign, TypeOK
<1>3. /\ Naming(obj[h], s).kind = obj[h].kind /\ Naming(obj[h], s).ref = s
      /\ Naming(obj[o], Ok).kind = obj[o].kind /\ Naming(obj[o], Ok).ref = Ok
  BY <1>1, CheckedNaming, Emptied
<1>4. /\ obj'[h] = Naming(obj[h], s)
      /\ obj'[o] = IF pend[t].moves THEN Naming(obj[o], Ok) ELSE obj[o]
      /\ \A g \in Handles \ {h, o} : obj'[g] = obj[g]
  BY <1>1 DEF FinishAssign, TypeOK
<1>5. \A u \in Threads \ {t} : pend[u].do = "assign" => pend[u].h # h /\ pend[u].h # o
  BY <1>1 DEF UseInv, Target, Source
<1>6. Ok \notin Slices /\ \A r \in Slices : t \notin Waiting(r)
  BY <1>1, ErrorsAssumption DEF Waiting, Errors
<1>7. \A r \in Slices : Waiting(r)' = Waiting(r)
  <2>1. ASSUME NEW r \in Slices
        PROVE  Waiting(r)' = Waiting(r)
    BY <1>1, <1>2, <1>6 DEF Waiting
  <2>. QED
    BY <2>1
<1>8. \A g \in Handles \ {h, o}, r \in Slices : g \in Owners(r)' <=> g \in Owners(r)
  <2>1. ASSUME NEW g \in Handles \ {h, o}
        PROVE  (\A u \in Threads : pend'[u].do = "assign" => pend'[u].h # g)
                 <=> (\A u \in Threads : pend[u].do = "assign" => pend[u].h # g)
    BY <1>1, <1>2
  <2>. QED
    BY <1>4, <2>1 DEF Owners
<1>9. \A u \in Threads : pend'[u].do = "assign" => pend'[u].h # h /\ pend'[u].h # o
  BY <1>2, <1>5
<1>10. \A r \in Slices : h \notin Owners(r) /\ (h \in Owners(r)' <=> r = s)
  BY <1>1, <1>3, <1>4, <1>9 DEF Owners
<1>11. \A r \in Slices : /\ o \in Owners(r) <=> r = s
                         /\ o \in Owners(r)' <=> r = s /\ ~pend[t].moves
  <2>1. \A u \in Threads : pend[u].do = "assign" => pend[u].h # o
    BY <1>1, <1>5
  <2>2. \A r \in Slices : o \in Owners(r) <=> r = s
    BY <1>1, <2>1 DEF Owners
  <2>3. \A r \in Slices : o \in Owners(r)' <=> obj'[o].kind # "none" /\ obj'[o].ref = r
    BY <1>1, <1>9 DEF Owners
  <2>4. \A r \in Slices : o \in Owners(r)' <=> r = s /\ ~pend[t].moves
    <3>1. pend[t].moves => obj'[o].ref = Ok
      BY <1>3, <1>4
    <3>2. ~pend[t].moves => obj'[o].kind # "none" /\ obj'[o].ref = s
      BY <1>1, <1>4
    <3>3. pend[t].moves => \A r \in Slices : o \notin Owners(r)'
      BY <1>6, <2>3, <3>1
    <3>4. ~pend[t].moves => \A r \in Slices : o \in Owners(r)' <=> r = s
      BY <2>3, <3>2
    <3>. QED
      BY <3>3, <3>4
  <2>. QED
    BY <2>2, <2>4
<1>12. \A r : Owners(r) \subseteq Handles /\ Owners(r)' \subseteq Handles
  BY DEF Owners
<1>13. \A r \in Slices \ {s} : Owners(r)' = Owners(r)
  <2>1. ASSUME NEW r \in Slices, r # s
        PROVE  Owners(r)' = Owners(r)
    <3>1. h \notin Owners(r) /\ h \notin Owners(r)' /\ o \notin Owners(r) /\ o \notin Owners(r)'
      BY <1>10, <1>11, <2>1
    <3>2. \A g \in Handles \ {h, o} : g \in Owners(r)' <=> g \in Owners(r)
      BY <1>8
    <3>. QED
      BY <1>12, <3>1, <3>2
  <2>. QED
    BY <2>1
<1>14. \A r \in Slices \ {s} : Refcount'[r] = Refcount[r]
  BY <1>1 DEF FinishAssign, RetainErrorRef, TypeOK
<1>15. ASSUME NEW r \in Slices, r # s
       PROVE  SliceOK(r)'
  BY <1>2, <1>7, <1>13, <1>14, <1>15, SliceKept DEF SliceInv
<1>16. ASSUME s \in Slices
       PROVE  SliceOK(s)' /\ ~wild'
  <2>1. o \in Owners(s) /\ h \notin Owners(s) /\ h \in Owners(s)' /\ SliceOK(s)
    BY <1>10, <1>11, <1>16 DEF SliceInv
  <2>2. heap[s] = "live" /\ Waiting(s) = {}
    BY <1>16, <2>1, OwnedIsLive
  <2>3. CASE pend[t].moves
    <3>1. Refcount' = Refcount /\ wild' = wild
      BY <1>1, <2>3 DEF FinishAssign
    <3>2. o \notin Owners(s)'
      BY <1>11, <1>16, <2>3
    <3>3. \A g \in Handles \ {h, o} : g \in Owners(s)' <=> g \in Owners(s)
      BY <1>8, <1>16
    <3>4. Owners(s)' = (Owners(s) \ {o}) \cup {h}
      BY <1>1, <1>12, <2>1, <3>2, <3>3
    <3>. QED
      BY <1>1, <1>2, <1>7, <1>16, <2>1, <3>1, <3>4, SliceSwaps
  <2>4. CASE ~pend[t].moves
    <3>1. Refcount'[s] = Refcount[s] + 1 /\ ~wild'
      BY <1>1, <1>16, <2>2, <2>4 DEF FinishAssign, RetainErrorRef, TypeOK
    <3>2. o \in Owners(s)'
      BY <1>11, <1>16, <2>4
    <3>3. \A g \in Handles \ {h, o} : g \in Owners(s)' <=> g \in Owners(s)
      BY <1>8, <1>16
    <3>4. Owners(s)' = Owners(s) \cup {h}
      BY <1>1, <1>12, <2>1, <3>2, <3>3
    <3>. QED
      BY <1>1, <1>2, <1>7, <1>16, <2>1, <2>2, <3>1, <3>4, SliceGains
  <2>. QED
    BY <2>3, <2>4
<1>17. ASSUME s \notin Slices
       PROVE  ~wild'
  BY <1>1, <1>17 DEF FinishAssign, RetainErrorRef
<1>. QED
  BY <1>15, <1>16, <1>17 DEF SliceInv

\* A slice is deleted by the one thread that waits to.
LEMMA DeleteSlices ==
  ASSUME TypeOK, UseInv, SliceInv, ~wild, NEW t \in Threads, DeleteSlice(t), NEW s, s = pend[t].dying
  PROVE  SliceInv' /\ ~wild'
<1>1. s \in Slices /\ Ok \notin Slices /\ pend[t] \in Pendings
  BY Types, ErrorsAssumption DEF DeleteSlice, Errors
<1>2. t \in Waiting(s) /\ SliceOK(s)
  BY <1>1 DEF Waiting, SliceInv
<1>3. heap[s] = "live" /\ Owners(s) = {} /\ Waiting(s) = {t}
  BY <1>2 DEF SliceOK
<1>4. /\ heap'[s] = "freed" /\ (\A r \in Slices \ {s} : heap'[r] = heap[r])
      /\ Refcount' = Refcount /\ obj' = obj /\ ~wild'
      /\ pend'[t] = [pend[t] EXCEPT !.dying = Ok]
      /\ \A u \in Threads \ {t} : pend'[u] = pend[u]
  BY <1>1, <1>3 DEF DeleteSlice, TypeOK
<1>5. /\ pend'[t].do = pend[t].do /\ pend'[t].h = pend[t].h /\ pend'[t].ref = pend[t].ref
      /\ pend'[t].dying = Ok
  BY <1>1, <1>4 DEF Pendings
<1>6. \A u \in Threads : pend'[u].do = pend[u].do /\ pend'[u].h = pend[u].h
  BY <1>4, <1>5
<1>7. \A r : Owners(r)' = Owners(r)
  BY <1>4, <1>6 DEF Owners
<1>8. \A r \in Slices \ {s} : t \in Waiting(r)' <=> t \in Waiting(r)
  BY <1>1, <1>5 DEF Waiting
<1>9. \A r \in Slices, u \in Threads \ {t} : u \in Waiting(r)' <=> u \in Waiting(r)
  BY <1>4 DEF Waiting
<1>10. \A r : Waiting(r) \subseteq Threads /\ Waiting(r)' \subseteq Threads
  BY DEF Waiting
<1>11. ASSUME NEW r \in Slices, r # s
       PROVE  SliceOK(r)'
  <2>1. Waiting(r)' = Waiting(r)
    BY <1>8, <1>9, <1>10, <1>11
  <2>. QED
    BY <1>4, <1>7, <1>11, <2>1, SliceKept DEF SliceInv
<1>12. SliceOK(s)'
  <2>1. \A u \in Waiting(s)' : u = t
    BY <1>1, <1>3, <1>9, <1>10
  <2>2. pend[t].do # "wrap"
    BY <1>1 DEF UseInv
  <2>3. Waiting(s)' = {}
    BY <1>1, <1>5, <2>1, <2>2 DEF Waiting
  <2>. QED
    BY <1>3, <1>4, <1>7, <2>3 DEF SliceOK
<1>. QED
  BY <1>4, <1>11, <1>12 DEF SliceInv

\* Every step keeps the counts exact.
LEMMA SliceStep ==
  ASSUME Inv, [Next]_vars
  PROVE  SliceInv' /\ ~wild'
<1>0. TypeOK /\ UseInv /\ SliceInv /\ ~wild
  BY DEF Inv
<1>1. CASE \E h, o \in Handles : Shares(h, o) \/ Takes(h, o)
  BY <1>0, <1>1, SharesSlices, TakesSlices
<1>2. CASE Looks \/ \E h \in Handles : Makes(h)
  <2>1. UNCHANGED <<heap, Refcount, pend, wild>>
    BY <1>2 DEF Looks, Makes
  <2>2. ASSUME NEW s \in Slices
        PROVE  Owners(s)' = Owners(s)
    BY <1>2, SamePends DEF Looks, Makes, SameOwner, Owners, Free
  <2>3. \A s \in Slices : SliceOK(s)'
    BY <1>0, <2>1, <2>2, SamePends, SliceKept DEF SliceInv
  <2>. QED
    BY <1>0, <2>1, <2>3 DEF SliceInv
<1>3. CASE \E t \in Threads, h \in Handles : Ends(t, h)
  BY <1>0, <1>3, EndsSlices
<1>4. CASE \E t \in Threads, s \in Slices, h \in Handles, k \in ResultKinds : makeError(t, s, h, k)
  BY <1>0, <1>4, MakeErrorSlices
<1>5. CASE \E t \in Threads : WrapResult(t) \/ FinishAssign(t) \/ DeleteSlice(t)
  BY <1>0, <1>5, WrapSlices, FinishSlices, DeleteSlices
<1>6. CASE \E t \in Threads, h, o \in Handles, moves \in BOOLEAN : AssignCaptured(t, h, o, moves)
  BY <1>0, <1>6, AssignSlices
<1>. QED
  BY <1>0, <1>1, <1>2, <1>3, <1>4, <1>5, <1>6, StepKinds

-----------------------------------------------------------------------------
(* No error is lost before somebody looks at it. *)

\* An error stays carried when each Result that owes a check for it still does,
\* has handed it on, has been looked at, or has ended the process.
LEMMA KeepCarried ==
  ASSUME CarriedInv, aborted => aborted', seen \subseteq seen', made' = made,
         \A t \in Threads, e \in made : pend[t].do = "wrap" /\ pend[t].ref = e =>
           \/ pend'[t].do = "wrap" /\ pend'[t].ref = e
           \/ \E g \in Handles : Carries(g, e)',
         \A h \in Handles, e \in made : Carries(h, e) =>
           e \in seen' \/ aborted' \/ \E g \in Handles : Carries(g, e)'
  PROVE  CarriedInv'
<1>. SUFFICES ASSUME NEW e \in made \ seen', ~aborted'
              PROVE  \/ \E h \in Handles : Carries(h, e)'
                     \/ \E t \in Threads : pend'[t].do = "wrap" /\ pend'[t].ref = e
  BY DEF CarriedInv
<1>1. CASE \E h \in Handles : Carries(h, e)
  BY <1>1
<1>2. CASE \E t \in Threads : pend[t].do = "wrap" /\ pend[t].ref = e
  BY <1>2
<1>. QED
  BY <1>1, <1>2 DEF CarriedInv

\* An object none of these steps writes carries what it did.
LEMMA SameCarrier ==
  ASSUME NEW h, obj'[h] = obj[h], NEW e
  PROVE  Carries(h, e)' <=> Carries(h, e)
BY DEF Carries

\* A Result that is made carries its error unchecked.
LEMMA MakingCarries ==
  ASSUME Inv, NEW t \in Threads, NEW h \in Handles, NEW k \in ResultKinds,
         \/ \E s \in Slices : makeError(t, s, h, k)
         \/ \E e \in Inlines : MakeInlineResult(t, e, h, k)
         \/ MakeValueResult(t, h, k)
  PROVE  CarriedInv'
<1>0. TypeOK /\ CarriedInv
  BY DEF Inv
<1>1. ASSUME NEW s \in Slices, makeError(t, s, h, k)
      PROVE  CarriedInv'
  <2>1. /\ pend'[t] = Wrapping(k, h, s) /\ (\A u \in Threads \ {t} : pend'[u] = pend[u])
        /\ pend[t].do = "idle" /\ obj' = obj /\ made' = made \cup {s} /\ seen' = seen
        /\ aborted' = aborted
    BY <1>0, <1>1 DEF makeError, TypeOK, Idle
  <2>2. pend'[t].do = "wrap" /\ pend'[t].ref = s
    BY <2>1 DEF Wrapping
  <2>3. ASSUME NEW e \in made' \ seen', ~aborted'
        PROVE  \/ \E g \in Handles : Carries(g, e)'
               \/ \E u \in Threads : pend'[u].do = "wrap" /\ pend'[u].ref = e
    <3>1. CASE e = s
      BY <2>2, <3>1
    <3>2. CASE \E g \in Handles : Carries(g, e)
      BY <2>1, <3>2 DEF Carries
    <3>3. CASE \E u \in Threads : pend[u].do = "wrap" /\ pend[u].ref = e
      <4>1. PICK u \in Threads : pend[u].do = "wrap" /\ pend[u].ref = e
        BY <3>3
      <4>2. pend'[u] = pend[u]
        BY <2>1, <4>1
      <4>. QED
        BY <4>1, <4>2
    <3>. QED
      BY <1>0, <2>1, <2>3, <3>1, <3>2, <3>3 DEF CarriedInv
  <2>. QED
    BY <2>3 DEF CarriedInv
<1>2. ASSUME NEW e \in Inlines, MakeInlineResult(t, e, h, k)
      PROVE  CarriedInv'
  <2>1. /\ obj'[h] = ResultOf(e, k) /\ (\A g \in Handles \ {h} : obj'[g] = obj[g])
        /\ obj[h].kind = "none" /\ pend' = pend /\ made' = made \cup {e} /\ seen' = seen
        /\ aborted' = aborted
    BY <1>0, <1>2 DEF MakeInlineResult, TypeOK, Free
  <2>2. Carries(h, e)'
    BY <2>1 DEF Carries, ResultOf
  <2>3. ASSUME NEW x \in made' \ seen', ~aborted'
        PROVE  \/ \E g \in Handles : Carries(g, x)'
               \/ \E u \in Threads : pend'[u].do = "wrap" /\ pend'[u].ref = x
    <3>1. CASE x = e
      BY <2>2, <3>1
    <3>2. CASE \E g \in Handles : Carries(g, x)
      <4>1. PICK g \in Handles : Carries(g, x)
        BY <3>2
      <4>2. g # h
        BY <2>1, <4>1 DEF Carries, ResultKinds
      <4>. QED
        BY <2>1, <4>1, <4>2, SameCarrier
    <3>3. CASE \E u \in Threads : pend[u].do = "wrap" /\ pend[u].ref = x
      BY <2>1, <3>3
    <3>. QED
      BY <1>0, <2>1, <2>3, <3>1, <3>2, <3>3 DEF CarriedInv
  <2>. QED
    BY <2>3 DEF CarriedInv
<1>3. ASSUME MakeValueResult(t, h, k)
      PROVE  CarriedInv'
  <2>1. /\ \A g \in Handles \ {h} : obj'[g] = obj[g]
        /\ obj[h].kind = "none" /\ pend' = pend /\ made' = made /\ seen' = seen
        /\ aborted' = aborted
    BY <1>0, <1>3 DEF MakeValueResult, TypeOK, Free
  <2>2. \A e : ~Carries(h, e)
    BY <2>1 DEF Carries, ResultKinds
  <2>3. ASSUME NEW g \in Handles, NEW e \in made, Carries(g, e)
        PROVE  Carries(g, e)'
    BY <2>1, <2>2, <2>3, SameCarrier
  <2>. QED
    BY <1>0, <2>1, <2>3, KeepCarried
<1>. QED
  BY <1>1, <1>2, <1>3

\* A Result whose obligation passes to the new one, or whose error is seen.
LEMMA PassingCarries ==
  ASSUME Inv, NEW t \in Threads, NEW h \in Handles, NEW o \in Handles,
         CopyResult(t, h, o) \/ MoveResult(t, h, o) \/ ResultFromError(t, h, o)
           \/ ShareResult(t, h, o)
  PROVE  CarriedInv'
<1>1. /\ TypeOK /\ CarriedInv /\ h # o /\ obj[h].kind = "none"
      /\ pend' = pend /\ made' = made /\ aborted' = aborted /\ seen \subseteq seen'
  BY DEF Inv, CopyResult, MoveResult, ResultFromError, ShareResult, Free, Holds, ResultKinds
<1>2. \A g \in Handles \ {h, o} : obj'[g] = obj[g]
  BY <1>1 DEF CopyResult, MoveResult, ResultFromError, ShareResult, TypeOK
<1>3. obj'[h] = obj[o] \/ obj[o].ref \in seen' \cup {Ok}
  BY <1>1 DEF CopyResult, MoveResult, ResultFromError, ShareResult, TypeOK
<1>4. ASSUME NEW g \in Handles, NEW e \in made, Carries(g, e)
      PROVE  e \in seen' \/ \E f \in Handles : Carries(f, e)'
  <2>1. CASE g = o
    <3>1. obj[o].ref = e /\ e # Ok
      BY <1>1, <1>4, <2>1, ErrorsAssumption DEF Carries, TypeOK
    <3>2. CASE obj'[h] = obj[o]
      BY <1>4, <2>1, <3>2 DEF Carries
    <3>. QED
      BY <1>3, <3>1, <3>2
  <2>2. CASE g # o
    <3>1. g # h
      BY <1>1, <1>4 DEF Carries, ResultKinds
    <3>. QED
      BY <1>2, <1>4, <2>2, <3>1, SameCarrier
  <2>. QED
    BY <2>1, <2>2
<1>. QED
  BY <1>1, <1>4, KeepCarried

\* A Result is looked at, or destroyed.
LEMMA LookingCarries ==
  ASSUME Inv, NEW t \in Threads, NEW h \in Handles,
         CheckResult(t, h) \/ ValueResult(t, h) \/ DestroyResult(t, h)
  PROVE  CarriedInv'
<1>1. /\ TypeOK /\ CarriedInv /\ made' = made /\ ~aborted /\ seen \subseteq seen'
      /\ pend[t].do = "idle"
  BY DEF Inv, CheckResult, ValueResult, DestroyResult, Idle
<1>2. \A g \in Handles \ {h} : obj'[g] = obj[g]
  BY <1>1 DEF CheckResult, ValueResult, DestroyResult, TypeOK
<1>3. \A u \in Threads \ {t} : pend'[u] = pend[u]
  <2>1. CASE CheckResult(t, h) \/ ValueResult(t, h)
    BY <2>1 DEF CheckResult, ValueResult
  <2>2. CASE DestroyResult(t, h)
    <3>1. pend' = pend \/ ReleaseErrorRef(t, obj[h].ref, Nothing)
      BY <2>2 DEF DestroyResult
    <3>. QED
      BY <1>1, <3>1, NothingType, ReleasePends
  <2>. QED
    BY <2>1, <2>2
<1>4. obj[h].ref \in seen' \cup {Ok} \/ aborted' \/ ~obj[h].unchecked
  BY DEF CheckResult, ValueResult, DestroyResult, HasError
<1>5. ASSUME NEW g \in Handles, NEW e \in made, Carries(g, e)
      PROVE  e \in seen' \/ aborted' \/ \E f \in Handles : Carries(f, e)'
  <2>1. CASE g = h
    <3>1. obj[h].ref = e /\ e # Ok /\ obj[h].unchecked
      BY <1>1, <1>5, <2>1, ErrorsAssumption DEF Carries, TypeOK
    <3>. QED
      BY <1>4, <3>1
  <2>2. CASE g # h
    BY <1>2, <1>5, <2>2, SameCarrier
  <2>. QED
    BY <2>1, <2>2
<1>6. \A u \in Threads : pend[u].do = "wrap" => pend'[u].do = "wrap" /\ pend'[u].ref = pend[u].ref
  BY <1>1, <1>3
<1>. QED
  BY <1>1, <1>5, <1>6, KeepCarried

\* The boundary translator puts its error into a Result.
LEMMA WrappingCarries ==
  ASSUME Inv, NEW t \in Threads, WrapResult(t), NEW h, h = pend[t].h
  PROVE  CarriedInv'
<1>1. /\ TypeOK /\ CarriedInv /\ h \in Handles /\ obj[h].kind = "none"
      /\ pend[t].kind \in ResultKinds
      /\ made' = made /\ seen' = seen /\ aborted' = aborted
  BY Types DEF Inv, WrapResult, UseInv, Pendings
<1>2. /\ obj'[h] = ResultOf(pend[t].ref, pend[t].kind)
      /\ \A g \in Handles \ {h} : obj'[g] = obj[g]
      /\ \A u \in Threads \ {t} : pend'[u] = pend[u]
  BY <1>1 DEF WrapResult, TypeOK
<1>3. obj'[h].kind \in ResultKinds /\ obj'[h].ref = pend[t].ref /\ obj'[h].unchecked
  BY <1>1, <1>2 DEF ResultOf
<1>4. ASSUME NEW u \in Threads, NEW e \in made, pend[u].do = "wrap", pend[u].ref = e
      PROVE  \/ pend'[u].do = "wrap" /\ pend'[u].ref = e
             \/ \E g \in Handles : Carries(g, e)'
  <2>1. CASE u = t
    <3>1. Carries(h, e)'
      BY <1>3, <1>4, <2>1 DEF Carries
    <3>. QED
      BY <1>1, <3>1
  <2>. QED
    BY <1>2, <1>4, <2>1
<1>5. ASSUME NEW g \in Handles, NEW e \in made, Carries(g, e)
      PROVE  Carries(g, e)'
  <2>1. g # h
    BY <1>1, <1>5 DEF Carries, ResultKinds
  <2>. QED
    BY <1>2, <1>5, <2>1, SameCarrier
<1>. QED
  BY <1>1, <1>4, <1>5, KeepCarried

\* What is done with captured errors, and to slices, leaves the Results alone.
LEMMA CapturedCarries ==
  ASSUME Inv, NEW t \in Threads,
         \/ \E h, o \in Handles : CopyCaptured(t, h, o) \/ MoveCaptured(t, h, o)
         \/ \E h, o \in Handles, moves \in BOOLEAN : AssignCaptured(t, h, o, moves)
         \/ FinishAssign(t) \/ DeleteSlice(t)
         \/ \E h \in Handles : DestroyCaptured(t, h)
  PROVE  CarriedInv'
<1>1. TypeOK /\ CarriedInv /\ UNCHANGED <<made, seen, aborted>>
  BY DEF Inv, CopyCaptured, MoveCaptured, AssignCaptured, FinishAssign, DeleteSlice, DestroyCaptured
<1>2. \A g \in Handles : obj'[g] = obj[g] \/ obj[g].kind \notin ResultKinds
  <2>1. ASSUME NEW h \in Handles, NEW o \in Handles, CopyCaptured(t, h, o) \/ MoveCaptured(t, h, o)
        PROVE  \A g \in Handles : obj'[g] = obj[g] \/ obj[g].kind \notin ResultKinds
    BY <1>1, <2>1 DEF CopyCaptured, MoveCaptured, Free, Holds, ResultKinds, TypeOK
  <2>2. ASSUME \/ DeleteSlice(t)
               \/ \E h, o \in Handles, moves \in BOOLEAN : AssignCaptured(t, h, o, moves)
        PROVE  obj' = obj
    BY <2>2 DEF AssignCaptured, DeleteSlice
  <2>3. ASSUME FinishAssign(t)
        PROVE  \A g \in Handles : obj'[g] = obj[g] \/ obj[g].kind \notin ResultKinds
    <3>1. obj[pend[t].h].kind = "Captured" /\ obj[pend[t].from].kind = "Captured"
      BY <2>3 DEF Inv, UseInv, FinishAssign
    <3>2. \A g \in Handles \ {pend[t].h, pend[t].from} : obj'[g] = obj[g]
      BY <1>1, <2>3 DEF FinishAssign, TypeOK
    <3>. QED
      BY <3>1, <3>2 DEF ResultKinds
  <2>4. ASSUME NEW h \in Handles, DestroyCaptured(t, h)
        PROVE  \A g \in Handles : obj'[g] = obj[g] \/ obj[g].kind \notin ResultKinds
    BY <1>1, <2>4 DEF DestroyCaptured, Holds, ResultKinds, TypeOK
  <2>. QED
    BY <2>1, <2>2, <2>3, <2>4
<1>3. \A u \in Threads : pend[u].do = "wrap" => pend'[u].do = "wrap" /\ pend'[u].ref = pend[u].ref
  <2>1. \A u \in Threads \ {t} : pend'[u] = pend[u]
    <3>1. CASE FinishAssign(t) \/ DeleteSlice(t)
               \/ \E h, o \in Handles : CopyCaptured(t, h, o) \/ MoveCaptured(t, h, o)
      BY <1>1, <3>1 DEF CopyCaptured, MoveCaptured, FinishAssign, DeleteSlice, TypeOK
    <3>2. ASSUME NEW h \in Handles, NEW o \in Handles, NEW moves \in BOOLEAN,
                 AssignCaptured(t, h, o, moves)
          PROVE  \A u \in Threads \ {t} : pend'[u] = pend[u]
      BY <1>1, <3>2, CallTypes, ReleasePends DEF AssignCaptured
    <3>3. ASSUME NEW h \in Handles, DestroyCaptured(t, h)
          PROVE  \A u \in Threads \ {t} : pend'[u] = pend[u]
      BY <1>1, <3>3, NothingType, ReleasePends DEF DestroyCaptured
    <3>. QED
      BY <3>1, <3>2, <3>3
  <2>2. pend[t].do # "wrap"
    <3>1. CASE DeleteSlice(t)
      BY <3>1, ErrorsAssumption DEF Inv, UseInv, DeleteSlice, Errors
    <3>2. CASE ~DeleteSlice(t)
      BY <3>2 DEF CopyCaptured, MoveCaptured, AssignCaptured, FinishAssign, DestroyCaptured, Idle
    <3>. QED
      BY <3>1, <3>2
  <2>. QED
    BY <2>1, <2>2
<1>4. ASSUME NEW g \in Handles, NEW e \in made, Carries(g, e)
      PROVE  Carries(g, e)'
  BY <1>2, <1>4 DEF Carries
<1>. QED
  BY <1>1, <1>3, <1>4, KeepCarried

\* No step drops an error nobody has looked at.
LEMMA CarriedStep ==
  ASSUME Inv, [Next]_vars
  PROVE  CarriedInv'
<1>1. ASSUME NEW t \in Threads, ResultStep(t)
      PROVE  CarriedInv'
  BY <1>1, MakingCarries, PassingCarries, LookingCarries, WrappingCarries DEF ResultStep
<1>2. ASSUME NEW t \in Threads, CapturedStep(t) \/ DeleteSlice(t)
      PROVE  CarriedInv'
  BY <1>2, PassingCarries, CapturedCarries DEF CapturedStep
<1>3. CASE UNCHANGED vars
  BY <1>3 DEF Inv, vars, CarriedInv, Carries
<1>. QED
  BY <1>1, <1>2, <1>3 DEF Next

-----------------------------------------------------------------------------
\* At the start there is no slice, object or error.
LEMMA InitInv == Init => Inv
<1>. SUFFICES ASSUME Init PROVE Inv
  OBVIOUS
<1>1. TypeOK
  BY NothingType DEF Init, TypeOK, Objects, NoObject, Refs
<1>2. \A t \in Threads : pend[t].do = "idle" /\ pend[t].dying = Ok /\ Target(t) = {} /\ Source(t) = {}
  BY NothingType DEF Init, Target, Source
<1>3. UseInv
  BY <1>2 DEF UseInv
<1>4. \A s : Owners(s) = {}
  BY DEF Owners, Init, NoObject
<1>5. \A s \in Slices : Waiting(s) = {} /\ heap[s] = "fresh" /\ Refcount[s] = 0
  BY <1>2, ErrorsAssumption DEF Init, Waiting, Errors
<1>6. SliceInv
  BY <1>4, <1>5 DEF SliceInv, SliceOK
<1>7. ~wild /\ CarriedInv
  BY DEF Init, CarriedInv
<1>. QED
  BY <1>1, <1>3, <1>6, <1>7 DEF Inv

\* The invariant holds in every behaviour.
LEMMA SpecInv == Spec => []Inv
<1>1. Inv /\ [Next]_vars => Inv'
  BY TypeStep, UseStep, SliceStep, CarriedStep DEF Inv
<1>. QED
  BY InitInv, <1>1, PTL DEF Spec

\* However copies, moves, assignments and releases of several threads
\* interleave, a slice's count is the number of handles that share it, it is
\* deleted once, after the last of them, used by none later, and none leaks
\* (retainError, releaseError and the handle classes of Error.h).
THEOREM ErrorSlicesExact == Spec => []SlicesExact
<1>1. Inv => SlicesExact
  <2>. SUFFICES ASSUME Inv PROVE SlicesExact
    OBVIOUS
  <2>1. RefcountExact
    BY DEF Inv, SliceInv, SliceOK, RefcountExact
  <2>2. ASSUME NEW s \in Slices, heap[s] = "live", Owners(s) = {}
        PROVE  \E t \in Threads : \/ pend[t].dying = s
                                  \/ pend[t].do = "wrap" /\ pend[t].ref = s
    BY <2>2 DEF Inv, SliceInv, SliceOK, Waiting
  <2>3. SliceLifetime
    BY <2>2 DEF Inv, SliceInv, SliceOK, SliceLifetime
  <2>. QED
    BY <2>1, <2>3 DEF Inv, SlicesExact
<1>. QED
  BY SpecInv, <1>1, PTL

\* In a debug build an error that no handle carries any more was looked at, or
\* ignored on purpose, or the process was aborted for it (~Result, Error.h).
THEOREM ErrorNotDropped == Spec => []NoErrorDropped
<1>1. Inv => NoErrorDropped
  BY DEF Inv, CarriedInv, Carries, NoErrorDropped, ResultKinds
<1>. QED
  BY SpecInv, <1>1, PTL
=============================================================================
