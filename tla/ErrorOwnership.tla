--------------------------- MODULE ErrorOwnership ---------------------------
(***************************************************************************)
(* Ownership of errors: ErrorRef, the refcounted ErrorSlice, and the three *)
(* handle classes Result<T>, Result<void> and CapturedError (Error.h,      *)
(* ErrorInternal.cpp), in a debug build, where a Result also carries the   *)
(* obligation to be checked.                                               *)
(*                                                                         *)
(* Handles are C++ objects.  Threads may hold handles on the same slice;   *)
(* the refcount operations are atomic, but a release and the deletion it   *)
(* leads to, and the two halves of a CapturedError assignment, are         *)
(* separate steps.  Two threads never use one object at the same time when *)
(* either modifies it; the library does not allow that.                    *)
(***************************************************************************)
EXTENDS Integers, FiniteSets

CONSTANTS Threads, Handles,
          Slices,   \* heap-allocated errors, each allocated at most once
          Inlines,  \* errors encoded in the ErrorRef's bits
          Ok        \* the null ErrorRef; also stands for "no slice"

Errors == Slices \cup Inlines
Refs   == Errors \cup {Ok}

ASSUME HandlesAssumption == IsFiniteSet(Handles) /\ Handles # {}
ASSUME ErrorsAssumption  == Slices \cap Inlines = {} /\ Ok \notin Errors

VARIABLES heap,      \* "fresh", "live" or "freed", for each slice
          Refcount,  \* ErrorSlice::Refcount
          obj,       \* the C++ objects
          pend,      \* what a thread still has to do inside a library call
          made,      \* history: the errors produced so far
          seen,      \* history: the errors some handle was inspected for
          wild,      \* a refcount of a slice that is not live was touched
          badDtor,   \* ~T() ran on storage no T was constructed in
          aborted    \* ResultAbort_* ended the process

vars == <<heap, Refcount, obj, pend, made, seen, wild, badDtor, aborted>>

ResultKinds == {"Result", "ResultVoid"}
Kinds       == ResultKinds \cup {"Captured"}

\* hasValue: the union of a Result<T> holds a constructed T.
Objects == [kind : Kinds \cup {"none"}, ref : Refs,
            unchecked : BOOLEAN, hasValue : BOOLEAN]

\* do: the rest of the call; dying: the slice whose count this thread brought
\* to zero and which it must delete before anything else.
Pendings == [do : {"idle", "wrap", "assign"}, kind : Kinds,
             h : Handles, ref : Refs, from : Handles, moves : BOOLEAN,
             dying : Slices \cup {Ok}]

TypeOK ==
  /\ heap \in [Slices -> {"fresh", "live", "freed"}]
  /\ Refcount \in [Slices -> Nat]
  /\ obj \in [Handles -> Objects]
  /\ pend \in [Threads -> Pendings]
  /\ made \subseteq Errors /\ seen \subseteq Errors
  /\ wild \in BOOLEAN /\ badDtor \in BOOLEAN /\ aborted \in BOOLEAN

NoObject == [kind |-> "none", ref |-> Ok, unchecked |-> FALSE, hasValue |-> FALSE]

Nothing == [do |-> "idle", kind |-> "Result", h |-> CHOOSE h \in Handles : TRUE,
            ref |-> Ok, from |-> CHOOSE h \in Handles : TRUE, moves |-> FALSE,
            dying |-> Ok]

\* The boundary translator has yet to wrap slice s in h; an assignment to h
\* has yet to take over the error of o.
Wrapping(k, h, s) == [do |-> "wrap", kind |-> k, h |-> h, ref |-> s, from |-> h,
                      moves |-> FALSE, dying |-> Ok]
Assigning(h, o, moves) == [do |-> "assign", kind |-> "Captured", h |-> h, ref |-> Ok,
                           from |-> o, moves |-> moves, dying |-> Ok]

Init ==
  /\ heap = [s \in Slices |-> "fresh"]
  /\ Refcount = [s \in Slices |-> 0]
  /\ obj = [h \in Handles |-> NoObject]
  /\ pend = [t \in Threads |-> Nothing]
  /\ made = {} /\ seen = {}
  /\ wild = FALSE /\ badDtor = FALSE /\ aborted = FALSE

-----------------------------------------------------------------------------
(* Who may touch what. *)

Idle(t) == ~aborted /\ pend[t].do = "idle" /\ pend[t].dying = Ok

\* The object a pending call is about to write, and the one it reads.
Target(t) == IF pend[t].do = "idle" THEN {} ELSE {pend[t].h}
Source(t) == IF pend[t].do = "assign" THEN {pend[t].from} ELSE {}

\* h is touched by no pending call; h is not being written by one.
Writable(h) == \A t \in Threads : h \notin Target(t) \cup Source(t)
Readable(h) == \A t \in Threads : /\ h \notin Target(t)
                                  /\ pend[t].moves => h \notin Source(t)

Free(h)        == obj[h].kind = "none" /\ Writable(h)

Holds(h, K)    == obj[h].kind \in K
HasError(h)    == obj[h].ref # Ok

\* The object with its obligation discharged, or with another Ref.
Checked(x)     == [x EXCEPT !.unchecked = FALSE]
Naming(x, ref) == [x EXCEPT !.ref = ref]

-----------------------------------------------------------------------------
(* The refcount.  Ok and inline errors carry none. *)

RetainErrorRef(ref) ==
  IF ref \in Slices
  THEN /\ Refcount' = [Refcount EXCEPT ![ref] = @ + 1]
       /\ wild' = (wild \/ heap[ref] # "live")
  ELSE UNCHANGED <<Refcount, wild>>

\* Faulty variant: fetch_sub's result is taken for the new count.
ReleaseTestsNewCount(t, ref, then) ==
  IF ref \in Slices
  THEN /\ Refcount' = [Refcount EXCEPT ![ref] = @ - 1]
       /\ wild' = (wild \/ heap[ref] # "live")
       /\ pend' = [pend EXCEPT ![t] =
                     [then EXCEPT !.dying = IF Refcount[ref] = 0 THEN ref ELSE Ok]]
  ELSE /\ pend' = [pend EXCEPT ![t] = then]
       /\ UNCHANGED <<Refcount, wild>>

\* fetch_sub; the thread that sees 1 goes on to delete the slice.
ReleaseErrorRef(t, ref, then) ==
  IF ref \in Slices
  THEN /\ Refcount' = [Refcount EXCEPT ![ref] = @ - 1]
       /\ wild' = (wild \/ heap[ref] # "live")
       /\ pend' = [pend EXCEPT ![t] =
                     [then EXCEPT !.dying = IF Refcount[ref] = 1 THEN ref ELSE Ok]]
  ELSE /\ pend' = [pend EXCEPT ![t] = then]
       /\ UNCHANGED <<Refcount, wild>>

\* `delete S` after the count dropped to zero.
DeleteSlice(t) ==
  /\ ~aborted /\ pend[t].dying \in Slices
  /\ heap' = [heap EXCEPT ![pend[t].dying] = "freed"]
  /\ wild' = (wild \/ heap[pend[t].dying] # "live")
  /\ pend' = [pend EXCEPT ![t].dying = Ok]
  /\ UNCHANGED <<Refcount, obj, made, seen, badDtor, aborted>>

-----------------------------------------------------------------------------
(* Result<T> and Result<void>. *)

\* makeError and drainError: a slice with refcount 0, not yet in a Result.
makeError(t, s, h, k) ==
  /\ Idle(t) /\ Free(h) /\ heap[s] = "fresh"
  /\ heap' = [heap EXCEPT ![s] = "live"]
  /\ made' = made \cup {s}
  /\ pend' = [pend EXCEPT ![t] = Wrapping(k, h, s)]
  /\ UNCHANGED <<Refcount, obj, seen, wild, badDtor, aborted>>

\* Result(ErrorRef E).  No T is constructed, whether E is an error or not.
ResultOf(ref, k) ==
  [kind |-> k, ref |-> ref, unchecked |-> TRUE, hasValue |-> FALSE]

\* The boundary translator wraps the new slice.
WrapResult(t) ==
  /\ ~aborted /\ pend[t].do = "wrap"
  /\ obj' = [obj EXCEPT ![pend[t].h] = ResultOf(pend[t].ref, pend[t].kind)]
  /\ RetainErrorRef(pend[t].ref)
  /\ pend' = [pend EXCEPT ![t] = Nothing]
  /\ UNCHANGED <<heap, made, seen, badDtor, aborted>>

\* Result(makeError(Status)) with an inline encoding.
MakeInlineResult(t, e, h, k) ==
  /\ Idle(t) /\ Free(h) /\ e \in Inlines \ made
  /\ made' = made \cup {e}
  /\ obj' = [obj EXCEPT ![h] = ResultOf(e, k)]
  /\ UNCHANGED <<heap, Refcount, pend, seen, wild, badDtor, aborted>>

\* Result(T V), Result() and Result<void>().
MakeValueResult(t, h, k) ==
  /\ Idle(t) /\ Free(h)
  /\ obj' = [obj EXCEPT ![h] = [kind |-> k, ref |-> Ok, unchecked |-> TRUE,
                                hasValue |-> k = "Result"]]
  /\ UNCHANGED <<heap, Refcount, pend, made, seen, wild, badDtor, aborted>>

\* The copy constructor takes the obligation over from its source.
CopyResult(t, h, o) ==
  /\ Idle(t) /\ Free(h) /\ Holds(o, ResultKinds) /\ Readable(o)
  /\ obj' = [obj EXCEPT ![h] = obj[o], ![o] = Checked(obj[o])]
  /\ RetainErrorRef(obj[o].ref)
  /\ UNCHANGED <<heap, pend, made, seen, badDtor, aborted>>

\* Faulty variant: the obligation is discharged on both sides.
MoveResultForgets(t, h, o) ==
  /\ Idle(t) /\ Free(h) /\ Holds(o, ResultKinds) /\ Writable(o)
  /\ obj' = [obj EXCEPT ![h] = Checked(obj[o]), ![o] = Checked(Naming(obj[o], Ok))]
  /\ UNCHANGED <<heap, Refcount, pend, made, seen, wild, badDtor, aborted>>

\* The move constructor leaves an error's source as an Ok without a value; a
\* value's source keeps its (moved-from) T.
MoveResult(t, h, o) ==
  /\ Idle(t) /\ Free(h) /\ Holds(o, ResultKinds) /\ Writable(o)
  /\ obj' = [obj EXCEPT ![h] = obj[o], ![o] = Checked(Naming(obj[o], Ok))]
  /\ UNCHANGED <<heap, Refcount, pend, made, seen, wild, badDtor, aborted>>

\* ok(), status(), error(), ignore(), value_or() and share() mark it checked.
CheckResult(t, o) ==
  /\ Idle(t) /\ Holds(o, ResultKinds) /\ Readable(o)
  /\ obj' = [obj EXCEPT ![o] = Checked(obj[o])]
  /\ seen' = seen \cup ({obj[o].ref} \ {Ok})
  /\ UNCHANGED <<heap, Refcount, pend, made, wild, badDtor, aborted>>

\* value() on an error aborts the process.
ValueResult(t, o) ==
  /\ Idle(t) /\ obj[o].kind = "Result" /\ Readable(o)
  /\ obj' = [obj EXCEPT ![o] = Checked(obj[o])]
  /\ seen' = seen \cup ({obj[o].ref} \ {Ok})
  /\ aborted' = HasError(o)
  /\ UNCHANGED <<heap, Refcount, pend, made, wild, badDtor>>

\* Result(R.error()): error() marks its source checked, the new Result owes a
\* check of its own.
ResultFromError(t, h, o) ==
  /\ Idle(t) /\ Free(h) /\ Holds(o, ResultKinds) /\ Readable(o)
  /\ obj' = [obj EXCEPT ![h] = ResultOf(obj[o].ref, obj[o].kind),
                        ![o] = Checked(obj[o])]
  /\ seen' = seen \cup ({obj[o].ref} \ {Ok})
  /\ RetainErrorRef(obj[o].ref)
  /\ UNCHANGED <<heap, pend, made, badDtor, aborted>>

\* ~Result(): an unchecked error aborts; else the error is released or the
\* value destroyed.
DestroyResult(t, h) ==
  /\ Idle(t) /\ Holds(h, ResultKinds) /\ Writable(h)
  /\ IF obj[h].unchecked /\ HasError(h)
     THEN /\ aborted' = TRUE
          /\ UNCHANGED <<Refcount, obj, pend, wild, badDtor>>
     ELSE /\ obj' = [obj EXCEPT ![h] = NoObject]
          /\ ReleaseErrorRef(t, obj[h].ref, Nothing)
          /\ badDtor' = (badDtor \/ (obj[h].kind = "Result" /\ ~HasError(h)
                                      /\ ~obj[h].hasValue))
          /\ UNCHANGED aborted
  /\ UNCHANGED <<heap, made, seen>>

-----------------------------------------------------------------------------
(* CapturedError. *)

CapturedOf(ref) == [kind |-> "Captured", ref |-> ref, unchecked |-> FALSE,
                    hasValue |-> FALSE]

\* Result::share(), or CapturedError(R.error()).
ShareResult(t, h, o) ==
  /\ Idle(t) /\ Free(h) /\ Holds(o, ResultKinds) /\ Readable(o)
  /\ obj' = [obj EXCEPT ![h] = CapturedOf(obj[o].ref), ![o] = Checked(obj[o])]
  /\ seen' = seen \cup ({obj[o].ref} \ {Ok})
  /\ RetainErrorRef(obj[o].ref)
  /\ UNCHANGED <<heap, pend, made, badDtor, aborted>>

CopyCaptured(t, h, o) ==
  /\ Idle(t) /\ Free(h) /\ Holds(o, {"Captured"}) /\ Readable(o)
  /\ obj' = [obj EXCEPT ![h] = obj[o]]
  /\ RetainErrorRef(obj[o].ref)
  /\ UNCHANGED <<heap, pend, made, seen, badDtor, aborted>>

MoveCaptured(t, h, o) ==
  /\ Idle(t) /\ Free(h) /\ Holds(o, {"Captured"}) /\ Writable(o)
  /\ obj' = [obj EXCEPT ![h] = obj[o], ![o] = Naming(obj[o], Ok)]
  /\ UNCHANGED <<heap, Refcount, pend, made, seen, wild, badDtor, aborted>>

\* operator=, first half: `if (this != &O) ReleaseErrorRef(Ref)`.  Ref itself
\* is only overwritten in the second half.
AssignCaptured(t, h, o, moves) ==
  /\ Idle(t) /\ h # o
  /\ Holds(h, {"Captured"}) /\ Holds(o, {"Captured"})
  /\ Writable(h) /\ (IF moves THEN Writable(o) ELSE Readable(o))
  /\ ReleaseErrorRef(t, obj[h].ref, Assigning(h, o, moves))
  /\ UNCHANGED <<heap, obj, made, seen, badDtor, aborted>>

\* operator=, second half: a copy retains, a move empties its source.
FinishAssign(t) ==
  /\ ~aborted /\ pend[t].do = "assign" /\ pend[t].dying = Ok
  /\ LET h == pend[t].h
         o == pend[t].from
     IN  IF pend[t].moves
         THEN /\ obj' = [obj EXCEPT ![h] = Naming(obj[h], obj[o].ref), ![o] = Naming(obj[o], Ok)]
              /\ UNCHANGED <<Refcount, wild>>
         ELSE /\ obj' = [obj EXCEPT ![h] = Naming(obj[h], obj[o].ref)]
              /\ RetainErrorRef(obj[o].ref)
  /\ pend' = [pend EXCEPT ![t] = Nothing]
  /\ UNCHANGED <<heap, made, seen, badDtor, aborted>>

DestroyCaptured(t, h) ==
  /\ Idle(t) /\ Holds(h, {"Captured"}) /\ Writable(h)
  /\ obj' = [obj EXCEPT ![h] = NoObject]
  /\ ReleaseErrorRef(t, obj[h].ref, Nothing)
  /\ UNCHANGED <<heap, made, seen, badDtor, aborted>>

-----------------------------------------------------------------------------
ResultStep(t) ==
  \/ \E h \in Handles, k \in ResultKinds :
       \/ \E s \in Slices : makeError(t, s, h, k)
       \/ \E e \in Inlines : MakeInlineResult(t, e, h, k)
       \/ MakeValueResult(t, h, k)
  \/ WrapResult(t)
  \/ \E h, o \in Handles :
       CopyResult(t, h, o) \/ MoveResult(t, h, o) \/ ResultFromError(t, h, o)
  \/ \E h \in Handles : CheckResult(t, h) \/ ValueResult(t, h) \/ DestroyResult(t, h)

CapturedStep(t) ==
  \/ \E h, o \in Handles :
       ShareResult(t, h, o) \/ CopyCaptured(t, h, o) \/ MoveCaptured(t, h, o)
  \/ \E h, o \in Handles, moves \in BOOLEAN : AssignCaptured(t, h, o, moves)
  \/ FinishAssign(t)
  \/ \E h \in Handles : DestroyCaptured(t, h)

Next ==
  \/ \E t \in Threads : ResultStep(t) \/ CapturedStep(t) \/ DeleteSlice(t)
  \/ aborted /\ UNCHANGED vars

Spec == Init /\ [][Next]_vars

-----------------------------------------------------------------------------
(* Properties. *)

\* The handles that own a share of slice s.  The target of a half-finished
\* assignment has given its share back although its Ref still names the slice.
Owners(s) == {h \in Handles : obj[h].kind # "none" /\ obj[h].ref = s /\
                \A t \in Threads : pend[t].do = "assign" => pend[t].h # h}

\* A live slice's refcount is the number of handles that own a share of it,
\* across copies, moves, shares, assignments and destructions on all threads.
RefcountExact == \A s \in Slices : heap[s] = "live" => Refcount[s] = Cardinality(Owners(s))

\* A slice is deleted once, and only when no handle owns a share; until then no
\* refcount of a dead slice is touched; and a slice no handle owns is one that a
\* thread is about to wrap or about to delete, so none leaks.
SliceLifetime ==
  /\ ~wild
  /\ \A s \in Slices :
       /\ heap[s] # "live" => Owners(s) = {}
       /\ heap[s] = "live" /\ Owners(s) = {} =>
            \E t \in Threads : \/ pend[t].dying = s
                               \/ pend[t].do = "wrap" /\ pend[t].ref = s

\* The life of an error: its count is the number of handles that share it, in
\* every interleaving of copies, moves and releases, so that it is deleted
\* once, by the last of them, and used by none after (retainError and
\* releaseError of ErrorInternal.cpp).
SlicesExact == TypeOK /\ RefcountExact /\ SliceLifetime

\* In a debug build no error disappears unnoticed: an error no handle carries
\* any more was looked at or ignored on purpose, or the process aborted.
NoErrorDropped ==
  \A e \in made \ seen :
    \/ aborted
    \/ \E h \in Handles : obj[h].kind # "none" /\ obj[h].ref = e
    \/ \E t \in Threads : pend[t].do = "wrap" /\ pend[t].ref = e

\* ~Result<T>() destroys a T only where a constructor placed one
\* (ResultTest.cpp:148 "placement-new + explicit destructor paths").
ValueDestroyedWasConstructed == ~badDtor
=============================================================================
