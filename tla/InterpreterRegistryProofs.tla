---------------------- MODULE InterpreterRegistryProofs ----------------------
(***************************************************************************)
(* Proofs about the interpreter registry, for any sets of interpreters.    *)
(*                                                                         *)
(* OwnershipExact is not inductive: a registration must not reuse a freed  *)
(* interpreter, which needs that every registered or freed interpreter is  *)
(* known, and after exit there must be no slot left to speak of.  Inv adds *)
(* the type invariant and those two facts; CounterInv and DisciplineInv    *)
(* build on it, and so does the refinement of InterpreterStack: each step  *)
(* of the deque is a step of the stack because the entries keep their      *)
(* order, but for the one that is activated or erased.                     *)
(***************************************************************************)
EXTENDS InterpreterRegistry, TLAPS

\* Everything in the registry, and everything freed, was handed out before.
KnownCovers ==
  /\ \A a \in Slots : slots[a].Interpreter \in known
  /\ freed \subseteq known
  /\ exited => first = last

\* The inductive invariant of ownership.
Inv == TypeOK /\ OwnershipExact /\ KnownCovers

-----------------------------------------------------------------------------
(* The move operations. *)

\* A moved-into slot has the identity of the source and is well typed.
LEMMA MovedIntoFacts ==
  ASSUME NEW dst \in InterpreterInfo, NEW src \in InterpreterInfo
  PROVE  /\ MovedInto(dst, src) \in InterpreterInfo
         /\ MovedInto(dst, src).Interpreter = src.Interpreter
         /\ MovedInto(dst, src).isOwned = src.isOwned
BY DEF MovedInto, InterpreterInfo

\* A moved-from slot owns nothing, so destroying it deletes nothing.
LEMMA MovedFromFacts ==
  ASSUME NEW info \in InterpreterInfo
  PROVE  MovedFrom(info).isOwned = FALSE
BY DEF MovedFrom, InterpreterInfo

\* A fresh entry is well typed and has the identity it was built with.
LEMMA NewInfoFacts ==
  ASSUME NEW i \in Interps, NEW o \in BOOLEAN
  PROVE  /\ NewInfo(i, o) \in InterpreterInfo
         /\ NewInfo(i, o).Interpreter = i
         /\ NewInfo(i, o).isOwned = o
BY DEF NewInfo, InterpreterInfo

\* std::find_if returns a slot of the interpreter it looks for.
LEMMA FindFacts ==
  ASSUME TypeOK, OwnershipExact, NEW i, Registered(i)
  PROVE  Find(i) \in Slots /\ slots[Find(i)].Interpreter = i
<1>1. PICK a \in Slots : slots[a].Interpreter = i
  BY DEF Registered
<1>2. \A b \in Slots : slots[b].Interpreter = i => b = a
  BY <1>1 DEF OwnershipExact
<1>3. /\ slots[a].Interpreter = i
      /\ \A b \in Slots : slots[b].Interpreter = i => a <= b
  BY <1>1, <1>2 DEF TypeOK, Slots
<1>4. QED
  BY <1>3 DEF Find

-----------------------------------------------------------------------------
(* The initial state and the steps. *)

\* The empty registry.
LEMMA InitInv == Init => Inv
<1> SUFFICES ASSUME Init PROVE Inv
  OBVIOUS
<1>1. Slots = {}
  BY DEF Init, Slots
<1>2. slots \in [Slots -> InterpreterInfo]
  <2>1. slots = [a \in {} |-> NULL]
    BY <1>1 DEF Init, Slots
  <2>2. QED
    BY <1>1, <2>1
<1>3. anchors \in [Interps -> Seq(Nat)]
  BY DEF Init
<1>4. TypeOK
  <2>1. consumers \in [Interps -> SUBSET Nat]
    BY DEF Init
  <2>2. first \in Nat /\ last \in Nat /\ first <= last
    BY DEF Init
  <2>3. freed \subseteq Interps /\ known \subseteq Interps
    BY DEF Init
  <2>4. /\ doubleDelete \in BOOLEAN /\ SkipShutDown \in BOOLEAN
        /\ exited \in BOOLEAN /\ shuffled \in BOOLEAN
    BY Zenon DEF Init
  <2>5. QED
    BY <1>2, <1>3, <2>1, <2>2, <2>3, <2>4 DEF TypeOK
<1>5. OwnershipExact /\ KnownCovers
  BY <1>1 DEF Init, OwnershipExact, KnownCovers
<1>6. QED
  BY <1>4, <1>5 DEF Inv

\* RegisterInterpreter on an interpreter that is neither registered nor freed.
LEMMA RegisterInv ==
  ASSUME Inv, NEW i \in Interps, NEW o \in BOOLEAN, RegisterInterpreter(i, o),
         i \notin freed, \A a \in Slots : slots[a].Interpreter # i,
         o <=> i \in Owned,
         SkipShutDown' \in BOOLEAN, shuffled' \in BOOLEAN
  PROVE  Inv'
<1> USE DEF Slots
<1>1. /\ NewInfo(i, o) \in InterpreterInfo
      /\ NewInfo(i, o).Interpreter = i
      /\ NewInfo(i, o).isOwned = o
  BY NewInfoFacts
<1>2. /\ first \in Nat /\ last \in Nat /\ first <= last
      /\ first' = first /\ last' = last + 1
  BY DEF Inv, TypeOK, RegisterInterpreter
<1>3. Slots' = first..last
  BY <1>2
<1>4. \A a \in Slots' : slots'[a] = IF a = last THEN NewInfo(i, o) ELSE slots[a]
  BY <1>2, <1>3 DEF RegisterInterpreter
<1>5. TypeOK'
  <2>1. slots' \in [Slots' -> InterpreterInfo]
    BY <1>1, <1>2, <1>3 DEF RegisterInterpreter, Inv, TypeOK
  <2>2. consumers' \in [Interps -> SUBSET Nat]
    BY <1>2 DEF RegisterInterpreter, Inv, TypeOK
  <2>3. QED
    BY <1>2, <2>1, <2>2 DEF RegisterInterpreter, Inv, TypeOK
<1>6. OwnershipExact'
  <2>1. ~doubleDelete' /\ freed' = freed /\ freed' \cap External = {}
    BY DEF RegisterInterpreter, Inv, OwnershipExact
  <2>2. ASSUME NEW a \in Slots'
        PROVE  /\ slots'[a].Interpreter \in Interps \ freed'
               /\ slots'[a].isOwned <=> slots'[a].Interpreter \in Owned
               /\ \A b \in Slots' :
                    slots'[a].Interpreter = slots'[b].Interpreter => a = b
    <3>1. \A b \in Slots : /\ slots[b].Interpreter \in Interps \ freed
                           /\ slots[b].isOwned <=> slots[b].Interpreter \in Owned
                           /\ \A c \in Slots :
                                slots[b].Interpreter = slots[c].Interpreter => b = c
      BY DEF Inv, OwnershipExact
    <3>2. CASE a = last
      BY <1>1, <1>2, <1>3, <1>4, <2>1, <3>2
    <3>3. CASE a # last
      <4>1. a \in Slots /\ slots'[a] = slots[a]
        BY <1>2, <1>3, <1>4, <3>3
      <4>2. ASSUME NEW b \in Slots', slots'[a].Interpreter = slots'[b].Interpreter
            PROVE  a = b
        BY <1>1, <1>2, <1>3, <1>4, <3>1, <4>1, <4>2
      <4>3. QED
        BY <2>1, <3>1, <4>1, <4>2
    <3>4. QED
      BY <3>2, <3>3
  <2>3. ASSUME ~exited', NEW j \in Owned \cap known'
        PROVE  j \in freed' \/ Registered(j)'
    <3>1. CASE j = i
      BY <3>1, <1>1, <1>2, <1>3, <1>4 DEF Registered
    <3>2. CASE j # i
      <4>1. j \in known /\ ~exited
        BY <3>2, <2>3 DEF RegisterInterpreter
      <4>2. j \in freed \/ \E a \in Slots : slots[a].Interpreter = j
        BY <4>1 DEF Inv, OwnershipExact, Registered
      <4>3. QED
        BY <4>2, <2>1, <1>2, <1>3, <1>4 DEF Registered
    <3>3. QED
      BY <3>1, <3>2
  <2>4. QED
    BY <2>1, <2>2, <2>3 DEF OwnershipExact
<1>7. KnownCovers'
  BY <1>1, <1>2, <1>3, <1>4 DEF RegisterInterpreter, Inv, KnownCovers
<1>8. QED
  BY <1>5, <1>6, <1>7 DEF Inv

\* Every operation that shortens, permutes or updates the deque: the new slots
\* take their identity from distinct old ones, and exactly the interpreters of
\* the old slots nobody took it from are deleted.
LEMMA RearrangeInv ==
  ASSUME Inv,
         NEW src \in [Slots' -> Slots],
         slots' \in [Slots' -> InterpreterInfo],
         first' \in Nat, last' \in Nat, first' <= last',
         \A a \in Slots' : /\ slots'[a].Interpreter = slots[src[a]].Interpreter
                           /\ slots'[a].isOwned = slots[src[a]].isOwned,
         \A a, b \in Slots' : src[a] = src[b] => a = b,
         freed' = freed \cup {slots[a].Interpreter :
                               a \in {c \in Slots : /\ slots[c].isOwned
                                                    /\ \A b \in Slots' : src[b] # c}},
         doubleDelete' = FALSE, known' = known,
         consumers' \in [Interps -> SUBSET Nat], anchors' \in [Interps -> Seq(Nat)],
         SkipShutDown' \in BOOLEAN, shuffled' \in BOOLEAN, ~exited, exited' = exited
  PROVE  Inv'
<1> DEFINE gone == {c \in Slots : slots[c].isOwned /\ \A b \in Slots' : src[b] # c}
<1>a. \A a \in Slots : slots[a].Interpreter \in (Interps \ freed) \cap known
  BY DEF Inv, OwnershipExact, KnownCovers
<1>b. \A a \in Slots : slots[a].isOwned <=> slots[a].Interpreter \in Owned
  BY DEF Inv, OwnershipExact
<1>1. /\ \A a, b \in Slots : slots[a].Interpreter = slots[b].Interpreter => a = b
      /\ freed \subseteq known /\ freed \cap External = {} /\ known \subseteq Interps
      /\ \A i \in Owned \cap known :
           i \in freed \/ \E a \in Slots : slots[a].Interpreter = i
  BY DEF Inv, TypeOK, OwnershipExact, KnownCovers, Registered
<1>2. freed' = freed \cup {slots[a].Interpreter : a \in gone}
  OBVIOUS
<1> HIDE DEF gone
<1>3. \A c \in gone : c \in Slots /\ slots[c].isOwned /\ \A b \in Slots' : src[b] # c
  BY DEF gone
<1>4. \A c \in Slots : slots[c].isOwned /\ (\A b \in Slots' : src[b] # c) => c \in gone
  BY DEF gone
<1>5. /\ freed' \cap External = {}
      /\ freed' \subseteq known
  <2>1. \A c \in gone : slots[c].Interpreter \in Owned \cap known
    BY <1>a, <1>b, <1>3
  <2>2. {slots[c].Interpreter : c \in gone} \subseteq Owned \cap known
    BY <2>1
  <2>3. QED
    BY <1>1, <1>2, <2>2, OwnershipAssumption
<1>6. ASSUME NEW a \in Slots'
      PROVE  /\ slots'[a].Interpreter \in Interps \ freed'
             /\ slots'[a].isOwned <=> slots'[a].Interpreter \in Owned
             /\ slots'[a].Interpreter \in known'
             /\ \A b \in Slots' : slots'[a].Interpreter = slots'[b].Interpreter => a = b
  <2>1. src[a] \in Slots
    OBVIOUS
  <2>2. slots'[a].Interpreter \notin {slots[c].Interpreter : c \in gone}
    BY <2>1, <1>1, <1>3
  <2>3. /\ slots'[a].Interpreter = slots[src[a]].Interpreter
        /\ slots'[a].isOwned = slots[src[a]].isOwned
    OBVIOUS
  <2>4. \A b \in Slots' : slots'[a].Interpreter = slots'[b].Interpreter => a = b
    BY <1>1
  <2>5. slots'[a].Interpreter \in Interps \ freed'
    BY <1>a, <1>2, <2>1, <2>2, <2>3
  <2>6. slots'[a].isOwned <=> slots'[a].Interpreter \in Owned
    BY <1>b, <2>1, <2>3
  <2>7. slots'[a].Interpreter \in known'
    BY <1>a, <2>1, <2>3
  <2>8. QED
    BY <2>4, <2>5, <2>6, <2>7
<1>7. ASSUME NEW i \in Owned \cap known'
      PROVE  i \in freed' \/ \E a \in Slots' : slots'[a].Interpreter = i
  <2>1. CASE i \in freed
    BY <2>1, <1>2
  <2>2. CASE \E c \in Slots : slots[c].Interpreter = i
    <3>1. PICK c \in Slots : slots[c].Interpreter = i
      BY <2>2
    <3>2. CASE \E b \in Slots' : src[b] = c
      BY <3>1, <3>2
    <3>3. CASE \A b \in Slots' : src[b] # c
      BY <3>1, <3>3, <1>b, <1>2, <1>4
    <3>4. QED
      BY <3>2, <3>3
  <2>3. QED
    BY <1>1, <2>1, <2>2
<1>8. TypeOK'
  <2>1. freed' \subseteq Interps /\ known' \subseteq Interps
    BY <1>1, <1>5
  <2>2. doubleDelete' \in BOOLEAN /\ exited' \in BOOLEAN
    BY Zenon DEF Inv, TypeOK
  <2>3. QED
    BY <2>1, <2>2 DEF TypeOK
<1>9. OwnershipExact'
  BY <1>5, <1>6, <1>7 DEF OwnershipExact, Registered
<1>10. KnownCovers'
  BY <1>5, <1>6 DEF KnownCovers
<1>11. QED
  BY <1>8, <1>9, <1>10 DEF Inv

\* Overwriting or destroying moved-from slots deletes nothing.
LEMMA ReleaseNothing ==
  ASSUME NEW f, Release(f), \A a \in DOMAIN f : ~f[a].isOwned
  PROVE  freed' = freed /\ (~doubleDelete => doubleDelete' = FALSE)
<1>1. Deleting(f) = {}
  BY DEF Deleting
<1>2. QED
  BY <1>1 DEF Release

\* ActivateInterpreter permutes the identities of the slots from the found one on.
LEMMA ActivateInv ==
  ASSUME Inv, NEW i \in Interps, ActivateInterpreter(i)
  PROVE  Inv'
<1> DEFINE p == Find(i)
           e == last - 1
           from(a) == IF a < p THEN a ELSE IF a = e THEN p ELSE a + 1
           src == [a \in Slots' |-> from(a)]
<1>1. p \in Slots /\ slots[p].Interpreter = i
  BY FindFacts DEF Inv, ActivateInterpreter
<1>2. /\ first \in Nat /\ last \in Nat /\ first <= last
      /\ first' = first /\ last' = last /\ Slots' = Slots
      /\ first <= p /\ p <= e /\ p \in Int
  BY <1>1 DEF Inv, TypeOK, ActivateInterpreter, Slots
<1>3. \A a \in Slots : slots[a] \in InterpreterInfo
  BY DEF Inv, TypeOK
<1>4. slots' = [a \in Slots |-> IF a < p THEN slots[a]
                              ELSE MovedInto(slots[a], IF a = e THEN slots[p] ELSE slots[a + 1])]
  BY DEF ActivateInterpreter
<1>5. Release([a \in (IF p = e THEN {} ELSE p..e) |-> MovedFrom(slots[a])])
  BY DEF ActivateInterpreter
<1> HIDE DEF p
<1>6. \A a \in Slots : from(a) \in Slots
  BY <1>1, <1>2 DEF Slots
<1>7. \A a \in Slots : /\ slots'[a] \in InterpreterInfo
                       /\ slots'[a].Interpreter = slots[from(a)].Interpreter
                       /\ slots'[a].isOwned = slots[from(a)].isOwned
  <2> SUFFICES ASSUME NEW a \in Slots
               PROVE  /\ slots'[a] \in InterpreterInfo
                      /\ slots'[a].Interpreter = slots[from(a)].Interpreter
                      /\ slots'[a].isOwned = slots[from(a)].isOwned
    OBVIOUS
  <2>1. slots[a] \in InterpreterInfo /\ slots[from(a)] \in InterpreterInfo
    BY <1>3, <1>6
  <2>2. CASE a < p
    BY <1>4, <2>1, <2>2
  <2>3. CASE ~(a < p)
    <3>1. slots'[a] = MovedInto(slots[a], slots[from(a)])
      BY <1>4, <2>3
    <3>2. QED
      BY <2>1, <3>1, MovedIntoFacts
  <2>4. QED
    BY <2>2, <2>3
<1>8. \A a, b \in Slots : from(a) = from(b) => a = b
  BY <1>2 DEF Slots
<1>9. \A c \in Slots : \E b \in Slots : from(b) = c
  <2> TAKE c \in Slots
  <2>1. CASE c < p
    BY <2>1
  <2>2. CASE c = p
    <3>1. e \in Slots /\ from(e) = p
      BY <1>2 DEF Slots
    <3>2. QED
      BY <2>2, <3>1
  <2>3. CASE c > p
    <3>1. c - 1 \in Slots /\ from(c - 1) = c
      BY <2>3, <1>2 DEF Slots
    <3>2. QED
      BY <3>1
  <2>4. QED
    BY <1>2, <2>1, <2>2, <2>3 DEF Slots
<1>10. freed' = freed /\ doubleDelete' = FALSE
  <2>1. \A a \in p..e : ~MovedFrom(slots[a]).isOwned
    <3>1. \A a \in p..e : slots[a] \in InterpreterInfo
      BY <1>2, <1>3 DEF Slots
    <3>2. QED
      BY <3>1, MovedFromFacts
  <2>2. ~doubleDelete
    BY DEF Inv, OwnershipExact
  <2> DEFINE f == [a \in (IF p = e THEN {} ELSE p..e) |-> MovedFrom(slots[a])]
  <2>3. \A a \in DOMAIN f : ~f[a].isOwned
    BY <2>1
  <2>4. Release(f)
    BY <1>5
  <2> HIDE DEF f
  <2>5. QED
    BY <2>2, <2>3, <2>4, ReleaseNothing
<1>11. /\ src \in [Slots' -> Slots]
       /\ \A a \in Slots' : src[a] = from(a)
  BY <1>2, <1>6
<1>12. slots' \in [Slots' -> InterpreterInfo]
  BY <1>2, <1>4, <1>7
<1>13. {c \in Slots : slots[c].isOwned /\ \A b \in Slots' : src[b] # c} = {}
  BY <1>2, <1>9, <1>11
<1>14. ~exited
  BY <1>1, <1>2 DEF Inv, KnownCovers, Slots
<1>15. shuffled' \in BOOLEAN
  BY DEF ActivateInterpreter
<1>16. /\ known' = known /\ exited' = exited
       /\ consumers' \in [Interps -> SUBSET Nat] /\ anchors' \in [Interps -> Seq(Nat)]
       /\ SkipShutDown' \in BOOLEAN
  BY DEF ActivateInterpreter, Inv, TypeOK
<1>17. \A a \in Slots' : /\ slots'[a].Interpreter = slots[src[a]].Interpreter
                         /\ slots'[a].isOwned = slots[src[a]].isOwned
  BY <1>2, <1>7, <1>11
<1>18. \A a, b \in Slots' : src[a] = src[b] => a = b
  BY <1>2, <1>8, <1>11
<1>19. freed' = freed \cup {slots[a].Interpreter :
                              a \in {c \in Slots : /\ slots[c].isOwned
                                                   /\ \A b \in Slots' : src[b] # c}}
  BY <1>10, <1>13
<1>20. first' \in Nat /\ last' \in Nat /\ first' <= last'
  BY <1>2
<1> HIDE DEF src
<1>21. QED
  BY <1>10, <1>11, <1>12, <1>14, <1>15, <1>16, <1>17, <1>18, <1>19, <1>20, RearrangeInv

\* An operation that removes the entry at p: the remaining slots take their
\* identity from the other entries, and the entry at p is released.
LEMMA RemoveInv ==
  ASSUME Inv, NEW p \in Slots,
         NEW src \in [Slots' -> Slots],
         slots' \in [Slots' -> InterpreterInfo],
         first' \in Nat, last' \in Nat, first' <= last',
         \A a \in Slots' : /\ slots'[a].Interpreter = slots[src[a]].Interpreter
                           /\ slots'[a].isOwned = slots[src[a]].isOwned,
         \A a, b \in Slots' : src[a] = src[b] => a = b,
         \A c \in Slots : (\A b \in Slots' : src[b] # c) <=> c = p,
         NEW f, Release(f), p \in DOMAIN f, f[p] = slots[p],
         \A a \in DOMAIN f : a # p => ~f[a].isOwned,
         UNCHANGED <<known, consumers, anchors, SkipShutDown, exited>>,
         shuffled' \in BOOLEAN
  PROVE  Inv'
<1>1. /\ freed' = freed \cup (IF slots[p].isOwned THEN {slots[p].Interpreter} ELSE {})
      /\ doubleDelete' = FALSE
  <2>1. /\ slots[p].Interpreter \in Interps \ freed
        /\ slots[p].Interpreter # NULL
        /\ ~doubleDelete
    BY OwnershipAssumption DEF Inv, OwnershipExact
  <2>2. Deleting(f) = IF slots[p].isOwned THEN {p} ELSE {}
    BY <2>1 DEF Deleting
  <2>3. freed' = freed \cup (IF slots[p].isOwned THEN {slots[p].Interpreter} ELSE {})
    BY <2>2 DEF Release
  <2>4. doubleDelete' = FALSE
    BY <2>1, <2>2 DEF Release
  <2>5. QED
    BY <2>3, <2>4
<1>2. {c \in Slots : slots[c].isOwned /\ \A b \in Slots' : src[b] # c}
        = IF slots[p].isOwned THEN {p} ELSE {}
  OBVIOUS
<1>3. freed' = freed \cup {slots[a].Interpreter :
                             a \in {c \in Slots : /\ slots[c].isOwned
                                                  /\ \A b \in Slots' : src[b] # c}}
  BY <1>1, <1>2
<1>4. ~exited
  BY DEF Inv, TypeOK, KnownCovers, Slots
<1>5. /\ consumers' \in [Interps -> SUBSET Nat] /\ anchors' \in [Interps -> Seq(Nat)]
      /\ SkipShutDown' \in BOOLEAN
  BY DEF Inv, TypeOK
<1>6. QED
  BY <1>1, <1>3, <1>4, <1>5, RearrangeInv

\* erase, when the entries behind the erased one move down.
LEMMA EraseBackwardInv ==
  ASSUME Inv, NEW p \in Slots, EraseBackward(p), shuffled' \in BOOLEAN,
         UNCHANGED <<known, consumers, anchors, SkipShutDown, exited>>
  PROVE  Inv'
<1> DEFINE from(a) == IF a < p THEN a ELSE a + 1
           src == [a \in Slots' |-> from(a)]
           f == [a \in p..(last - 1) |-> IF a = p THEN slots[a] ELSE MovedFrom(slots[a])]
<1>1. /\ first \in Nat /\ last \in Nat /\ p \in Int /\ first <= p /\ p <= last - 1
      /\ first' = first /\ last' = last - 1 /\ Slots' = first..(last - 2)
  BY DEF Inv, TypeOK, EraseBackward, Slots
<1>2. \A a \in Slots : slots[a] \in InterpreterInfo
  BY DEF Inv, TypeOK
<1>3. slots' = [a \in first..(last - 2) |->
                 IF a < p THEN slots[a] ELSE MovedInto(slots[a], slots[a + 1])]
  BY DEF EraseBackward
<1>4. \A a \in Slots' : a \in Slots /\ from(a) \in Slots
  BY <1>1 DEF Slots
<1>5. \A a \in Slots' : /\ slots'[a] \in InterpreterInfo
                        /\ slots'[a].Interpreter = slots[from(a)].Interpreter
                        /\ slots'[a].isOwned = slots[from(a)].isOwned
  <2> SUFFICES ASSUME NEW a \in Slots'
               PROVE  /\ slots'[a] \in InterpreterInfo
                      /\ slots'[a].Interpreter = slots[from(a)].Interpreter
                      /\ slots'[a].isOwned = slots[from(a)].isOwned
    OBVIOUS
  <2>1. slots[a] \in InterpreterInfo /\ slots[from(a)] \in InterpreterInfo
    BY <1>2, <1>4
  <2>2. CASE a < p
    BY <1>1, <1>3, <2>1, <2>2
  <2>3. CASE ~(a < p)
    <3>1. slots'[a] = MovedInto(slots[a], slots[from(a)])
      BY <1>1, <1>3, <2>3
    <3>2. QED
      BY <2>1, <3>1, MovedIntoFacts
  <2>4. QED
    BY <2>2, <2>3
<1>6. /\ src \in [Slots' -> Slots]
      /\ \A a \in Slots' : src[a] = from(a)
  BY <1>4
<1>7. \A a, b \in Slots' : src[a] = src[b] => a = b
  BY <1>1, <1>6
<1>8. \A c \in Slots : (\A b \in Slots' : src[b] # c) <=> c = p
  <2> TAKE c \in Slots
  <2>1. CASE c < p
    <3>1. c \in Slots' /\ src[c] = c
      BY <2>1, <1>1, <1>6 DEF Slots
    <3>2. QED
      BY <2>1, <3>1, <1>1
  <2>2. CASE c > p
    <3>1. c - 1 \in Slots' /\ src[c - 1] = c
      BY <2>2, <1>1, <1>6 DEF Slots
    <3>2. QED
      BY <2>2, <3>1, <1>1
  <2>3. CASE c = p
    BY <2>3, <1>1, <1>6
  <2>4. QED
    BY <1>1, <2>1, <2>2, <2>3 DEF Slots
<1>9. Release(f) /\ p \in DOMAIN f /\ f[p] = slots[p]
  BY <1>1 DEF EraseBackward
<1>10. \A a \in DOMAIN f : a # p => ~f[a].isOwned
  <2>1. \A a \in p..(last - 1) : slots[a] \in InterpreterInfo
    BY <1>1, <1>2 DEF Slots
  <2>2. QED
    BY <2>1, MovedFromFacts
<1>11. slots' \in [Slots' -> InterpreterInfo]
  BY <1>1, <1>3, <1>5
<1>12. \A a \in Slots' : /\ slots'[a].Interpreter = slots[src[a]].Interpreter
                         /\ slots'[a].isOwned = slots[src[a]].isOwned
  BY <1>5, <1>6
<1>13. first' \in Nat /\ last' \in Nat /\ first' <= last'
  BY <1>1
<1> HIDE DEF src, f
<1>14. QED
  BY <1>6, <1>7, <1>8, <1>9, <1>10, <1>11, <1>12, <1>13, RemoveInv

\* erase, when the entries before the erased one move up.
LEMMA EraseForwardInv ==
  ASSUME Inv, NEW p \in Slots, EraseForward(p), shuffled' \in BOOLEAN,
         UNCHANGED <<known, consumers, anchors, SkipShutDown, exited>>
  PROVE  Inv'
<1> DEFINE from(a) == IF a <= p THEN a - 1 ELSE a
           src == [a \in Slots' |-> from(a)]
           f == [a \in first..p |-> IF a = p THEN slots[a] ELSE MovedFrom(slots[a])]
<1>1. /\ first \in Nat /\ last \in Nat /\ p \in Int /\ first <= p /\ p <= last - 1
      /\ first' = first + 1 /\ last' = last /\ Slots' = (first + 1)..(last - 1)
  BY DEF Inv, TypeOK, EraseForward, Slots
<1>2. \A a \in Slots : slots[a] \in InterpreterInfo
  BY DEF Inv, TypeOK
<1>3. slots' = [a \in (first + 1)..(last - 1) |->
                 IF a <= p THEN MovedInto(slots[a], slots[a - 1]) ELSE slots[a]]
  BY DEF EraseForward
<1>4. \A a \in Slots' : a \in Slots /\ from(a) \in Slots
  BY <1>1 DEF Slots
<1>5. \A a \in Slots' : /\ slots'[a] \in InterpreterInfo
                        /\ slots'[a].Interpreter = slots[from(a)].Interpreter
                        /\ slots'[a].isOwned = slots[from(a)].isOwned
  <2> SUFFICES ASSUME NEW a \in Slots'
               PROVE  /\ slots'[a] \in InterpreterInfo
                      /\ slots'[a].Interpreter = slots[from(a)].Interpreter
                      /\ slots'[a].isOwned = slots[from(a)].isOwned
    OBVIOUS
  <2>1. slots[a] \in InterpreterInfo /\ slots[from(a)] \in InterpreterInfo
    BY <1>2, <1>4
  <2>2. CASE ~(a <= p)
    BY <1>1, <1>3, <2>1, <2>2
  <2>3. CASE a <= p
    <3>1. slots'[a] = MovedInto(slots[a], slots[from(a)])
      BY <1>1, <1>3, <2>3
    <3>2. QED
      BY <2>1, <3>1, MovedIntoFacts
  <2>4. QED
    BY <2>2, <2>3
<1>6. /\ src \in [Slots' -> Slots]
      /\ \A a \in Slots' : src[a] = from(a)
  BY <1>4
<1>7. \A a, b \in Slots' : src[a] = src[b] => a = b
  BY <1>1, <1>6
<1>8. \A c \in Slots : (\A b \in Slots' : src[b] # c) <=> c = p
  <2> TAKE c \in Slots
  <2>1. CASE c < p
    <3>1. c + 1 \in Slots' /\ src[c + 1] = c
      BY <2>1, <1>1, <1>6 DEF Slots
    <3>2. QED
      BY <2>1, <3>1, <1>1
  <2>2. CASE c > p
    <3>1. c \in Slots' /\ src[c] = c
      BY <2>2, <1>1, <1>6 DEF Slots
    <3>2. QED
      BY <2>2, <3>1, <1>1
  <2>3. CASE c = p
    BY <2>3, <1>1, <1>6
  <2>4. QED
    BY <1>1, <2>1, <2>2, <2>3 DEF Slots
<1>9. Release(f) /\ p \in DOMAIN f /\ f[p] = slots[p]
  BY <1>1 DEF EraseForward
<1>10. \A a \in DOMAIN f : a # p => ~f[a].isOwned
  <2>1. \A a \in first..p : slots[a] \in InterpreterInfo
    BY <1>1, <1>2 DEF Slots
  <2>2. QED
    BY <2>1, MovedFromFacts
<1>11. slots' \in [Slots' -> InterpreterInfo]
  BY <1>1, <1>3, <1>5
<1>12. \A a \in Slots' : /\ slots'[a].Interpreter = slots[src[a]].Interpreter
                         /\ slots'[a].isOwned = slots[src[a]].isOwned
  BY <1>5, <1>6
<1>13. first' \in Nat /\ last' \in Nat /\ first' <= last'
  BY <1>1
<1> HIDE DEF src, f
<1>14. QED
  BY <1>6, <1>7, <1>8, <1>9, <1>10, <1>11, <1>12, <1>13, RemoveInv

\* The deque and its slots.
LEMMA Deque ==
  ASSUME Inv
  PROVE  /\ first \in Nat /\ last \in Nat /\ first <= last /\ Slots = first..(last - 1)
         /\ \A a \in Slots : slots[a] \in InterpreterInfo
BY DEF Inv, TypeOK, Slots

\* pop_back is an erasure at the end that moves nothing.
LEMMA PopBackErases ==
  ASSUME Inv, first < last, PopBack
  PROVE  last - 1 \in Slots /\ EraseBackward(last - 1)
<1>1. last - 1 \in Slots /\ first \in Nat /\ last \in Nat
  BY Deque
<1>2. [a \in first..(last - 2) |-> slots[a]]
        = [a \in first..(last - 2) |->
             IF a < last - 1 THEN slots[a] ELSE MovedInto(slots[a], slots[a + 1])]
  BY <1>1
<1>3. [a \in {last - 1} |-> slots[a]]
        = [a \in (last - 1)..(last - 1) |->
             IF a = last - 1 THEN slots[a] ELSE MovedFrom(slots[a])]
  <2>1. {last - 1} = (last - 1)..(last - 1)
    BY <1>1
  <2>. QED
    BY <2>1
<1>. QED
  BY <1>1, <1>2, <1>3 DEF PopBack, EraseBackward

\* Deleting the last entry keeps the invariant.
LEMMA PopBackInv ==
  ASSUME Inv, first < last, PopBack, shuffled' \in BOOLEAN,
         UNCHANGED <<known, consumers, anchors, SkipShutDown, exited>>
  PROVE  Inv'
BY PopBackErases, EraseBackwardInv

\* A step that changes only caches, diagnostics and counters of the slots.
LEMMA CacheStepInv ==
  ASSUME Inv, UNCHANGED <<first, last, freed, doubleDelete, known, consumers,
                          SkipShutDown, exited, shuffled>>,
         anchors' \in [Interps -> Seq(Nat)],
         slots' \in [Slots -> InterpreterInfo],
         \A a \in Slots : /\ slots'[a].Interpreter = slots[a].Interpreter
                          /\ slots'[a].isOwned = slots[a].isOwned
  PROVE  Inv'
<1>1. Slots' = Slots
  BY DEF Slots
<1>2. TypeOK'
  BY <1>1 DEF Inv, TypeOK
<1>3. OwnershipExact'
  <2>1. ~doubleDelete' /\ freed' \cap External = {}
    BY DEF Inv, OwnershipExact
  <2>2. \A a \in Slots' :
          /\ slots'[a].Interpreter \in Interps \ freed'
          /\ slots'[a].isOwned <=> slots'[a].Interpreter \in Owned
          /\ \A b \in Slots' : slots'[a].Interpreter = slots'[b].Interpreter => a = b
    BY <1>1 DEF Inv, OwnershipExact
  <2>3. ~exited' => \A i \in Owned \cap known' : i \in freed' \/ Registered(i)'
    BY <1>1 DEF Inv, OwnershipExact, Registered
  <2>4. QED
    BY <2>1, <2>2, <2>3 DEF OwnershipExact
<1>4. KnownCovers'
  BY <1>1 DEF Inv, KnownCovers
<1>5. QED
  BY <1>2, <1>3, <1>4 DEF Inv

\* Update of one slot that keeps its identity.
LEMMA UpdateInv ==
  ASSUME Inv, NEW a \in Slots, NEW info \in InterpreterInfo, Update(a, info),
         info.Interpreter = slots[a].Interpreter, info.isOwned = slots[a].isOwned,
         anchors' \in [Interps -> Seq(Nat)]
  PROVE  Inv'
<1>1. slots \in [Slots -> InterpreterInfo]
  BY DEF Inv, TypeOK
<1>2. /\ slots' = [slots EXCEPT ![a] = info]
      /\ UNCHANGED <<first, last, freed, doubleDelete, known, consumers,
                     SkipShutDown, exited, shuffled>>
  BY DEF Update
<1>3. slots' \in [Slots -> InterpreterInfo]
  BY <1>1, <1>2
<1>4. \A b \in Slots : /\ slots'[b].Interpreter = slots[b].Interpreter
                       /\ slots'[b].isOwned = slots[b].isOwned
  BY <1>1, <1>2
<1>5. QED
  BY <1>2, <1>3, <1>4, CacheStepInv

\* getInterpInfo returns a slot as soon as there is one.
LEMMA InfoFacts ==
  ASSUME Inv, first < last, NEW i
  PROVE  /\ getInterpInfo(i) \in Slots /\ last - 1 \in Slots
         /\ slots[getInterpInfo(i)] \in InterpreterInfo
         /\ slots[last - 1] \in InterpreterInfo
         /\ Active \in Interps
<1>1. last - 1 \in Slots
  BY DEF Inv, TypeOK, Slots
<1>2. getInterpInfo(i) \in Slots
  BY <1>1, FindFacts DEF Inv, getInterpInfo
<1>3. Active \in Interps
  BY <1>1 DEF Inv, OwnershipExact, Active
<1>4. QED
  BY <1>1, <1>2, <1>3 DEF Inv, TypeOK

\* CreateInterpreter registers an interpreter nobody has seen before.
LEMMA CreateInv ==
  ASSUME Inv, NEW i \in Interps, CreateInterpreter(i)
  PROVE  Inv'
<1>1. i \notin freed /\ \A a \in Slots : slots[a].Interpreter # i
  BY DEF Inv, KnownCovers, CreateInterpreter
<1>2. i \in Owned /\ RegisterInterpreter(i, TRUE)
  BY DEF CreateInterpreter
<1>3. SkipShutDown' \in BOOLEAN /\ shuffled' \in BOOLEAN
  BY DEF CreateInterpreter, Inv, TypeOK
<1>4. QED
  BY <1>1, <1>2, <1>3, RegisterInv

\* UseExternalInterpreter registers into an empty registry.
LEMMA UseExternalInv ==
  ASSUME Inv, NEW i \in Interps, UseExternalInterpreter(i)
  PROVE  Inv'
<1>1. i \in External /\ first = last /\ RegisterInterpreter(i, FALSE)
  BY DEF UseExternalInterpreter
<1>2. Slots = {}
  BY <1>1 DEF Inv, TypeOK, Slots
<1>3. i \notin freed /\ i \notin Owned
  BY <1>1, OwnershipAssumption DEF Inv, OwnershipExact
<1>4. SkipShutDown' \in BOOLEAN /\ shuffled' \in BOOLEAN
  BY DEF UseExternalInterpreter, Inv, TypeOK
<1>5. QED
  BY <1>1, <1>2, <1>3, <1>4, RegisterInv

\* DeleteInterpreter(I) and DeleteInterpreter(nullptr).
LEMMA DeleteInv ==
  ASSUME Inv, (\E i \in Interps : DeleteInterpreter(i)) \/ DeleteLast
  PROVE  Inv'
<1>1. CASE DeleteLast
  <2>1. /\ first < last /\ PopBack /\ shuffled' \in BOOLEAN
        /\ UNCHANGED <<known, consumers, anchors, SkipShutDown, exited>>
    BY <1>1 DEF DeleteLast
  <2>2. QED
    BY <2>1, PopBackInv
<1>2. ASSUME NEW i \in Interps, DeleteInterpreter(i)
      PROVE  Inv'
  <2>1. /\ Registered(i) /\ Erase(Find(i)) /\ shuffled' \in BOOLEAN
        /\ UNCHANGED <<known, consumers, anchors, SkipShutDown, exited>>
    BY <1>2 DEF DeleteInterpreter
  <2>2. Find(i) \in Slots
    BY <2>1, FindFacts DEF Inv
  <2>3. EraseForward(Find(i)) \/ EraseBackward(Find(i))
    BY <2>1 DEF Erase
  <2>4. QED
    BY <2>1, <2>2, <2>3, EraseForwardInv, EraseBackwardInv
<1>3. QED
  BY <1>1, <1>2

\* Static destruction empties the registry; what it deletes was registered.
LEMMA ExitInv ==
  ASSUME Inv, ProcessExit
  PROVE  Inv'
<1>1. /\ first' = last /\ last' = last /\ last \in Nat /\ exited' = TRUE
      /\ known' = known
  BY DEF ProcessExit, Inv, TypeOK
<1>2. Slots' = {}
  BY <1>1 DEF Slots
<1>3. slots' \in [Slots' -> InterpreterInfo]
  <2>1. slots' = [a \in {} |-> NULL]
    BY <1>1, <1>2 DEF ProcessExit, Slots
  <2>2. QED
    BY <1>2, <2>1
<1>A. DOMAIN slots = Slots
  BY DEF Inv, TypeOK
<1>B. \A a \in Slots : slots[a].Interpreter \in (Interps \ freed) \cap known
  BY DEF Inv, OwnershipExact, KnownCovers
<1>4. \A a \in Slots : slots[a].isOwned <=> slots[a].Interpreter \in Owned
  BY DEF Inv, OwnershipExact
<1>5. \A a, b \in Slots : slots[a].Interpreter = slots[b].Interpreter => a = b
  BY DEF Inv, OwnershipExact
<1>6. /\ freed' \subseteq known /\ freed' \cap External = {}
      /\ doubleDelete' = FALSE
  <2>1. /\ freed \subseteq known /\ freed \cap External = {}
        /\ doubleDelete = FALSE
    BY DEF Inv, TypeOK, OwnershipExact, KnownCovers
  <2>2. CASE Release(slots)
    <3>1. \A a \in Deleting(slots) : /\ a \in Slots
                                    /\ slots[a].Interpreter \in (Owned \cap known) \ freed
      BY <1>A, <1>B, <1>4 DEF Deleting
    <3>2. freed' \subseteq freed \cup (Owned \cap known)
      BY <2>2, <3>1 DEF Release
    <3>3. doubleDelete' = FALSE
      BY <2>1, <2>2, <3>1, <1>5 DEF Release
    <3>4. QED
      BY <2>1, <3>2, <3>3, OwnershipAssumption
  <2>3. CASE UNCHANGED <<freed, doubleDelete>>
    BY <2>1, <2>3
  <2>4. QED
    BY <2>2, <2>3 DEF ProcessExit
<1>7. TypeOK'
  <2>1. /\ freed' \subseteq Interps /\ known' \subseteq Interps
    BY <1>1, <1>6 DEF Inv, TypeOK
  <2>2. /\ consumers' \in [Interps -> SUBSET Nat] /\ anchors' \in [Interps -> Seq(Nat)]
        /\ SkipShutDown' \in BOOLEAN /\ shuffled' \in BOOLEAN
    BY DEF ProcessExit, Inv, TypeOK
  <2>3. doubleDelete' \in BOOLEAN /\ exited' \in BOOLEAN
    BY <1>1, <1>6, Zenon
  <2>4. QED
    BY <1>1, <1>3, <2>1, <2>2, <2>3 DEF TypeOK
<1>8. OwnershipExact'
  BY <1>1, <1>2, <1>6 DEF OwnershipExact
<1>9. KnownCovers'
  BY <1>1, <1>2, <1>6 DEF KnownCovers
<1>10. QED
  BY <1>7, <1>8, <1>9 DEF Inv

\* The steps that work on slot contents.
LEMMA ContentInv ==
  ASSUME Inv,
         \/ \E i \in Interps : \/ HandleDiagnostic(i)
                               \/ DrainPending(i)
                               \/ MakeFunctionCallable(i)
         \/ FindBuiltinType
         \/ \E declared \in BOOLEAN : EmitVariableViaOdrUse(declared)
  PROVE  Inv'
<1>1. anchors \in [Interps -> Seq(Nat)] /\ slots \in [Slots -> InterpreterInfo]
  BY DEF Inv, TypeOK
<1>2. ASSUME NEW i \in Interps, HandleDiagnostic(i)
      PROVE  Inv'
  <2>1. slots' = [a \in Slots |-> IF a \in consumers[i]
                                 THEN [slots[a] EXCEPT !.StoredDiags = @ \cup {i}]
                                 ELSE slots[a]]
    BY <1>2 DEF HandleDiagnostic
  <2>2. \A a \in Slots : LET d == [slots[a] EXCEPT !.StoredDiags = @ \cup {i}]
                         IN  /\ d \in InterpreterInfo
                             /\ d.Interpreter = slots[a].Interpreter
                             /\ d.isOwned = slots[a].isOwned
    BY <1>1 DEF InterpreterInfo
  <2>3. /\ slots' \in [Slots -> InterpreterInfo]
        /\ \A a \in Slots : /\ slots'[a].Interpreter = slots[a].Interpreter
                             /\ slots'[a].isOwned = slots[a].isOwned
    BY <1>1, <2>1, <2>2
  <2>4. UNCHANGED <<first, last, freed, doubleDelete, known, consumers,
                    SkipShutDown, exited, shuffled, anchors>>
    BY <1>2 DEF HandleDiagnostic
  <2>5. QED
    BY <1>1, <2>3, <2>4, CacheStepInv
<1>3. ASSUME NEW i \in Interps, DrainPending(i)
      PROVE  Inv'
  <2> DEFINE a == getInterpInfo(i)
             d == [slots[a] EXCEPT !.StoredDiags = {}]
  <2>1. a \in Slots /\ slots[a] \in InterpreterInfo
    BY <1>3, InfoFacts DEF DrainPending
  <2>2. Update(a, d) /\ anchors' = anchors
    BY <1>3 DEF DrainPending
  <2>3. /\ d \in InterpreterInfo
        /\ d.Interpreter = slots[a].Interpreter /\ d.isOwned = slots[a].isOwned
    BY <2>1 DEF InterpreterInfo
  <2> HIDE DEF a, d
  <2>4. QED
    BY <1>1, <2>1, <2>2, <2>3, UpdateInv
<1>4. ASSUME NEW i \in Interps, MakeFunctionCallable(i)
      PROVE  Inv'
  <2> DEFINE a == getInterpInfo(i)
             d == [slots[a] EXCEPT !.WrapperStore = @ \cup {i}]
  <2>1. a \in Slots /\ slots[a] \in InterpreterInfo
    BY <1>4, InfoFacts DEF MakeFunctionCallable
  <2>2. Update(a, d) /\ anchors' = anchors
    BY <1>4 DEF MakeFunctionCallable
  <2>3. /\ d \in InterpreterInfo
        /\ d.Interpreter = slots[a].Interpreter /\ d.isOwned = slots[a].isOwned
    BY <2>1 DEF InterpreterInfo
  <2> HIDE DEF a, d
  <2>4. QED
    BY <1>1, <2>1, <2>2, <2>3, UpdateInv
<1>5. CASE FindBuiltinType
  <2> DEFINE a == last - 1
             d == [slots[a] EXCEPT !.BuiltinMap = Active]
  <2>1. a \in Slots /\ slots[a] \in InterpreterInfo /\ Active \in Interps
    BY <1>5, InfoFacts DEF FindBuiltinType
  <2>2. Update(a, d) /\ anchors' = anchors
    BY <1>5 DEF FindBuiltinType
  <2>3. /\ d \in InterpreterInfo
        /\ d.Interpreter = slots[a].Interpreter /\ d.isOwned = slots[a].isOwned
    BY <2>1 DEF InterpreterInfo
  <2> HIDE DEF a, d
  <2>4. QED
    BY <1>1, <2>1, <2>2, <2>3, UpdateInv
<1>6. ASSUME NEW declared \in BOOLEAN, EmitVariableViaOdrUse(declared)
      PROVE  Inv'
  <2> DEFINE a == getInterpInfo(Active)
             n == slots[a].OdrUseCounter
             d == [slots[a] EXCEPT !.OdrUseCounter = n + 1]
  <2>1. a \in Slots /\ slots[a] \in InterpreterInfo /\ Active \in Interps
    BY <1>6, InfoFacts DEF EmitVariableViaOdrUse
  <2>2. n \in Nat
    BY <2>1 DEF InterpreterInfo
  <2>3. Update(a, d)
    BY <1>6 DEF EmitVariableViaOdrUse
  <2>4. anchors' \in [Interps -> Seq(Nat)]
    <3>1. \/ anchors' = [anchors EXCEPT ![Active] = Append(@, n)]
          \/ anchors' = anchors
      BY <1>6 DEF EmitVariableViaOdrUse
    <3>2. Append(anchors[Active], n) \in Seq(Nat)
      BY <1>1, <2>1, <2>2
    <3>3. QED
      BY <1>1, <3>1, <3>2
  <2>5. /\ d \in InterpreterInfo
        /\ d.Interpreter = slots[a].Interpreter /\ d.isOwned = slots[a].isOwned
    BY <2>1, <2>2 DEF InterpreterInfo
  <2> HIDE DEF a, d
  <2>6. QED
    BY <2>1, <2>3, <2>4, <2>5, UpdateInv
<1>7. QED
  BY <1>2, <1>3, <1>4, <1>5, <1>6

-----------------------------------------------------------------------------
\* Every step of the registry keeps the invariant.
LEMMA NextInv == Inv /\ [Next]_vars => Inv'
<1> SUFFICES ASSUME Inv, [Next]_vars PROVE Inv'
  OBVIOUS
<1>1. ASSUME NEW i \in Interps, CreateInterpreter(i) PROVE Inv'
  BY <1>1, CreateInv
<1>2. ASSUME NEW i \in Interps, UseExternalInterpreter(i) PROVE Inv'
  BY <1>2, UseExternalInv
<1>3. ASSUME NEW i \in Interps, ActivateInterpreter(i) PROVE Inv'
  BY <1>3, ActivateInv
<1>4. CASE (\E i \in Interps : DeleteInterpreter(i)) \/ DeleteLast
  BY <1>4, DeleteInv
<1>5. CASE \/ \E i \in Interps : \/ HandleDiagnostic(i)
                                 \/ DrainPending(i)
                                 \/ MakeFunctionCallable(i)
           \/ FindBuiltinType
           \/ \E declared \in BOOLEAN : EmitVariableViaOdrUse(declared)
  BY <1>5, ContentInv
<1>6. CASE ProcessExit
  BY <1>6, ExitInv
<1>7. CASE UNCHANGED vars
  BY <1>7 DEF vars, Inv, TypeOK, OwnershipExact, KnownCovers, Slots, Registered
<1>8. QED
  BY <1>1, <1>2, <1>3, <1>4, <1>5, <1>6, <1>7 DEF Next

\* The registry's state is well typed in every reachable state.
THEOREM RegistryTypeOK == Spec => []TypeOK
<1>1. Inv => TypeOK
  BY DEF Inv
<1>2. QED
  BY <1>1, InitInv, NextInv, PTL DEF Spec

\* However interpreters are created, activated and deleted, each one the
\* library created is deleted exactly once and never while it is registered,
\* and a client's interpreter is never deleted.
THEOREM RegistryOwnership == Spec => []OwnershipExact
<1>1. Inv => OwnershipExact
  BY DEF Inv
<1>2. QED
  BY <1>1, InitInv, NextInv, PTL DEF Spec

-----------------------------------------------------------------------------
(* Where the entries go: what activation and deletion do to the identity   *)
(* and the counter of each slot.                                           *)

\* Two entries that stand for the same interpreter, with the same counter.
SameEntry(x, y) == x.Interpreter = y.Interpreter /\ x.OdrUseCounter = y.OdrUseCounter

\* A moved-into slot has the source's identity and counter.
LEMMA MovedIntoSame ==
  ASSUME NEW dst \in InterpreterInfo, NEW src \in InterpreterInfo
  PROVE  SameEntry(MovedInto(dst, src), src)
BY DEF MovedInto, InterpreterInfo, SameEntry

\* A move of an entry onto itself leaves the slot as it is.
LEMMA MovedIntoItself ==
  ASSUME NEW info \in InterpreterInfo
  PROVE  MovedInto(info, info) = info
BY DEF MovedInto, InterpreterInfo

\* ActivateInterpreter: the entries above the found one move down by one, the
\* found one goes to the top, nothing is freed.
LEMMA ActivateMoves ==
  ASSUME Inv, NEW i \in Interps, ActivateInterpreter(i), NEW p, p = Find(i)
  PROVE  /\ p \in Slots /\ slots[p].Interpreter = i /\ Slots' = Slots
         /\ \A a \in Slots : a < p => slots'[a] = slots[a]
         /\ \A a \in Slots : p <= a /\ a < last - 1 => SameEntry(slots'[a], slots[a + 1])
         /\ SameEntry(slots'[last - 1], slots[p])
         /\ p = last - 1 => slots'[p] = slots[p]
         /\ freed' = freed
<1>1. p \in Slots /\ slots[p].Interpreter = i
  BY FindFacts DEF Inv, ActivateInterpreter
<1>2. Slots' = Slots
  BY DEF ActivateInterpreter, Slots
<1>3. slots' = [a \in Slots |-> IF a < p THEN slots[a]
                              ELSE MovedInto(slots[a], IF a = last - 1 THEN slots[p] ELSE slots[a + 1])]
  BY DEF ActivateInterpreter
<1>4. \A a \in Slots : a < p => slots'[a] = slots[a]
  BY <1>3
<1>5. ASSUME NEW a \in Slots, p <= a, a < last - 1
      PROVE  SameEntry(slots'[a], slots[a + 1])
  <2>1. a + 1 \in Slots /\ ~(a < p) /\ a # last - 1
    BY <1>1, <1>5, Deque
  <2>2. slots'[a] = MovedInto(slots[a], slots[a + 1])
    BY <1>3, <2>1
  <2>. QED
    BY <2>1, <2>2, Deque, MovedIntoSame
<1>6. SameEntry(slots'[last - 1], slots[p]) /\ (p = last - 1 => slots'[p] = slots[p])
  <2>1. last - 1 \in Slots /\ ~(last - 1 < p)
    BY <1>1, Deque
  <2>2. slots'[last - 1] = MovedInto(slots[last - 1], slots[p])
    BY <1>3, <2>1
  <2>. QED
    BY <1>1, <2>1, <2>2, Deque, MovedIntoSame, MovedIntoItself
<1>7. freed' = freed
  <2>. DEFINE f == [a \in (IF p = last - 1 THEN {} ELSE p..(last - 1)) |-> MovedFrom(slots[a])]
  <2>1. Release(f)
    BY DEF ActivateInterpreter
  <2>2. \A a \in p..(last - 1) : slots[a] \in InterpreterInfo
    BY <1>1, Deque
  <2>3. \A a \in DOMAIN f : ~f[a].isOwned
    BY <2>2, MovedFromFacts
  <2>. HIDE DEF f
  <2>. QED
    BY <2>1, <2>3, ReleaseNothing
<1>. QED
  BY <1>1, <1>2, <1>4, <1>5, <1>6, <1>7

\* Overwriting the entry at p, and otherwise moved-from slots, deletes the
\* interpreter of p if the library owns it.
LEMMA ReleaseOne ==
  ASSUME Inv, NEW p \in Slots, NEW f, Release(f), p \in DOMAIN f, f[p] = slots[p],
         \A a \in DOMAIN f : a # p => ~f[a].isOwned
  PROVE  freed' = freed \cup ({slots[p].Interpreter} \cap Owned)
<1>1. slots[p].Interpreter # NULL /\ (slots[p].isOwned <=> slots[p].Interpreter \in Owned)
  BY OwnershipAssumption DEF Inv, OwnershipExact
<1>2. Deleting(f) = IF slots[p].isOwned THEN {p} ELSE {}
  BY <1>1 DEF Deleting
<1>. QED
  BY <1>1, <1>2 DEF Release

\* erase, downwards.
LEMMA EraseBackwardMoves ==
  ASSUME Inv, NEW p \in Slots, EraseBackward(p)
  PROVE  /\ first' = first /\ last' = last - 1 /\ Slots' = first..(last - 2)
         /\ \A a \in Slots' : a < p => slots'[a] = slots[a]
         /\ \A a \in Slots' : p <= a => SameEntry(slots'[a], slots[a + 1])
         /\ freed' = freed \cup ({slots[p].Interpreter} \cap Owned)
<1>. DEFINE f == [a \in p..(last - 1) |-> IF a = p THEN slots[a] ELSE MovedFrom(slots[a])]
<1>1. /\ first' = first /\ last' = last - 1 /\ Slots' = first..(last - 2)
      /\ slots' = [a \in first..(last - 2) |->
                     IF a < p THEN slots[a] ELSE MovedInto(slots[a], slots[a + 1])]
      /\ Release(f)
  BY Deque DEF EraseBackward, Slots
<1>2. ASSUME NEW a \in Slots', p <= a
      PROVE  SameEntry(slots'[a], slots[a + 1])
  <2>1. a \in Slots /\ a + 1 \in Slots /\ ~(a < p)
    BY <1>1, <1>2, Deque
  <2>. QED
    BY <1>1, <2>1, Deque, MovedIntoSame
<1>3. p \in DOMAIN f /\ f[p] = slots[p] /\ \A a \in DOMAIN f : a # p => ~f[a].isOwned
  <2>1. p \in p..(last - 1) /\ \A a \in p..(last - 1) : slots[a] \in InterpreterInfo
    BY Deque
  <2>. QED
    BY <2>1, MovedFromFacts
<1>. HIDE DEF f
<1>4. freed' = freed \cup ({slots[p].Interpreter} \cap Owned)
  BY <1>1, <1>3, ReleaseOne
<1>. QED
  BY <1>1, <1>2, <1>4

\* erase, upwards.
LEMMA EraseForwardMoves ==
  ASSUME Inv, NEW p \in Slots, EraseForward(p)
  PROVE  /\ first' = first + 1 /\ last' = last /\ Slots' = (first + 1)..(last - 1)
         /\ \A a \in Slots' : p < a => slots'[a] = slots[a]
         /\ \A a \in Slots' : a <= p => SameEntry(slots'[a], slots[a - 1])
         /\ freed' = freed \cup ({slots[p].Interpreter} \cap Owned)
<1>. DEFINE f == [a \in first..p |-> IF a = p THEN slots[a] ELSE MovedFrom(slots[a])]
<1>1. /\ first' = first + 1 /\ last' = last /\ Slots' = (first + 1)..(last - 1)
      /\ slots' = [a \in (first + 1)..(last - 1) |->
                     IF a <= p THEN MovedInto(slots[a], slots[a - 1]) ELSE slots[a]]
      /\ Release(f)
  BY Deque DEF EraseForward, Slots
<1>2. ASSUME NEW a \in Slots', a <= p
      PROVE  SameEntry(slots'[a], slots[a - 1])
  <2>1. a \in Slots /\ a - 1 \in Slots
    BY <1>1, <1>2, Deque
  <2>. QED
    BY <1>1, <1>2, <2>1, Deque, MovedIntoSame
<1>3. p \in DOMAIN f /\ f[p] = slots[p] /\ \A a \in DOMAIN f : a # p => ~f[a].isOwned
  <2>1. p \in first..p /\ \A a \in first..p : slots[a] \in InterpreterInfo
    BY Deque
  <2>. QED
    BY <2>1, MovedFromFacts
<1>. HIDE DEF f
<1>4. freed' = freed \cup ({slots[p].Interpreter} \cap Owned)
  BY <1>1, <1>3, ReleaseOne
<1>5. \A a \in Slots' : p < a => slots'[a] = slots[a]
  BY <1>1, Deque
<1>. QED
  BY <1>1, <1>2, <1>4, <1>5

\* Both ways to delete an interpreter erase its slot.
LEMMA DeletionErases ==
  ASSUME Inv, (\E i \in Interps : DeleteInterpreter(i)) \/ DeleteLast
  PROVE  /\ ~exited
         /\ \E p \in Slots : /\ EraseForward(p) \/ EraseBackward(p)
                             /\ shuffled' = (shuffled \/ p # last - 1 \/ ~slots[p].isOwned)
                             /\ p = last - 1 => EraseBackward(p)
<1>1. CASE DeleteLast
  <2>1. last - 1 \in Slots /\ EraseBackward(last - 1)
    BY <1>1, PopBackErases DEF DeleteLast
  <2>. QED
    BY <1>1, <2>1, Deque DEF DeleteLast, Inv, KnownCovers
<1>2. ASSUME NEW i \in Interps, DeleteInterpreter(i), NEW p, p = Find(i)
      PROVE  /\ p \in Slots /\ (EraseForward(p) \/ EraseBackward(p))
             /\ shuffled' = (shuffled \/ p # last - 1 \/ ~slots[p].isOwned)
             /\ p = last - 1 => EraseBackward(p)
  <2>1. p \in Slots /\ Erase(p)
    BY <1>2, FindFacts DEF Inv, DeleteInterpreter
  <2>2. p = last - 1 => ~(p - first < (last - first) \div 2)
    BY <2>1, Deque
  <2>. QED
    BY <1>2, <2>1, <2>2 DEF Erase, DeleteInterpreter
<1>3. Slots # {} => ~exited
  BY Deque DEF Inv, KnownCovers
<1>. QED
  BY <1>1, <1>2, <1>3

\* What is done with caches, diagnostics and anchors moves no entry.
LEMMA ContentStays ==
  ASSUME Inv, NEW i \in Interps, HandleDiagnostic(i) \/ DrainPending(i) \/ MakeFunctionCallable(i)
                                   \/ FindBuiltinType
  PROVE  /\ Slots' = Slots /\ UNCHANGED <<freed, known, anchors, consumers, shuffled, exited>>
         /\ \A a \in Slots : SameEntry(slots'[a], slots[a])
<1>1. UNCHANGED <<first, last, freed, known, anchors, consumers, shuffled, exited>>
  BY DEF HandleDiagnostic, DrainPending, MakeFunctionCallable, FindBuiltinType, Update
<1>2. Slots' = Slots
  BY <1>1 DEF Slots
<1>3. slots \in [Slots -> InterpreterInfo]
  BY DEF Inv, TypeOK
<1>4. CASE HandleDiagnostic(i)
  <2>1. \A a \in Slots : SameEntry([slots[a] EXCEPT !.StoredDiags = @ \cup {i}], slots[a])
    BY <1>3 DEF InterpreterInfo, SameEntry
  <2>2. \A a \in Slots : \/ slots'[a] = slots[a]
                         \/ slots'[a] = [slots[a] EXCEPT !.StoredDiags = @ \cup {i}]
    BY <1>4 DEF HandleDiagnostic
  <2>. QED
    BY <1>1, <1>2, <2>1, <2>2 DEF SameEntry
<1>5. CASE DrainPending(i) \/ MakeFunctionCallable(i) \/ FindBuiltinType
  <2>1. PICK c \in Slots : \/ slots' = [slots EXCEPT ![c] = [slots[c] EXCEPT !.StoredDiags = {}]]
                           \/ slots' = [slots EXCEPT ![c] = [slots[c] EXCEPT !.WrapperStore = @ \cup {i}]]
                           \/ slots' = [slots EXCEPT ![c] = [slots[c] EXCEPT !.BuiltinMap = Active]]
    BY <1>5, InfoFacts DEF DrainPending, MakeFunctionCallable, FindBuiltinType, Update
  <2>2. \A a \in Slots \ {c} : slots'[a] = slots[a]
    BY <1>3, <2>1
  <2>3. \/ slots'[c] = [slots[c] EXCEPT !.StoredDiags = {}]
        \/ slots'[c] = [slots[c] EXCEPT !.WrapperStore = @ \cup {i}]
        \/ slots'[c] = [slots[c] EXCEPT !.BuiltinMap = Active]
    BY <1>3, <2>1
  <2>4. SameEntry(slots'[c], slots[c])
    BY <1>3, <2>3 DEF InterpreterInfo, SameEntry
  <2>. QED
    BY <1>1, <1>2, <2>2, <2>4 DEF SameEntry
<1>. QED
  BY <1>4, <1>5

\* EmitVariableViaOdrUse counts one up in the active entry.
LEMMA EmitCounts ==
  ASSUME Inv, NEW declared \in BOOLEAN, EmitVariableViaOdrUse(declared), NEW n,
         NEW c, c = last - 1, n = slots[c].OdrUseCounter
  PROVE  /\ c \in Slots /\ n \in Nat /\ Slots' = Slots
         /\ UNCHANGED <<freed, known, consumers, shuffled, exited>>
         /\ \A a \in Slots \ {c} : slots'[a] = slots[a]
         /\ slots'[c] = [slots[c] EXCEPT !.OdrUseCounter = n + 1]
         /\ \/ anchors' = anchors
            \/ anchors' = [anchors EXCEPT ![slots[c].Interpreter] = Append(@, n)]
<1>1. first < last /\ c \in Slots /\ slots[c] \in InterpreterInfo
  BY InfoFacts DEF EmitVariableViaOdrUse
<1>2. n \in Nat
  BY <1>1 DEF InterpreterInfo
<1>3. Registered(Active) /\ Find(Active) = c
  <2>1. slots[c].Interpreter = Active /\ Registered(Active)
    BY <1>1 DEF Active, Registered
  <2>2. Find(Active) \in Slots /\ slots[Find(Active)].Interpreter = Active
    BY <2>1, FindFacts DEF Inv
  <2>. QED
    BY <1>1, <2>1, <2>2 DEF Inv, OwnershipExact
<1>4. getInterpInfo(Active) = c
  BY <1>3 DEF getInterpInfo
<1>5. Update(c, [slots[c] EXCEPT !.OdrUseCounter = n + 1])
  BY <1>4 DEF EmitVariableViaOdrUse
<1>6. slots' = [slots EXCEPT ![c] = [slots[c] EXCEPT !.OdrUseCounter = n + 1]]
      /\ UNCHANGED <<first, last, freed, known, consumers, shuffled, exited>>
  BY <1>5 DEF Update
<1>7. slots \in [Slots -> InterpreterInfo]
  BY DEF Inv, TypeOK
<1>8. (\A a \in Slots \ {c} : slots'[a] = slots[a])
      /\ slots'[c] = [slots[c] EXCEPT !.OdrUseCounter = n + 1]
  BY <1>1, <1>6, <1>7
<1>9. \/ anchors' = anchors
      \/ anchors' = [anchors EXCEPT ![slots[c].Interpreter] = Append(@, n)]
  BY <1>4 DEF EmitVariableViaOdrUse, Active
<1>. QED
  BY <1>1, <1>2, <1>6, <1>8, <1>9 DEF Slots

-----------------------------------------------------------------------------
(* The odr-use anchors. *)

\* The counter of an entry is above every anchor of its interpreter, wherever
\* the entry has moved; an interpreter that is not registered yet has none.
CounterInv ==
  \A i \in Owned :
    /\ i \notin known => anchors[i] = <<>>
    /\ \A j, k \in 1..Len(anchors[i]) : anchors[i][j] = anchors[i][k] => j = k
    /\ \A a \in Slots : slots[a].Interpreter = i =>
         \A j \in 1..Len(anchors[i]) : anchors[i][j] < slots[a].OdrUseCounter

\* Entries that came from other slots brought their counters with them.
LEMMA KeepCounters ==
  ASSUME CounterInv, anchors' = anchors, known \subseteq known',
         \A a \in Slots' : \/ slots'[a].Interpreter \notin Owned
                           \/ anchors[slots'[a].Interpreter] = <<>>
                           \/ \E b \in Slots : SameEntry(slots'[a], slots[b])
  PROVE  CounterInv'
<1>1. ASSUME NEW i \in Owned, NEW a \in Slots', slots'[a].Interpreter = i
      PROVE  \A j \in 1..Len(anchors[i]) : anchors[i][j] < slots'[a].OdrUseCounter
  <2>1. CASE anchors[i] = <<>>
    BY <2>1
  <2>2. CASE \E b \in Slots : SameEntry(slots'[a], slots[b])
    BY <1>1, <2>2 DEF CounterInv, SameEntry
  <2>. QED
    BY <1>1, <2>1, <2>2
<1>. QED
  BY <1>1 DEF CounterInv

\* Every step keeps the counters ahead of the anchors.
LEMMA CounterStep ==
  ASSUME Inv, CounterInv, [Next]_vars
  PROVE  CounterInv'
<1>1. ASSUME NEW i \in Interps, NEW o \in BOOLEAN, RegisterInterpreter(i, o),
             i \notin Owned \/ i \notin known
      PROVE  CounterInv'
  <2>1. /\ Slots' = first..last /\ anchors' = anchors /\ known \subseteq known'
        /\ \A a \in Slots' : slots'[a] = IF a = last THEN NewInfo(i, o) ELSE slots[a]
    BY <1>1, Deque DEF RegisterInterpreter, Slots
  <2>2. ASSUME NEW a \in Slots'
        PROVE  \/ slots'[a].Interpreter \notin Owned
               \/ anchors[slots'[a].Interpreter] = <<>>
               \/ \E b \in Slots : SameEntry(slots'[a], slots[b])
    <3>1. CASE a = last
      BY <1>1, <2>1, <3>1, NewInfoFacts DEF CounterInv
    <3>2. CASE a # last
      <4>1. a \in Slots /\ slots'[a] = slots[a]
        BY <2>1, <3>2, Deque
      <4>. QED
        BY <4>1 DEF SameEntry
    <3>. QED
      BY <3>1, <3>2
  <2>. QED
    BY <2>1, <2>2, KeepCounters
<1>2. ASSUME NEW i \in Interps, CreateInterpreter(i) \/ UseExternalInterpreter(i)
      PROVE  CounterInv'
  BY <1>1, <1>2, OwnershipAssumption DEF CreateInterpreter, UseExternalInterpreter
<1>3. ASSUME NEW i \in Interps, ActivateInterpreter(i), NEW p, p = Find(i)
      PROVE  CounterInv'
  <2>1. anchors' = anchors /\ known' = known
    BY <1>3 DEF ActivateInterpreter
  <2>2. ASSUME NEW a \in Slots'
        PROVE  \E b \in Slots : SameEntry(slots'[a], slots[b])
    <3>1. a \in Slots /\ p \in Slots
      BY <1>3, ActivateMoves
    <3>2. CASE a < p
      BY <1>3, <3>1, <3>2, ActivateMoves DEF SameEntry
    <3>3. CASE p <= a /\ a < last - 1
      <4>1. a + 1 \in Slots /\ SameEntry(slots'[a], slots[a + 1])
        BY <1>3, <3>1, <3>3, ActivateMoves, Deque
      <4>. QED
        BY <4>1
    <3>4. CASE a = last - 1
      BY <1>3, <3>1, <3>4, ActivateMoves
    <3>. QED
      BY <3>1, <3>2, <3>3, <3>4, Deque
  <2>. QED
    BY <2>1, <2>2, KeepCounters
<1>4. CASE (\E i \in Interps : DeleteInterpreter(i)) \/ DeleteLast
  <2>1. anchors' = anchors /\ known' = known
    BY <1>4 DEF DeleteInterpreter, DeleteLast
  <2>2. PICK p \in Slots : EraseForward(p) \/ EraseBackward(p)
    BY <1>4, DeletionErases
  <2>3. ASSUME NEW a \in Slots'
        PROVE  \E b \in Slots : SameEntry(slots'[a], slots[b])
    <3>1. CASE EraseBackward(p)
      <4>1. a \in Slots /\ a + 1 \in Slots /\ p \in Int /\ a \in Int
        BY <3>1, EraseBackwardMoves, Deque
      <4>2. SameEntry(slots'[a], slots[a]) \/ SameEntry(slots'[a], slots[a + 1])
        BY <3>1, <4>1, EraseBackwardMoves DEF SameEntry
      <4>. QED
        BY <4>1, <4>2
    <3>2. CASE EraseForward(p)
      <4>1. a \in Slots /\ a - 1 \in Slots /\ p \in Int /\ a \in Int
        BY <3>2, EraseForwardMoves, Deque
      <4>2. SameEntry(slots'[a], slots[a]) \/ SameEntry(slots'[a], slots[a - 1])
        BY <3>2, <4>1, EraseForwardMoves DEF SameEntry
      <4>. QED
        BY <4>1, <4>2
    <3>. QED
      BY <2>2, <3>1, <3>2
  <2>. QED
    BY <2>1, <2>3, KeepCounters
<1>5. ASSUME NEW i \in Interps, HandleDiagnostic(i) \/ DrainPending(i) \/ MakeFunctionCallable(i)
                                  \/ FindBuiltinType
      PROVE  CounterInv'
  BY <1>5, ContentStays, KeepCounters
<1>A. ASSUME FindBuiltinType
      PROVE  CounterInv'
  BY <1>5, <1>A, InfoFacts DEF FindBuiltinType
<1>6. ASSUME NEW declared \in BOOLEAN, EmitVariableViaOdrUse(declared), NEW n,
             NEW c, c = last - 1, n = slots[c].OdrUseCounter
      PROVE  CounterInv'
  <2>1. /\ c \in Slots /\ n \in Nat /\ Slots' = Slots /\ known' = known
        /\ \A a \in Slots \ {c} : slots'[a] = slots[a]
        /\ slots'[c] = [slots[c] EXCEPT !.OdrUseCounter = n + 1]
        /\ \/ anchors' = anchors
           \/ anchors' = [anchors EXCEPT ![slots[c].Interpreter] = Append(@, n)]
    BY <1>6, EmitCounts
  <2>2. slots'[c].Interpreter = slots[c].Interpreter /\ slots'[c].OdrUseCounter = n + 1
    BY <2>1, Deque DEF InterpreterInfo
  <2>3. anchors \in [Interps -> Seq(Nat)] /\ Owned \subseteq Interps
    BY DEF Inv, TypeOK, Interps
  <2>4. ASSUME NEW i \in Owned
        PROVE  /\ i \notin known' => anchors'[i] = <<>>
               /\ \A j, k \in 1..Len(anchors'[i]) : anchors'[i][j] = anchors'[i][k] => j = k
               /\ \A a \in Slots' : slots'[a].Interpreter = i =>
                    \A j \in 1..Len(anchors'[i]) : anchors'[i][j] < slots'[a].OdrUseCounter
    <3>1. CASE i # slots[c].Interpreter
      <4>1. anchors'[i] = anchors[i]
        BY <2>1, <2>3, <3>1
      <4>. QED
        BY <2>1, <2>2, <3>1, <4>1 DEF CounterInv
    <3>2. CASE i = slots[c].Interpreter
      <4>1. \A a \in Slots' : slots'[a].Interpreter = i => a = c
        BY <2>1, <2>2, <3>2 DEF Inv, OwnershipExact
      <4>2. i \in known /\ anchors[i] \in Seq(Nat)
        BY <2>1, <2>3, <3>2 DEF Inv, KnownCovers
      <4>3. /\ \A j \in 1..Len(anchors[i]) : anchors[i][j] < n /\ anchors[i][j] \in Nat
            /\ \A j, k \in 1..Len(anchors[i]) : anchors[i][j] = anchors[i][k] => j = k
        <5>1. \A j \in 1..Len(anchors[i]) : anchors[i][j] \in Nat
          BY <4>2
        <5>2. \A j \in 1..Len(anchors[i]) : anchors[i][j] < n
          BY <1>6, <2>1, <3>2 DEF CounterInv
        <5>3. \A j, k \in 1..Len(anchors[i]) : anchors[i][j] = anchors[i][k] => j = k
          BY DEF CounterInv
        <5>. QED
          BY <5>1, <5>2, <5>3
      <4>4. CASE anchors' = anchors
        <5>1. \A j \in 1..Len(anchors'[i]) : anchors'[i][j] < slots'[c].OdrUseCounter
          BY <2>1, <2>2, <4>3, <4>4
        <5>. QED
          BY <2>1, <4>1, <4>2, <4>3, <4>4, <5>1
      <4>5. CASE anchors' = [anchors EXCEPT ![slots[c].Interpreter] = Append(@, n)]
        <5>1. anchors'[i] = Append(anchors[i], n)
          BY <2>3, <3>2, <4>5
        <5>2. /\ Len(anchors'[i]) = Len(anchors[i]) + 1 /\ Len(anchors[i]) \in Nat
              /\ \A j \in 1..Len(anchors[i]) : anchors'[i][j] = anchors[i][j]
              /\ anchors'[i][Len(anchors[i]) + 1] = n
          BY <2>1, <4>2, <5>1
        <5>3. \A j \in 1..Len(anchors'[i]) : anchors'[i][j] < n + 1
          BY <2>1, <4>3, <5>2
        <5>4. \A j, k \in 1..Len(anchors'[i]) : anchors'[i][j] = anchors'[i][k] => j = k
          BY <2>1, <4>3, <5>2
        <5>. QED
          BY <2>1, <2>2, <4>1, <4>2, <5>3, <5>4
      <4>. QED
        BY <2>1, <4>4, <4>5
    <3>. QED
      BY <3>1, <3>2
  <2>. QED
    BY <2>4 DEF CounterInv
<1>7. CASE ProcessExit
  <2>1. anchors' = anchors /\ known' = known /\ Slots' = {}
    BY <1>7, Deque DEF ProcessExit, Slots
  <2>. QED
    BY <2>1, KeepCounters
<1>8. CASE UNCHANGED vars
  BY <1>8 DEF vars, CounterInv, Slots
<1>. QED
  BY <1>2, <1>3, <1>4, <1>5, <1>A, <1>6, <1>7, <1>8 DEF Next

\* The odr-use anchors of an interpreter the library created never share a
\* name, however often its entry is moved to another slot by activations and
\* deletions in between (EmitVariableViaOdrUse, InterpreterInfo's moves).
THEOREM RegistryAnchorsDistinct == Spec => []OdrAnchorsDistinct
<1>1. Init => CounterInv
  <2>. SUFFICES ASSUME Init PROVE CounterInv
    OBVIOUS
  <2>1. Slots = {} /\ \A i \in Owned : anchors[i] = <<>>
    BY DEF Init, Slots, Interps
  <2>2. 1..Len(<<>>) = {}
    OBVIOUS
  <2>. QED
    BY <2>1, <2>2 DEF CounterInv
<1>2. CounterInv => OdrAnchorsDistinct
  BY DEF CounterInv, OdrAnchorsDistinct
<1>3. Inv /\ CounterInv /\ [Next]_vars => CounterInv'
  BY CounterStep
<1>. QED
  BY <1>1, <1>2, <1>3, InitInv, NextInv, PTL DEF Spec

-----------------------------------------------------------------------------
(* A client that pushes and pops. *)

\* What slot a holds belongs to the interpreter registered there.
SlotOwn(a) ==
  /\ slots[a].StoredDiags \subseteq {slots[a].Interpreter}
  /\ slots[a].WrapperStore \subseteq {slots[a].Interpreter}
  /\ slots[a].BuiltinMap \in {NULL, slots[a].Interpreter}
  /\ consumers[slots[a].Interpreter] = {a}

\* No client's interpreter was dropped, so an external one that was registered
\* before, and whose consumer still holds the old slot, does not come back.
DisciplineInv ==
  /\ \A i \in Interps \ known : consumers[i] = {}
  /\ ~shuffled =>
       /\ ~exited => \A i \in External \cap known : Registered(i)
       /\ \A a \in Slots : SlotOwn(a)

\* A slot that keeps its content keeps to its interpreter.
LEMMA KeepSlot ==
  ASSUME NEW a, SlotOwn(a), slots'[a] = slots[a],
         consumers'[slots[a].Interpreter] = consumers[slots[a].Interpreter]
  PROVE  SlotOwn(a)'
BY DEF SlotOwn

\* A new slot keeps to its interpreter.
LEMMA NewSlot ==
  ASSUME NEW i \in Interps, NEW o \in BOOLEAN, NEW a, slots'[a] = NewInfo(i, o),
         consumers'[i] = {a}
  PROVE  SlotOwn(a)'
BY DEF SlotOwn, NewInfo

\* A registration keeps the discipline.
LEMMA RegisterDiscipline ==
  ASSUME Inv, DisciplineInv, NEW i \in Interps, NEW o \in BOOLEAN, RegisterInterpreter(i, o),
         i \in Owned \ known \/ (i \in External /\ first = last), shuffled' = shuffled
  PROVE  DisciplineInv'
<1>1. /\ Slots' = Slots \cup {last} /\ last \notin Slots /\ known' = known \cup {i}
      /\ \A a \in Slots : slots'[a] = slots[a]
      /\ slots'[last] = NewInfo(i, o) /\ ~exited /\ exited' = exited
  BY Deque DEF RegisterInterpreter, Slots
<1>2. /\ consumers' = [consumers EXCEPT ![i] = @ \cup {last}]
      /\ consumers \in [Interps -> SUBSET Nat] /\ last \in Nat
  BY DEF RegisterInterpreter, Inv, TypeOK
<1>3. \A j \in Interps \ {i} : consumers'[j] = consumers[j]
  BY <1>2
<1>4. \A j \in Interps \ known' : consumers'[j] = {}
  BY <1>1, <1>3 DEF DisciplineInv
<1>5. ASSUME ~shuffled
      PROVE  /\ \A j \in External \cap known' : Registered(j)'
             /\ \A a \in Slots' : SlotOwn(a)'
  <2>1. i \notin known
    <3>1. CASE i \in External /\ first = last
      <4>1. Slots = {}
        BY <3>1, Deque
      <4>. QED
        BY <1>1, <1>5, <3>1, <4>1 DEF DisciplineInv, Registered
    <3>. QED
      BY <3>1
  <2>2. consumers'[i] = {last}
    BY <1>2, <2>1 DEF DisciplineInv
  <2>3. \A a : a = last => SlotOwn(a)'
    BY <1>1, <2>2, NewSlot
  <2>4. \A a \in Slots : SlotOwn(a)'
    <3>1. ASSUME NEW a \in Slots
          PROVE  SlotOwn(a)'
      <4>1. slots[a].Interpreter \in Interps \ {i}
        BY <2>1 DEF Inv, OwnershipExact, KnownCovers
      <4>2. SlotOwn(a)
        BY <1>5 DEF DisciplineInv
      <4>. QED
        BY <1>1, <1>3, <4>1, <4>2, KeepSlot
    <3>. QED
      BY <3>1
  <2>5. ASSUME NEW j \in External \cap known'
        PROVE  \E a \in Slots' : slots'[a].Interpreter = j
    <3>1. CASE j = i
      BY <1>1, <3>1, NewInfoFacts
    <3>2. CASE j # i
      BY <1>1, <1>5, <3>2 DEF DisciplineInv, Registered
    <3>. QED
      BY <3>1, <3>2
  <2>. QED
    BY <1>1, <2>3, <2>4, <2>5 DEF Registered
<1>. QED
  BY <1>1, <1>4, <1>5 DEF DisciplineInv

\* The deque shrinks from the top by an interpreter the library owns.
LEMMA DeletionDiscipline ==
  ASSUME Inv, DisciplineInv, (\E i \in Interps : DeleteInterpreter(i)) \/ DeleteLast
  PROVE  DisciplineInv'
<1>1. known' = known /\ consumers' = consumers
  BY DEF DeleteInterpreter, DeleteLast
<1>2. PICK p \in Slots : /\ EraseForward(p) \/ EraseBackward(p)
                         /\ shuffled' = (shuffled \/ p # last - 1 \/ ~slots[p].isOwned)
                         /\ p = last - 1 => EraseBackward(p)
  BY DeletionErases
<1>3. ASSUME ~shuffled'
      PROVE  /\ \A j \in External \cap known' : Registered(j)'
             /\ \A a \in Slots' : SlotOwn(a)'
  <2>1. ~shuffled /\ p = last - 1 /\ EraseBackward(p) /\ slots[p].isOwned
    BY <1>2, <1>3
  <2>2. /\ Slots' = Slots \ {p} /\ \A a \in Slots' : slots'[a] = slots[a]
    BY <1>2, <2>1, EraseBackwardMoves, Deque
  <2>3. ASSUME NEW a \in Slots'
        PROVE  SlotOwn(a)'
    <3>1. SlotOwn(a)
      BY <2>1, <2>2 DEF DisciplineInv
    <3>. QED
      BY <1>1, <2>2, <3>1, KeepSlot
  <2>4. ASSUME NEW j \in External \cap known'
        PROVE  \E a \in Slots' : slots'[a].Interpreter = j
    <3>1. ~exited
      BY DeletionErases
    <3>2. PICK a \in Slots : slots[a].Interpreter = j
      BY <1>1, <2>1, <3>1 DEF DisciplineInv, Registered
    <3>3. a # p
      BY <2>1, <3>2, OwnershipAssumption DEF Inv, OwnershipExact
    <3>. QED
      BY <2>2, <3>2, <3>3
  <2>. QED
    BY <2>3, <2>4 DEF Registered
<1>. QED
  BY <1>1, <1>3 DEF DisciplineInv

\* Activating the interpreter that is already active moves nothing.
LEMMA ActivateDiscipline ==
  ASSUME Inv, DisciplineInv, NEW i \in Interps, ActivateInterpreter(i), NEW p, p = Find(i)
  PROVE  DisciplineInv'
<1>1. /\ known' = known /\ consumers' = consumers /\ exited' = exited
      /\ shuffled' = (shuffled \/ p # last - 1)
  BY DEF ActivateInterpreter
<1>2. ASSUME ~shuffled'
      PROVE  /\ ~exited' => \A j \in External \cap known' : Registered(j)'
             /\ \A a \in Slots' : SlotOwn(a)'
  <2>1. ~shuffled /\ p = last - 1 /\ Slots' = Slots
    BY <1>1, <1>2, ActivateMoves
  <2>2. ASSUME NEW a \in Slots
        PROVE  slots'[a] = slots[a]
    <3>1. p \in Slots /\ (a < p => slots'[a] = slots[a]) /\ slots'[p] = slots[p]
      BY <2>1, ActivateMoves
    <3>2. a < p \/ a = p
      BY <2>1, <3>1, Deque
    <3>. QED
      BY <3>1, <3>2
  <2>3. \A a \in Slots' : SlotOwn(a)'
    BY <1>1, <2>1, <2>2, KeepSlot DEF DisciplineInv
  <2>. QED
    BY <1>1, <2>1, <2>2, <2>3 DEF DisciplineInv, Registered
<1>. QED
  BY <1>1, <1>2 DEF DisciplineInv

\* What a slot receives comes from the interpreter registered there.
LEMMA ContentDiscipline ==
  ASSUME Inv, DisciplineInv, NEW i \in Interps,
         HandleDiagnostic(i) \/ DrainPending(i) \/ MakeFunctionCallable(i) \/ FindBuiltinType
  PROVE  DisciplineInv'
<1>1. /\ Slots' = Slots /\ UNCHANGED <<known, consumers, shuffled, exited>>
      /\ \A a \in Slots : slots'[a].Interpreter = slots[a].Interpreter
  BY ContentStays DEF SameEntry
<1>2. \A j : Registered(j) => Registered(j)'
  BY <1>1 DEF Registered
<1>3. ASSUME ~shuffled, NEW a \in Slots
      PROVE  SlotOwn(a)'
  <2>1. SlotOwn(a) /\ slots[a] \in InterpreterInfo /\ slots \in [Slots -> InterpreterInfo]
    BY <1>3, Deque DEF DisciplineInv, Inv, TypeOK
  <2>2. ASSUME i \in known \ freed, ~exited
        PROVE  Registered(i)
    BY <1>3, <2>2 DEF DisciplineInv, Inv, OwnershipExact, Interps
  <2>3. slots'[a].StoredDiags \subseteq {slots[a].Interpreter}
    <3>1. CASE HandleDiagnostic(i)
      <4>1. Registered(i)
        BY <2>2, <3>1 DEF HandleDiagnostic, Usable
      <4>2. a \in consumers[i] => slots[a].Interpreter = i
        BY <1>3, <4>1 DEF Registered, DisciplineInv, SlotOwn
      <4>3. slots'[a] = IF a \in consumers[i] THEN [slots[a] EXCEPT !.StoredDiags = @ \cup {i}]
                        ELSE slots[a]
        BY <3>1 DEF HandleDiagnostic
      <4>4. [slots[a] EXCEPT !.StoredDiags = @ \cup {i}].StoredDiags = slots[a].StoredDiags \cup {i}
        BY <2>1 DEF InterpreterInfo
      <4>. QED
        BY <2>1, <4>2, <4>3, <4>4 DEF SlotOwn
    <3>2. CASE DrainPending(i) \/ MakeFunctionCallable(i) \/ FindBuiltinType
      <4>1. slots'[a].StoredDiags = {} \/ slots'[a].StoredDiags = slots[a].StoredDiags
        BY <2>1, <3>2, InfoFacts DEF DrainPending, MakeFunctionCallable, FindBuiltinType, Update,
                                     InterpreterInfo
      <4>. QED
        BY <2>1, <4>1 DEF SlotOwn
    <3>. QED
      BY <3>1, <3>2
  <2>4. slots'[a].WrapperStore \subseteq {slots[a].Interpreter}
    <3>1. CASE MakeFunctionCallable(i)
      <4>1. Registered(i) /\ first < last
        BY <2>2, <3>1, Deque DEF MakeFunctionCallable, Usable, Inv, KnownCovers
      <4>2. getInterpInfo(i) \in Slots /\ slots[getInterpInfo(i)].Interpreter = i
        BY <4>1, FindFacts DEF getInterpInfo, Inv
      <4>3. slots' = [slots EXCEPT ![getInterpInfo(i)] =
                        [slots[getInterpInfo(i)] EXCEPT !.WrapperStore = @ \cup {i}]]
        BY <3>1 DEF MakeFunctionCallable, Update
      <4>4. CASE a = getInterpInfo(i)
        <5>1. slots'[a] = [slots[a] EXCEPT !.WrapperStore = @ \cup {i}]
          BY <2>1, <4>2, <4>3, <4>4
        <5>2. slots'[a].WrapperStore = slots[a].WrapperStore \cup {i}
          BY <2>1, <5>1 DEF InterpreterInfo
        <5>. QED
          BY <2>1, <4>2, <4>4, <5>2 DEF SlotOwn
      <4>5. CASE a # getInterpInfo(i)
        BY <2>1, <4>2, <4>3, <4>5 DEF SlotOwn
      <4>. QED
        BY <4>4, <4>5
    <3>2. CASE HandleDiagnostic(i) \/ DrainPending(i) \/ FindBuiltinType
      <4>1. slots'[a].WrapperStore = slots[a].WrapperStore
        BY <2>1, <3>2, InfoFacts DEF DrainPending, HandleDiagnostic, FindBuiltinType, Update,
                                     InterpreterInfo
      <4>. QED
        BY <2>1, <4>1 DEF SlotOwn
    <3>. QED
      BY <3>1, <3>2
  <2>5. slots'[a].BuiltinMap \in {NULL, slots[a].Interpreter}
    <3>1. CASE FindBuiltinType
      <4>1. slots' = [slots EXCEPT ![last - 1] = [slots[last - 1] EXCEPT !.BuiltinMap = Active]]
            /\ last - 1 \in Slots
        BY <3>1, InfoFacts DEF FindBuiltinType, Update
      <4>2. CASE a = last - 1
        <5>1. slots'[a] = [slots[a] EXCEPT !.BuiltinMap = Active]
          BY <2>1, <4>1, <4>2
        <5>2. slots'[a].BuiltinMap = Active
          BY <2>1, <5>1 DEF InterpreterInfo
        <5>. QED
          BY <4>2, <5>2 DEF Active
      <4>3. CASE a # last - 1
        BY <2>1, <4>1, <4>3 DEF SlotOwn
      <4>. QED
        BY <4>2, <4>3
    <3>2. CASE HandleDiagnostic(i) \/ DrainPending(i) \/ MakeFunctionCallable(i)
      <4>1. slots'[a].BuiltinMap = slots[a].BuiltinMap
        BY <2>1, <3>2, InfoFacts DEF DrainPending, HandleDiagnostic, MakeFunctionCallable, Update,
                                     InterpreterInfo
      <4>. QED
        BY <2>1, <4>1 DEF SlotOwn
    <3>. QED
      BY <3>1, <3>2
  <2>. QED
    BY <1>1, <2>1, <2>3, <2>4, <2>5 DEF SlotOwn
<1>. QED
  BY <1>1, <1>2, <1>3 DEF DisciplineInv

\* Every step keeps the discipline.
LEMMA DisciplineStep ==
  ASSUME Inv, DisciplineInv, [Next]_vars
  PROVE  DisciplineInv'
<1>1. ASSUME NEW i \in Interps, CreateInterpreter(i) \/ UseExternalInterpreter(i)
      PROVE  DisciplineInv'
  BY <1>1, RegisterDiscipline DEF CreateInterpreter, UseExternalInterpreter
<1>2. ASSUME NEW i \in Interps, ActivateInterpreter(i)
      PROVE  DisciplineInv'
  BY <1>2, ActivateDiscipline
<1>3. CASE (\E i \in Interps : DeleteInterpreter(i)) \/ DeleteLast
  BY <1>3, DeletionDiscipline
<1>4. ASSUME NEW i \in Interps, HandleDiagnostic(i) \/ DrainPending(i) \/ MakeFunctionCallable(i)
                                  \/ FindBuiltinType
      PROVE  DisciplineInv'
  BY <1>4, ContentDiscipline
<1>5. ASSUME FindBuiltinType
      PROVE  DisciplineInv'
  BY <1>4, <1>5, InfoFacts DEF FindBuiltinType
<1>6. ASSUME NEW declared \in BOOLEAN, EmitVariableViaOdrUse(declared), NEW n,
             NEW c, c = last - 1, n = slots[c].OdrUseCounter
      PROVE  DisciplineInv'
  <2>1. /\ c \in Slots /\ n \in Nat /\ Slots' = Slots
        /\ UNCHANGED <<known, consumers, shuffled, exited>>
        /\ \A a \in Slots \ {c} : slots'[a] = slots[a]
        /\ slots'[c] = [slots[c] EXCEPT !.OdrUseCounter = n + 1]
    BY <1>6, EmitCounts
  <2>2. /\ slots'[c].Interpreter = slots[c].Interpreter
        /\ slots'[c].StoredDiags = slots[c].StoredDiags
        /\ slots'[c].WrapperStore = slots[c].WrapperStore
        /\ slots'[c].BuiltinMap = slots[c].BuiltinMap
    BY <2>1, Deque DEF InterpreterInfo
  <2>3. \A j : Registered(j) => Registered(j)'
    BY <2>1, <2>2 DEF Registered
  <2>4. \A a \in Slots : SlotOwn(a) => SlotOwn(a)'
    BY <2>1, <2>2 DEF SlotOwn
  <2>. QED
    BY <2>1, <2>3, <2>4 DEF DisciplineInv
<1>7. CASE ProcessExit
  <2>1. known' = known /\ consumers' = consumers /\ Slots' = {} /\ exited' = TRUE
    BY <1>7, Deque DEF ProcessExit, Slots
  <2>. QED
    BY <2>1 DEF DisciplineInv
<1>8. CASE UNCHANGED vars
  BY <1>8 DEF vars, DisciplineInv, Slots, Registered, SlotOwn
<1>. QED
  BY <1>1, <1>2, <1>3, <1>4, <1>5, <1>6, <1>7, <1>8 DEF Next

\* A client that only pushes and pops finds in every slot only what belongs to
\* the interpreter registered there, and each interpreter's diagnostic consumer
\* writes to its own slot; it takes an activation or a deletion further down to
\* mix them up (std::rotate and erase over InterpreterInfo's partial moves).
THEOREM RegistryStackDiscipline == Spec => []StackDisciplineKeepsSlots
<1>1. Init => DisciplineInv
  <2>. SUFFICES ASSUME Init PROVE DisciplineInv
    OBVIOUS
  <2>1. Slots = {} /\ known = {} /\ \A i \in Interps : consumers[i] = {}
    BY DEF Init, Slots
  <2>. QED
    BY <2>1 DEF DisciplineInv
<1>2. DisciplineInv => StackDisciplineKeepsSlots
  BY DEF DisciplineInv, SlotOwn, StackDisciplineKeepsSlots
<1>3. Inv /\ DisciplineInv /\ [Next]_vars => DisciplineInv'
  BY DisciplineStep
<1>. QED
  BY <1>1, <1>2, <1>3, InitInv, NextInv, PTL DEF Spec

-----------------------------------------------------------------------------
(* The registry implements the stack of interpreters. *)

\* The members of the stack, and who is below whom, for slots S with content s.
MembersOf(S, s) == {s[a].Interpreter : a \in S}
\* The pairs of a lower and a higher member.
BelowOf(S, s) == {<<s[p[1]].Interpreter, s[p[2]].Interpreter>> :
                    p \in {q \in S \X S : q[1] < q[2]}}

\* Which pairs these are.
LEMMA BelowFacts ==
  ASSUME NEW S, NEW s, NEW x, NEW y
  PROVE  <<x, y>> \in BelowOf(S, s) <=>
           \E a, b \in S : a < b /\ s[a].Interpreter = x /\ s[b].Interpreter = y
<1>1. ASSUME NEW a \in S, NEW b \in S, a < b, s[a].Interpreter = x, s[b].Interpreter = y
      PROVE  <<x, y>> \in BelowOf(S, s)
  <2>1. <<a, b>> \in {q \in S \X S : q[1] < q[2]}
    BY <1>1
  <2>. QED
    BY <1>1, <2>1 DEF BelowOf
<1>2. ASSUME <<x, y>> \in BelowOf(S, s)
      PROVE  \E a, b \in S : a < b /\ s[a].Interpreter = x /\ s[b].Interpreter = y
  BY <1>2 DEF BelowOf
<1>. QED
  BY <1>1, <1>2

\* They are pairs.
LEMMA BelowPairs ==
  ASSUME NEW S, NEW s, NEW z \in BelowOf(S, s)
  PROVE  z = <<z[1], z[2]>>
BY DEF BelowOf

\* Two sets of pairs are equal when they relate the same pairs.
LEMMA PairsEqual ==
  ASSUME NEW A, NEW B, \A z \in A : z = <<z[1], z[2]>>, \A z \in B : z = <<z[1], z[2]>>,
         \A x, y : <<x, y>> \in A <=> <<x, y>> \in B
  PROVE  A = B
OBVIOUS

\* The members are the same when each slot's interpreter is in some slot of the other.
LEMMA MembersEqual ==
  ASSUME NEW S, NEW s, NEW r,
         \A a \in S : \E b \in S : r[b].Interpreter = s[a].Interpreter,
         \A b \in S : \E a \in S : r[b].Interpreter = s[a].Interpreter
  PROVE  MembersOf(S, r) = MembersOf(S, s)
<1>1. ASSUME NEW z \in MembersOf(S, r)
      PROVE  z \in MembersOf(S, s)
  <2>1. PICK b \in S : z = r[b].Interpreter
    BY DEF MembersOf
  <2>2. PICK a \in S : r[b].Interpreter = s[a].Interpreter
    OBVIOUS
  <2>. QED
    BY <2>1, <2>2 DEF MembersOf
<1>2. ASSUME NEW z \in MembersOf(S, s)
      PROVE  z \in MembersOf(S, r)
  <2>1. PICK a \in S : z = s[a].Interpreter
    BY DEF MembersOf
  <2>2. PICK b \in S : r[b].Interpreter = s[a].Interpreter
    OBVIOUS
  <2>. QED
    BY <2>1, <2>2 DEF MembersOf
<1>. QED
  BY <1>1, <1>2

\* A registration pushes.
LEMMA PushRefines ==
  ASSUME Inv, NEW i \in Interps, NEW o \in BOOLEAN, RegisterInterpreter(i, o),
         i \in Owned \ known \/ (i \in External /\ first = last)
  PROVE  Stack!Push(i)
<1>1. /\ Slots' = Slots \cup {last} /\ last \notin Slots /\ freed' = freed
      /\ \A a \in Slots : slots'[a] = slots[a] /\ a < last /\ ~(last < a)
      /\ slots'[last] = NewInfo(i, o) /\ ~(last < last)
  BY Deque DEF RegisterInterpreter, Slots
<1>2. slots'[last].Interpreter = i
  BY <1>1, NewInfoFacts
<1>3. (\A a \in Slots : slots[a].Interpreter # i) /\ i \notin freed
  <2>1. CASE i \in Owned \ known
    BY <2>1 DEF Inv, KnownCovers
  <2>2. CASE i \in External /\ first = last
    BY <2>2, Deque DEF Inv, OwnershipExact
  <2>. QED
    BY <2>1, <2>2
<1>4. i \in External => Slots = {}
  BY OwnershipAssumption, Deque
<1>5. MembersOf(Slots', slots') = MembersOf(Slots, slots) \cup {i}
  BY <1>1, <1>2 DEF MembersOf
<1>6. BelowOf(Slots', slots') = BelowOf(Slots, slots) \cup {<<j, i>> : j \in MembersOf(Slots, slots)}
  <2>. DEFINE B == BelowOf(Slots, slots) \cup {<<j, i>> : j \in MembersOf(Slots, slots)}
  <2>1. ASSUME NEW x, NEW y
        PROVE  <<x, y>> \in BelowOf(Slots', slots') <=> <<x, y>> \in B
    <3>1. <<x, y>> \in BelowOf(Slots', slots') <=>
            \/ \E a, b \in Slots : a < b /\ slots[a].Interpreter = x /\ slots[b].Interpreter = y
            \/ y = i /\ \E a \in Slots : slots[a].Interpreter = x
      BY <1>1, <1>2, BelowFacts
    <3>2. <<x, y>> \in B <=>
            \/ \E a, b \in Slots : a < b /\ slots[a].Interpreter = x /\ slots[b].Interpreter = y
            \/ y = i /\ \E a \in Slots : slots[a].Interpreter = x
      BY BelowFacts DEF MembersOf
    <3>. QED
      BY <3>1, <3>2
  <2>2. \A z \in B : z = <<z[1], z[2]>>
    BY BelowPairs
  <2>. HIDE DEF B
  <2>3. BelowOf(Slots', slots') = B
    BY <2>1, <2>2, BelowPairs, PairsEqual
  <2>. QED
    BY <2>3 DEF B
<1>7. i \notin MembersOf(Slots, slots) /\ (i \in External => MembersOf(Slots, slots) = {})
  BY <1>3, <1>4 DEF MembersOf
<1>. QED
  BY <1>1, <1>3, <1>5, <1>6, <1>7 DEF Stack!Push, Stack!Interps, Interps, MembersOf, BelowOf

\* A step that keeps the identity of every slot is no step of the stack.
LEMMA StutterRefines ==
  ASSUME Slots' = Slots, freed' = freed,
         \A a \in Slots : slots'[a].Interpreter = slots[a].Interpreter
  PROVE  UNCHANGED Stack!stackVars
<1>1. MembersOf(Slots', slots') = MembersOf(Slots, slots)
  BY DEF MembersOf
<1>2. BelowOf(Slots', slots') = BelowOf(Slots, slots)
  <2>1. ASSUME NEW x, NEW y
        PROVE  <<x, y>> \in BelowOf(Slots', slots') <=> <<x, y>> \in BelowOf(Slots, slots)
    <3>1. <<x, y>> \in BelowOf(Slots', slots') <=>
            \E a, b \in Slots' : a < b /\ slots'[a].Interpreter = x /\ slots'[b].Interpreter = y
      BY BelowFacts
    <3>2. <<x, y>> \in BelowOf(Slots, slots) <=>
            \E a, b \in Slots : a < b /\ slots[a].Interpreter = x /\ slots[b].Interpreter = y
      BY BelowFacts
    <3>. QED
      BY <3>1, <3>2
  <2>. QED
    BY <2>1, BelowPairs, PairsEqual
<1>. QED
  BY <1>1, <1>2 DEF Stack!stackVars, MembersOf, BelowOf

\* A deletion removes.
LEMMA RemoveRefines ==
  ASSUME Inv, NEW p \in Slots, NEW i, i = slots[p].Interpreter,
         EraseForward(p) \/ EraseBackward(p)
  PROVE  Stack!Remove(i)
<1>1. \A a, b \in Slots : slots[a].Interpreter = slots[b].Interpreter => a = b
  BY DEF Inv, OwnershipExact
<1>2. first \in Nat /\ last \in Nat /\ p \in Int /\ Slots = first..(last - 1)
  BY Deque
<1>3. freed' = freed \cup ({i} \cap Owned)
  BY EraseForwardMoves, EraseBackwardMoves
<1>4. PICK off \in [Slots \ {p} -> Int] :
        /\ \A a \in Slots \ {p} : /\ off[a] \in Slots'
                                  /\ slots'[off[a]].Interpreter = slots[a].Interpreter
        /\ \A b \in Slots' : \E a \in Slots \ {p} : off[a] = b
        /\ \A a, b \in Slots \ {p} : a < b <=> off[a] < off[b]
  <2>1. CASE EraseBackward(p)
    <3>. DEFINE off == [a \in Slots \ {p} |-> IF a < p THEN a ELSE a - 1]
    <3>1. Slots' = first..(last - 2)
      BY <2>1, EraseBackwardMoves
    <3>2. ASSUME NEW a \in Slots \ {p}
          PROVE  off[a] \in Slots' /\ slots'[off[a]].Interpreter = slots[a].Interpreter
      <4>1. CASE a < p
        <5>1. off[a] = a /\ a \in Slots'
          BY <1>2, <3>1, <4>1
        <5>. QED
          BY <2>1, <4>1, <5>1, EraseBackwardMoves
      <4>2. CASE a > p
        <5>1. off[a] = a - 1 /\ a - 1 \in Slots' /\ p <= a - 1 /\ (a - 1) + 1 = a
          BY <1>2, <3>1, <4>2
        <5>2. SameEntry(slots'[a - 1], slots[(a - 1) + 1])
          BY <2>1, <5>1, EraseBackwardMoves
        <5>. QED
          BY <5>1, <5>2 DEF SameEntry
      <4>. QED
        BY <1>2, <4>1, <4>2
    <3>3. ASSUME NEW b \in Slots'
          PROVE  \E a \in Slots \ {p} : off[a] = b
      <4>1. CASE b < p
        <5>1. b \in Slots \ {p} /\ off[b] = b
          BY <1>2, <3>1, <4>1
        <5>. QED
          BY <5>1
      <4>2. CASE b >= p
        <5>1. b + 1 \in Slots \ {p} /\ off[b + 1] = b
          BY <1>2, <3>1, <4>2
        <5>. QED
          BY <5>1
      <4>. QED
        BY <1>2, <3>1, <4>1, <4>2
    <3>4. \A a, b \in Slots \ {p} : a < b <=> off[a] < off[b]
      BY <1>2
    <3>5. off \in [Slots \ {p} -> Int]
      BY <1>2
    <3>. HIDE DEF off
    <3>. QED
      BY <3>2, <3>3, <3>4, <3>5
  <2>2. CASE EraseForward(p)
    <3>. DEFINE off == [a \in Slots \ {p} |-> IF a < p THEN a + 1 ELSE a]
    <3>1. Slots' = (first + 1)..(last - 1)
      BY <2>2, EraseForwardMoves
    <3>2. ASSUME NEW a \in Slots \ {p}
          PROVE  off[a] \in Slots' /\ slots'[off[a]].Interpreter = slots[a].Interpreter
      <4>1. CASE a > p
        <5>1. off[a] = a /\ a \in Slots'
          BY <1>2, <3>1, <4>1
        <5>. QED
          BY <2>2, <4>1, <5>1, EraseForwardMoves
      <4>2. CASE a < p
        <5>1. off[a] = a + 1 /\ a + 1 \in Slots' /\ a + 1 <= p /\ (a + 1) - 1 = a
          BY <1>2, <3>1, <4>2
        <5>2. SameEntry(slots'[a + 1], slots[(a + 1) - 1])
          BY <2>2, <5>1, EraseForwardMoves
        <5>. QED
          BY <5>1, <5>2 DEF SameEntry
      <4>. QED
        BY <1>2, <4>1, <4>2
    <3>3. ASSUME NEW b \in Slots'
          PROVE  \E a \in Slots \ {p} : off[a] = b
      <4>1. CASE b > p
        <5>1. b \in Slots \ {p} /\ off[b] = b
          BY <1>2, <3>1, <4>1
        <5>. QED
          BY <5>1
      <4>2. CASE b <= p
        <5>1. b - 1 \in Slots \ {p} /\ off[b - 1] = b
          BY <1>2, <3>1, <4>2
        <5>. QED
          BY <5>1
      <4>. QED
        BY <1>2, <3>1, <4>1, <4>2
    <3>4. \A a, b \in Slots \ {p} : a < b <=> off[a] < off[b]
      BY <1>2
    <3>5. off \in [Slots \ {p} -> Int]
      BY <1>2
    <3>. HIDE DEF off
    <3>. QED
      BY <3>2, <3>3, <3>4, <3>5
  <2>. QED
    BY <2>1, <2>2
<1>5. MembersOf(Slots', slots') = MembersOf(Slots, slots) \ {i}
  BY <1>1, <1>4 DEF MembersOf
<1>6. BelowOf(Slots', slots') = {z \in BelowOf(Slots, slots) : i \notin {z[1], z[2]}}
  <2>1. ASSUME NEW x, NEW y
        PROVE  <<x, y>> \in BelowOf(Slots', slots') <=>
                 <<x, y>> \in BelowOf(Slots, slots) /\ i \notin {x, y}
    <3>1. <<x, y>> \in BelowOf(Slots', slots') <=>
            \E a, b \in Slots \ {p} : a < b /\ slots[a].Interpreter = x /\ slots[b].Interpreter = y
      <4>1. <<x, y>> \in BelowOf(Slots', slots') <=>
              \E a, b \in Slots' : a < b /\ slots'[a].Interpreter = x /\ slots'[b].Interpreter = y
        BY BelowFacts
      <4>. QED
        BY <1>4, <4>1
    <3>2. \A a \in Slots : slots[a].Interpreter = i <=> a = p
      BY <1>1
    <3>. QED
      BY <3>1, <3>2, BelowFacts
  <2>2. \A z \in {z \in BelowOf(Slots, slots) : i \notin {z[1], z[2]}} : z = <<z[1], z[2]>>
    BY BelowPairs
  <2>3. \A x, y : <<x, y>> \in {z \in BelowOf(Slots, slots) : i \notin {z[1], z[2]}} <=>
                    <<x, y>> \in BelowOf(Slots, slots) /\ i \notin {x, y}
    OBVIOUS
  <2>. DEFINE C == {z \in BelowOf(Slots, slots) : i \notin {z[1], z[2]}}
  <2>4. /\ \A z \in C : z = <<z[1], z[2]>>
        /\ \A x, y : <<x, y>> \in BelowOf(Slots', slots') <=> <<x, y>> \in C
    BY <2>1, <2>2, <2>3
  <2>. HIDE DEF C
  <2>5. BelowOf(Slots', slots') = C
    BY <2>4, BelowPairs, PairsEqual
  <2>. QED
    BY <2>5 DEF C
<1>7. i \in MembersOf(Slots, slots)
  BY DEF MembersOf
<1>. QED
  BY <1>3, <1>5, <1>6, <1>7 DEF Stack!Remove, MembersOf, BelowOf

\* An activation moves to the top and keeps the others in order.
LEMMA MoveToTopRefines ==
  ASSUME Inv, NEW i \in Interps, ActivateInterpreter(i), NEW p, p = Find(i),
         NEW e, e = last - 1
  PROVE  Stack!MoveToTop(i)
<1>1. \A a, b \in Slots : slots[a].Interpreter = slots[b].Interpreter => a = b
  BY DEF Inv, OwnershipExact
<1>2. /\ first \in Nat /\ last \in Nat /\ p \in Int /\ Slots = first..e /\ p \in Slots /\ e \in Slots
      /\ slots[p].Interpreter = i /\ Slots' = Slots /\ freed' = freed
  BY ActivateMoves, Deque
<1>3. /\ \A a \in Slots : a < p => slots'[a].Interpreter = slots[a].Interpreter
      /\ \A a \in Slots : p <= a /\ a < e => slots'[a].Interpreter = slots[a + 1].Interpreter
      /\ slots'[e].Interpreter = i
  BY <1>2, ActivateMoves DEF SameEntry
<1>4. PICK off \in [Slots \ {p} -> Int] :
        /\ \A a \in Slots \ {p} : /\ off[a] \in Slots \ {e}
                                  /\ slots'[off[a]].Interpreter = slots[a].Interpreter
        /\ \A b \in Slots \ {e} : \E a \in Slots \ {p} : off[a] = b
        /\ \A a, b \in Slots \ {p} : a < b <=> off[a] < off[b]
  <2>. DEFINE off == [a \in Slots \ {p} |-> IF a < p THEN a ELSE a - 1]
  <2>1. ASSUME NEW a \in Slots \ {p}
        PROVE  off[a] \in Slots \ {e} /\ slots'[off[a]].Interpreter = slots[a].Interpreter
    <3>1. CASE a < p
      <4>1. off[a] = a /\ a # e
        BY <1>2, <3>1
      <4>. QED
        BY <1>3, <3>1, <4>1
    <3>2. CASE a > p
      <4>1. off[a] = a - 1 /\ a - 1 \in Slots \ {e} /\ p <= a - 1 /\ a - 1 < e /\ (a - 1) + 1 = a
        BY <1>2, <3>2
      <4>2. slots'[a - 1].Interpreter = slots[(a - 1) + 1].Interpreter
        BY <1>3, <4>1
      <4>. QED
        BY <4>1, <4>2
    <3>. QED
      BY <1>2, <3>1, <3>2
  <2>2. ASSUME NEW b \in Slots \ {e}
        PROVE  \E a \in Slots \ {p} : off[a] = b
    <3>1. CASE b < p
      <4>1. b \in Slots \ {p} /\ off[b] = b
        BY <1>2, <3>1
      <4>. QED
        BY <4>1
    <3>2. CASE b >= p
      <4>1. b + 1 \in Slots \ {p} /\ off[b + 1] = b
        BY <1>2, <3>2
      <4>. QED
        BY <4>1
    <3>. QED
      BY <1>2, <3>1, <3>2
  <2>3. \A a, b \in Slots \ {p} : a < b <=> off[a] < off[b]
    BY <1>2
  <2>4. off \in [Slots \ {p} -> Int]
    BY <1>2
  <2>. HIDE DEF off
  <2>. QED
    BY <2>1, <2>2, <2>3, <2>4
<1>5. MembersOf(Slots', slots') = MembersOf(Slots, slots)
  <2>1. \A a \in Slots : \E b \in Slots : slots'[b].Interpreter = slots[a].Interpreter
    <3>1. slots'[e].Interpreter = slots[p].Interpreter
      BY <1>2, <1>3
    <3>2. \A a \in Slots \ {p} : off[a] \in Slots /\ slots'[off[a]].Interpreter = slots[a].Interpreter
      BY <1>4
    <3>. QED
      BY <1>2, <3>1, <3>2
  <2>2. \A b \in Slots : \E a \in Slots : slots'[b].Interpreter = slots[a].Interpreter
    <3>1. slots'[e].Interpreter = slots[p].Interpreter
      BY <1>2, <1>3
    <3>2. \A b \in Slots \ {e} : \E a \in Slots \ {p} : slots'[b].Interpreter = slots[a].Interpreter
      <4>1. ASSUME NEW b \in Slots \ {e}
            PROVE  \E a \in Slots \ {p} : slots'[b].Interpreter = slots[a].Interpreter
        <5>1. PICK a \in Slots \ {p} : off[a] = b
          BY <1>4
        <5>. QED
          BY <1>4, <5>1
      <4>. QED
        BY <4>1
    <3>3. ASSUME NEW b \in Slots
          PROVE  \E a \in Slots : slots'[b].Interpreter = slots[a].Interpreter
      <4>1. CASE b = e
        BY <1>2, <3>1, <4>1
      <4>2. CASE b # e
        BY <3>2, <4>2
      <4>. QED
        BY <4>1, <4>2
    <3>. QED
      BY <3>3
  <2>3. MembersOf(Slots', slots') = MembersOf(Slots, slots')
    BY <1>2 DEF MembersOf
  <2>. QED
    BY <2>1, <2>2, <2>3, MembersEqual
<1>6. BelowOf(Slots', slots') = {z \in BelowOf(Slots, slots) : i \notin {z[1], z[2]}}
                                  \cup {<<j, i>> : j \in MembersOf(Slots, slots) \ {i}}
  <2>. DEFINE C == {z \in BelowOf(Slots, slots) : i \notin {z[1], z[2]}}
                     \cup {<<j, i>> : j \in MembersOf(Slots, slots) \ {i}}
  <2>1. \A a \in Slots : slots[a].Interpreter = i <=> a = p
    BY <1>1, <1>2
  <2>2. ASSUME NEW x, NEW y
        PROVE  <<x, y>> \in BelowOf(Slots', slots') <=> <<x, y>> \in C
    <3>1. <<x, y>> \in BelowOf(Slots', slots') <=>
            \/ \E a, b \in Slots \ {p} : /\ a < b
                                         /\ slots[a].Interpreter = x /\ slots[b].Interpreter = y
            \/ y = i /\ \E a \in Slots \ {p} : slots[a].Interpreter = x
      <4>1. <<x, y>> \in BelowOf(Slots', slots') <=>
              \E a, b \in Slots : a < b /\ slots'[a].Interpreter = x /\ slots'[b].Interpreter = y
        BY <1>2, BelowFacts
      <4>2. \A a \in Slots \ {e} : a < e
        BY <1>2
      <4>3. ASSUME NEW a \in Slots, NEW b \in Slots, a < b,
                   slots'[a].Interpreter = x, slots'[b].Interpreter = y
            PROVE  \/ \E c, d \in Slots \ {p} : /\ c < d
                                                /\ slots[c].Interpreter = x /\ slots[d].Interpreter = y
                   \/ y = i /\ \E c \in Slots \ {p} : slots[c].Interpreter = x
        <5>1. a # e
          BY <1>2, <4>3
        <5>2. PICK c \in Slots \ {p} : off[c] = a
          BY <1>4, <5>1
        <5>3. slots[c].Interpreter = x
          BY <1>4, <4>3, <5>2
        <5>4. CASE b = e
          BY <1>3, <4>3, <5>3, <5>4
        <5>5. CASE b # e
          <6>1. PICK d \in Slots \ {p} : off[d] = b
            BY <1>4, <5>5
          <6>2. slots[d].Interpreter = y /\ c < d
            BY <1>4, <4>3, <5>2, <6>1
          <6>. QED
            BY <5>3, <6>2
        <5>. QED
          BY <5>4, <5>5
      <4>4. ASSUME NEW c \in Slots \ {p}, NEW d \in Slots \ {p}, c < d,
                   slots[c].Interpreter = x, slots[d].Interpreter = y
            PROVE  \E a, b \in Slots : a < b /\ slots'[a].Interpreter = x /\ slots'[b].Interpreter = y
        BY <1>4, <4>4
      <4>5. ASSUME y = i, NEW c \in Slots \ {p}, slots[c].Interpreter = x
            PROVE  \E a, b \in Slots : a < b /\ slots'[a].Interpreter = x /\ slots'[b].Interpreter = y
        <5>1. off[c] \in Slots \ {e} /\ slots'[off[c]].Interpreter = x
          BY <1>4, <4>5
        <5>2. off[c] < e /\ slots'[e].Interpreter = y
          BY <1>3, <4>2, <4>5, <5>1
        <5>. QED
          BY <1>2, <5>1, <5>2
      <4>. QED
        BY <4>1, <4>3, <4>4, <4>5
    <3>2. <<x, y>> \in BelowOf(Slots, slots) /\ i \notin {x, y} <=>
            \E a, b \in Slots \ {p} : a < b /\ slots[a].Interpreter = x /\ slots[b].Interpreter = y
      BY <2>1, BelowFacts
    <3>3. <<x, y>> \in {<<j, i>> : j \in MembersOf(Slots, slots) \ {i}} <=>
            y = i /\ \E a \in Slots \ {p} : slots[a].Interpreter = x
      BY <2>1 DEF MembersOf
    <3>4. <<x, y>> \in {z \in BelowOf(Slots, slots) : i \notin {z[1], z[2]}} <=>
            <<x, y>> \in BelowOf(Slots, slots) /\ i \notin {x, y}
      OBVIOUS
    <3>. QED
      BY <3>1, <3>2, <3>3, <3>4
  <2>3. \A z \in C : z = <<z[1], z[2]>>
    BY BelowPairs
  <2>. HIDE DEF C
  <2>4. BelowOf(Slots', slots') = C
    BY <2>2, <2>3, BelowPairs, PairsEqual
  <2>. QED
    BY <2>4 DEF C
<1>7. i \in MembersOf(Slots, slots)
  BY <1>2 DEF MembersOf
<1>. QED
  BY <1>2, <1>5, <1>6, <1>7 DEF Stack!MoveToTop, MembersOf, BelowOf

\* Static destruction drops the stack.
LEMMA DropRefines ==
  ASSUME Inv, ProcessExit
  PROVE  Stack!Drop
<1>1. Slots' = {}
  BY Deque DEF ProcessExit, Slots
<1>2. MembersOf(Slots', slots') = {} /\ BelowOf(Slots', slots') = {}
  BY <1>1 DEF MembersOf, BelowOf
<1>3. freed' \in {freed, freed \cup (MembersOf(Slots, slots) \cap Owned)}
  <2>1. CASE UNCHANGED freed
    BY <2>1
  <2>2. CASE Release(slots)
    <3>1. \A a \in Slots : /\ slots[a].isOwned <=> slots[a].Interpreter \in Owned
                           /\ slots[a].Interpreter # NULL
      BY OwnershipAssumption DEF Inv, OwnershipExact
    <3>2. DOMAIN slots = Slots
      BY DEF Inv, TypeOK
    <3>3. {slots[a].Interpreter : a \in Deleting(slots)} = MembersOf(Slots, slots) \cap Owned
      BY <3>1, <3>2 DEF Deleting, MembersOf
    <3>. QED
      BY <2>2, <3>3 DEF Release
  <2>. QED
    BY <2>1, <2>2 DEF ProcessExit
<1>. QED
  BY <1>2, <1>3 DEF Stack!Drop, MembersOf, BelowOf

\* The slot-level registry implements the stack: nothing is reordered, lost or
\* freed that the stack of interpreters does not reorder, lose or free
\* (CreateInterpreter, ActivateInterpreter and DeleteInterpreter of CppInterOp.cpp).
THEOREM RegistryRefinesStack == Spec => RefinesStack
<1>1. Init => Stack!StackInit
  <2>. SUFFICES ASSUME Init PROVE Stack!StackInit
    OBVIOUS
  <2>1. Slots = {} /\ freed = {}
    BY DEF Init, Slots
  <2>2. MembersOf(Slots, slots) = {} /\ BelowOf(Slots, slots) = {}
    BY <2>1 DEF MembersOf, BelowOf
  <2>. QED
    BY <2>1, <2>2 DEF Stack!StackInit, MembersOf, BelowOf
<1>2. ASSUME Inv, [Next]_vars
      PROVE  [Stack!StackNext]_Stack!stackVars
  <2>0. Interps = Stack!Interps
    BY DEF Interps, Stack!Interps
  <2>1. ASSUME NEW i \in Interps, CreateInterpreter(i) \/ UseExternalInterpreter(i)
        PROVE  Stack!StackNext
    <3>1. Stack!Push(i)
      BY <1>2, <2>1, PushRefines DEF CreateInterpreter, UseExternalInterpreter
    <3>. QED
      BY <2>0, <3>1 DEF Stack!StackNext
  <2>2. ASSUME NEW i \in Interps, ActivateInterpreter(i)
        PROVE  Stack!StackNext
    <3>1. Stack!MoveToTop(i)
      BY <1>2, <2>2, MoveToTopRefines
    <3>. QED
      BY <2>0, <3>1 DEF Stack!StackNext
  <2>3. CASE (\E i \in Interps : DeleteInterpreter(i)) \/ DeleteLast
    <3>1. PICK p \in Slots : EraseForward(p) \/ EraseBackward(p)
      BY <1>2, <2>3, DeletionErases
    <3>2. \A i : i = slots[p].Interpreter => i \in Interps /\ Stack!Remove(i)
      BY <1>2, <3>1, RemoveRefines DEF Inv, OwnershipExact
    <3>. QED
      BY <2>0, <3>2 DEF Stack!StackNext
  <2>4. ASSUME NEW i \in Interps, HandleDiagnostic(i) \/ DrainPending(i) \/ MakeFunctionCallable(i)
                                    \/ FindBuiltinType
        PROVE  UNCHANGED Stack!stackVars
    BY <1>2, <2>4, ContentStays, StutterRefines DEF SameEntry
  <2>5. ASSUME FindBuiltinType
        PROVE  UNCHANGED Stack!stackVars
    BY <1>2, <2>4, <2>5, InfoFacts DEF FindBuiltinType
  <2>6. ASSUME NEW declared \in BOOLEAN, EmitVariableViaOdrUse(declared), NEW n,
               NEW c, c = last - 1, n = slots[c].OdrUseCounter
        PROVE  UNCHANGED Stack!stackVars
    <3>1. /\ c \in Slots /\ n \in Nat /\ Slots' = Slots /\ freed' = freed
          /\ \A a \in Slots \ {c} : slots'[a] = slots[a]
          /\ slots'[c] = [slots[c] EXCEPT !.OdrUseCounter = n + 1]
      BY <1>2, <2>6, EmitCounts
    <3>2. slots'[c].Interpreter = slots[c].Interpreter
      BY <1>2, <3>1, Deque DEF InterpreterInfo
    <3>. QED
      BY <3>1, <3>2, StutterRefines
  <2>7. CASE ProcessExit
    BY <1>2, <2>7, DropRefines DEF Stack!StackNext
  <2>8. CASE UNCHANGED vars
    BY <2>8, StutterRefines DEF vars, Slots
  <2>. QED
    BY <1>2, <2>1, <2>2, <2>3, <2>4, <2>5, <2>6, <2>7, <2>8 DEF Next
<1>. QED
  BY <1>1, <1>2, InitInv, NextInv, PTL DEF Spec, RefinesStack, Stack!StackSpec
=============================================================================
