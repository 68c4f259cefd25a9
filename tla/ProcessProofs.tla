----------------------------- MODULE ProcessProofs -----------------------------
(***************************************************************************)
(* Proofs about the state CppInterOp shares with the process it lives in:  *)
(* the handlers registered with glibc, for any sets of threads and         *)
(* interpreters and any number of registrations, and the open libraries,   *)
(* the symbol filters of a library file and the search for a library that  *)
(* has a symbol, for every file system, search path, hash function, list   *)
(* of symbols and sequence of calls.                                       *)
(***************************************************************************)
EXTENDS GlibcHandlers, SymbolSearch, ElfObject, FiniteSetTheorems, SequenceTheorems, WellFoundedInduction,
        TLAPS

-----------------------------------------------------------------------------
(* The glibc handler registry.                                             *)
(* None of the invariants is inductive.  That the locks are not awaited in *)
(* a circle needs that M is held across a call only before the hook is in  *)
(* place and that nobody forks with handlers before that (LockInv).  That  *)
(* a handler runs at most once needs to know where each one that has not   *)
(* run is: in the registry, or with the one thread that took it (TakenInv).*)
(* That it runs, and before its code goes, needs what teardowns and forks  *)
(* that do not overlap know of the interpreters' phases (LifeInv).         *)


Forking(t)  == pc[t].why \in {"prepare", "parent"}
Flushing(t) == pc[t].why = "flush"

\* Which loop a thread is in goes with the step it is at.
StagesAgree ==
  \A t \in Threads :
    /\ pc[t].at = "idle" <=> pc[t].why = "idle"
    /\ pc[t].at = "take" => pc[t].why \in {"flush", "exit"}
    /\ pc[t].at \in {"drop", "deinit"} => Flushing(t)
    /\ pc[t].at = "snapshot" => pc[t].why = "prepare"
    /\ pc[t].at = "fork" => Forking(t)
    /\ pc[t].at \in {"call", "in"} => pc[t].owner \in Owners
    /\ Flushing(t) => pc[t].owner \in Owners

\* M is held between steps by the one thread that installs the atfork hook;
\* glibc's fork lock by the one that forks, which needs that hook.
LockInv ==
  /\ \A t \in Threads :
       /\ pc[t].installing # None <=> M = t
       /\ pc[t].installing # None => pc[t].at \in {"idle", "in", "deinit"}
       /\ Forking(t) <=> atforkLock = t
  /\ M # None => nextId \in Ids /\ ~AtforkHookInstalled
  /\ atforkLock # None => AtforkHookInstalled

\* A handler that thread t has taken out of the registry and is about to call.
Taken(t)      == pc[t].at = "call" /\ pc[t].why \in {"flush", "exit"}
TakenEntry(t) == [id |-> pc[t].id, Owner |-> pc[t].owner]

\* A handler is registered under a number of its own, and runs once it is
\* taken from its list.
TakenInv ==
  /\ \A e, f \in regs : e.id = f.id => e = f
  /\ \A e \in regs \cup Atfork : e.id < nextId
  /\ QuickExit \subseteq regs
  /\ \A i \in Ids : ran[i] \in {0, 1} /\ (i >= nextId => ran[i] = 0)
  /\ \A e \in QuickExit : ran[e.id] = 0
  /\ \A t \in Threads :
       Taken(t) => TakenEntry(t) \in regs \ QuickExit /\ ran[pc[t].id] = 0
  /\ \A t, u \in Threads : Taken(t) /\ Taken(u) /\ pc[t].id = pc[u].id => t = u

\* A handler that has not run is in the registry or about to be called.
NothingLost ==
  \A e \in regs : \/ ran[e.id] = 1
                  \/ e \in QuickExit
                  \/ \E t \in Threads : Taken(t) /\ TakenEntry(t) = e

\* One thread ends the process.
OneExits ==
  \A t, u \in Threads : pc[t].why = "exit" /\ pc[u].why = "exit" => t = u

\* An interpreter is torn down by one thread, which knows its phase.
TeardownInv ==
  /\ \A t, u \in Threads :
       Flushing(t) /\ Flushing(u) /\ pc[t].owner = pc[u].owner => t = u
  /\ \A t \in Threads : Flushing(t) =>
       phase[pc[t].owner] = IF pc[t].at = "deinit" THEN "deinit" ELSE "flush"
  /\ \A o \in Owners : phase[o] \in {"flush", "deinit"} =>
       \E t \in Threads : Flushing(t) /\ pc[t].owner = o

\* What is still registered when a teardown has come to each of its steps.
DrainedInv ==
  /\ \A e \in QuickExit \cup Atfork : phase[e.Owner] \in {"up", "flush"}
  /\ \A t \in Threads : pc[t].at \in {"drop", "deinit"} =>
       \A e \in QuickExit : e.Owner # pc[t].owner

\* Who runs code of an interpreter, or holds its handlers, while it is up.
UpInv ==
  /\ \A t \in Threads : pc[t].installing # None =>
       \/ pc[t].at = "idle" /\ phase[pc[t].installing] = "up"
       \/ pc[t].at \in {"in", "deinit"} /\ pc[t].installing = pc[t].owner
  /\ \A t \in Threads :
       pc[t].at \in {"call", "in"} /\ ~Flushing(t) => phase[pc[t].owner] = "up"
  /\ \A t \in Threads :
       Forking(t) /\ pc[t].at # "snapshot" => \A e \in ForkSnapshot : phase[e.Owner] = "up"

\* A handler whose interpreter or process has come to its end has run.
Once == \A e \in regs : exited \/ phase[e.Owner] = "down" => ran[e.id] = 1

\* What a process without teardown races guarantees.
LifeInv ==
  ~disturbed => /\ ~Overlap /\ ~wildCall
                /\ TeardownInv /\ DrainedInv /\ UpInv /\ Once

\* The inductive invariant.
Inv == /\ TypeOK /\ StagesAgree /\ LockInv /\ TakenInv /\ NothingLost
       /\ OneExits /\ LifeInv

-----------------------------------------------------------------------------
(* The types and the locks. *)

\* The state of a thread is a thread state.
LEMMA PCType ==
  ASSUME TypeOK, NEW t \in Threads
  PROVE  pc[t] \in ThreadStates
BY DEF TypeOK

\* Every step keeps the types; an id is used up only while one is left.
LEMMA TypeStep ==
  ASSUME TypeOK, LockInv, StagesAgree, [Next]_vars
  PROVE  TypeOK'
<1> USE BoundsAssumption, NoneAssumption
<1>1. ASSUME NEW t \in Threads, NEW o \in Owners, NEW hookOk \in BOOLEAN, addQuickExit(t, o, hookOk), Observe
      PROVE  TypeOK'
  <2>1. NewEntry(o) \in Entries
    BY <1>1 DEF addQuickExit, NewEntry, Entries
  <2>2. nextId' \in 1..MaxRegs + 1
    BY <1>1 DEF addQuickExit, TypeOK, Ids
  <2>. QED
    BY <1>1, <2>1, <2>2 DEF addQuickExit, TypeOK, Observe
<1>2. ASSUME NEW t \in Threads, NEW o \in Owners, addAtfork(t, o), Observe PROVE TypeOK'
  <2>1. NewEntry(o) \in Entries
    BY <1>2 DEF addAtfork, NewEntry, Entries
  <2>2. nextId' \in 1..MaxRegs + 1
    BY <1>2 DEF addAtfork, TypeOK, Ids
  <2>3. [pc[t] EXCEPT !.installing = o] \in ThreadStates
    BY PCType DEF ThreadStates
  <2>4. pc' \in [Threads -> ThreadStates]
    BY <1>2, <2>3 DEF addAtfork, TypeOK
  <2>. QED
    BY <1>2, <2>1, <2>2, <2>4 DEF addAtfork, TypeOK, Observe
<1>3. ASSUME NEW t \in Threads, NEW o \in Owners, BeginTeardown(t, o), Observe
      PROVE  TypeOK'
  <2>1. Stage("take", o, "flush") \in ThreadStates
    BY PCType DEF ThreadStates, Idle, Stage, InSnapshot
  <2>2. pc' \in [Threads -> ThreadStates]
    BY <1>3, <2>1 DEF BeginTeardown, TypeOK
  <2>. QED
    BY <1>3, <2>2 DEF BeginTeardown, TypeOK, Observe, Ids
<1>4. ASSUME NEW t \in Threads, BeginQuickExit(t), Observe PROVE TypeOK'
  <2>1. Stage("take", None, "exit") \in ThreadStates
    BY PCType DEF ThreadStates, Idle, Stage, InSnapshot
  <2>2. pc' \in [Threads -> ThreadStates]
    BY <1>4, <2>1 DEF BeginQuickExit, TypeOK
  <2>. QED
    BY <1>4, <2>2 DEF BeginQuickExit, TypeOK, Observe, Ids
<1>5. ASSUME NEW t \in Threads, BeginFork(t), Observe PROVE TypeOK'
  <2>1. Stage("snapshot", None, "prepare") \in ThreadStates
    BY PCType DEF ThreadStates, Idle, Stage, InSnapshot
  <2>2. pc' \in [Threads -> ThreadStates]
    BY <1>5, <2>1 DEF BeginFork, TypeOK
  <2>. QED
    BY <1>5, <2>2 DEF BeginFork, TypeOK, Observe, Ids
<1>6. ASSUME NEW t \in Threads, NEW hookOk \in BOOLEAN, InstallAtforkHook(t, hookOk), Observe
      PROVE  TypeOK'
  <2>1. M = t /\ nextId \in Ids /\ pc[t].installing \in Owners
    BY <1>6, PCType DEF InstallAtforkHook, LockInv, ThreadStates
  <2>2. NewEntry(pc[t].installing) \in Entries
    BY <2>1 DEF NewEntry, Entries
  <2>3. nextId' \in 1..MaxRegs + 1
    BY <1>6, <2>1 DEF InstallAtforkHook, TypeOK, Ids
  <2>4. [pc[t] EXCEPT !.installing = None] \in ThreadStates
    BY PCType DEF ThreadStates
  <2>5. pc' \in [Threads -> ThreadStates]
    BY <1>6, <2>4 DEF InstallAtforkHook, TypeOK
  <2>. QED
    BY <1>6, <2>2, <2>3, <2>5 DEF InstallAtforkHook, TypeOK, Observe
<1>7. ASSUME NEW t \in Threads, takeLastQuickExit(t), Observe PROVE TypeOK'
  <2>1. pc[t].why = "flush" => pc[t].owner \in Owners
    BY DEF StagesAgree, Flushing
  <2>2. Stage("drop", pc[t].owner, "flush") \in ThreadStates /\ Idle \in ThreadStates
    BY PCType DEF ThreadStates, Idle, Stage
  <2>3. ASSUME NEW e \in QuickExit PROVE Calling(e, pc[t].why, 0) \in ThreadStates
    BY PCType, <2>3 DEF ThreadStates, Calling, TypeOK, Entries, Ids
  <2>4. pc' \in [Threads -> ThreadStates]
    BY <1>7, <2>2, <2>3 DEF takeLastQuickExit, Candidates, TypeOK
  <2>. QED
    BY <1>7, <2>4 DEF takeLastQuickExit, Candidates, TypeOK, Observe
<1>8. ASSUME NEW t \in Threads, CallHandler(t), Observe PROVE TypeOK'
  <2>1. [pc[t] EXCEPT !.at = "in"] \in ThreadStates
    BY PCType DEF ThreadStates, Idle, Stage, InSnapshot
  <2>2. pc' \in [Threads -> ThreadStates]
    BY <1>8, <2>1 DEF CallHandler, TypeOK
  <2>3. \A i \in Ids : ran[i] + 1 \in Nat
    BY DEF TypeOK
  <2>4. ran' \in [Ids -> Nat]
    BY <1>8, <2>3 DEF CallHandler, TypeOK
  <2>. QED
    BY <1>8, <2>2, <2>4 DEF CallHandler, TypeOK, Observe
<1>9. ASSUME NEW t \in Threads, ReturnFromHandler(t), Observe PROVE TypeOK'
  <2>1. [pc[t] EXCEPT !.at = IF pc[t].why \in {"flush", "exit"} THEN "take" ELSE "fork"] \in ThreadStates
    BY PCType DEF ThreadStates, Idle, Stage, InSnapshot
  <2>2. pc' \in [Threads -> ThreadStates]
    BY <1>9, <2>1 DEF ReturnFromHandler, TypeOK
  <2>. QED
    BY <1>9, <2>2 DEF ReturnFromHandler, TypeOK, Observe, Ids
<1>10. ASSUME NEW t \in Threads, DropAtfork(t), Observe PROVE TypeOK'
  <2>1. Stage("deinit", pc[t].owner, "flush") \in ThreadStates
    BY PCType DEF ThreadStates, Idle, Stage, InSnapshot
  <2>2. pc' \in [Threads -> ThreadStates]
    BY <1>10, <2>1 DEF DropAtfork, TypeOK
  <2>. QED
    BY <1>10, <2>2 DEF DropAtfork, TypeOK, Observe, Ids
<1>11. ASSUME NEW t \in Threads, Unmap(t), Observe PROVE TypeOK'
  <2>1. Idle \in ThreadStates
    BY PCType DEF ThreadStates, Idle, Stage, InSnapshot
  <2>2. pc' \in [Threads -> ThreadStates]
    BY <1>11, <2>1 DEF Unmap, TypeOK
  <2>. QED
    BY <1>11, <2>2 DEF Unmap, TypeOK, Observe, Ids
<1>12. ASSUME NEW t \in Threads, runAtforkPrepare(t), Observe PROVE TypeOK'
  <2>1. InSnapshot("prepare", MaxRegs + 1) \in ThreadStates
    BY PCType DEF ThreadStates, Idle, Stage, InSnapshot
  <2>2. pc' \in [Threads -> ThreadStates]
    BY <1>12, <2>1 DEF runAtforkPrepare, TypeOK
  <2>. QED
    BY <1>12, <2>2 DEF runAtforkPrepare, TypeOK, Observe, Ids
<1>13. ASSUME NEW t \in Threads, NextForkHandler(t), Observe PROVE TypeOK'
  <2>1. ASSUME NEW e \in ForkSnapshot PROVE Calling(e, pc[t].why, e.id) \in ThreadStates
    BY PCType, <2>1 DEF ThreadStates, Calling, TypeOK, Entries, Ids
  <2>2. pc' \in [Threads -> ThreadStates]
    BY <1>13, <2>1 DEF NextForkHandler, Remaining, TypeOK
  <2>. QED
    BY <1>13, <2>2 DEF NextForkHandler, TypeOK, Observe
<1>14. ASSUME NEW t \in Threads, Fork(t), Observe PROVE TypeOK'
  <2>1. InSnapshot("parent", 0) \in ThreadStates
    BY PCType DEF ThreadStates, Idle, Stage, InSnapshot
  <2>2. pc' \in [Threads -> ThreadStates]
    BY <1>14, <2>1 DEF Fork, TypeOK
  <2>. QED
    BY <1>14, <2>2 DEF Fork, TypeOK, Observe, Ids
<1>15. ASSUME NEW t \in Threads, EndFork(t), Observe PROVE TypeOK'
  <2>1. Idle \in ThreadStates
    BY PCType DEF ThreadStates, Idle, Stage, InSnapshot
  <2>2. pc' \in [Threads -> ThreadStates]
    BY <1>15, <2>1 DEF EndFork, TypeOK
  <2>. QED
    BY <1>15, <2>2 DEF EndFork, TypeOK, Observe, Ids
<1>16. CASE UNCHANGED vars
  BY <1>16 DEF vars, TypeOK
<1>17. QED
  BY <1>1, <1>2, <1>3, <1>4, <1>5, <1>6, <1>7, <1>8, <1>9, <1>10, <1>11, <1>12, <1>13,
     <1>14, <1>15, <1>16 DEF Next, Begin, Continue, Done

\* Each step leaves its thread at a step of the loop it is in.
LEMMA StagesStep ==
  ASSUME TypeOK, StagesAgree, LockInv, [Next]_vars
  PROVE  StagesAgree'
<1>1. ASSUME NEW t \in Threads, NEW o \in Owners, NEW hookOk \in BOOLEAN, addQuickExit(t, o, hookOk)
      PROVE  StagesAgree'
  BY <1>1, NoneAssumption DEF addQuickExit, RunsCodeOf, NewEntry, TypeOK,
       ThreadStates, StagesAgree, LockInv, Idle, Stage, InSnapshot, Calling,
       Forking, Flushing, Entries
<1>2. ASSUME NEW t \in Threads, NEW o \in Owners, addAtfork(t, o) PROVE StagesAgree'
  BY <1>2, NoneAssumption DEF addAtfork, RunsCodeOf, TypeOK, ThreadStates,
       StagesAgree, LockInv, Idle, Stage, InSnapshot, Calling, Forking, Flushing,
       Entries
<1>3. ASSUME NEW t \in Threads, NEW o \in Owners, BeginTeardown(t, o) PROVE StagesAgree'
  BY <1>3, NoneAssumption DEF BeginTeardown, TypeOK, ThreadStates, StagesAgree,
       LockInv, Idle, Stage, InSnapshot, Calling, Forking, Flushing, Entries
<1>4. ASSUME NEW t \in Threads, BeginQuickExit(t) PROVE StagesAgree'
  BY <1>4, NoneAssumption DEF BeginQuickExit, TypeOK, ThreadStates, StagesAgree,
       LockInv, Idle, Stage, InSnapshot, Calling, Forking, Flushing, Entries
<1>5. ASSUME NEW t \in Threads, BeginFork(t) PROVE StagesAgree'
  BY <1>5, NoneAssumption DEF BeginFork, TypeOK, ThreadStates, StagesAgree,
       LockInv, Idle, Stage, InSnapshot, Calling, Forking, Flushing, Entries
<1>6. ASSUME NEW t \in Threads, NEW hookOk \in BOOLEAN, InstallAtforkHook(t, hookOk)
      PROVE  StagesAgree'
  BY <1>6, NoneAssumption DEF InstallAtforkHook, NewEntry, TypeOK, ThreadStates,
       StagesAgree, LockInv, Idle, Stage, InSnapshot, Calling, Forking, Flushing,
       Entries
<1>7. ASSUME NEW t \in Threads, takeLastQuickExit(t) PROVE StagesAgree'
  BY <1>7, NoneAssumption DEF takeLastQuickExit, Candidates, TypeOK, ThreadStates,
       StagesAgree, LockInv, Idle, Stage, InSnapshot, Calling, Forking, Flushing,
       Entries
<1>8. ASSUME NEW t \in Threads, CallHandler(t) PROVE StagesAgree'
  BY <1>8, NoneAssumption DEF CallHandler, TypeOK, ThreadStates, StagesAgree,
       LockInv, Idle, Stage, InSnapshot, Calling, Forking, Flushing, Entries
<1>9. ASSUME NEW t \in Threads, ReturnFromHandler(t) PROVE StagesAgree'
  BY <1>9, NoneAssumption DEF ReturnFromHandler, TypeOK, ThreadStates, StagesAgree,
       LockInv, Idle, Stage, InSnapshot, Calling, Forking, Flushing, Entries
<1>10. ASSUME NEW t \in Threads, DropAtfork(t) PROVE StagesAgree'
  BY <1>10, NoneAssumption DEF DropAtfork, TypeOK, ThreadStates, StagesAgree,
       LockInv, Idle, Stage, InSnapshot, Calling, Forking, Flushing, Entries
<1>11. ASSUME NEW t \in Threads, Unmap(t) PROVE StagesAgree'
  BY <1>11, NoneAssumption DEF Unmap, TypeOK, ThreadStates, StagesAgree, LockInv,
       Idle, Stage, InSnapshot, Calling, Forking, Flushing, Entries
<1>12. ASSUME NEW t \in Threads, runAtforkPrepare(t) PROVE StagesAgree'
  BY <1>12, NoneAssumption DEF runAtforkPrepare, TypeOK, ThreadStates, StagesAgree,
       LockInv, Idle, Stage, InSnapshot, Calling, Forking, Flushing, Entries
<1>13. ASSUME NEW t \in Threads, NextForkHandler(t) PROVE StagesAgree'
  BY <1>13, NoneAssumption DEF NextForkHandler, Remaining, TypeOK, ThreadStates,
       StagesAgree, LockInv, Idle, Stage, InSnapshot, Calling, Forking, Flushing,
       Entries
<1>14. ASSUME NEW t \in Threads, Fork(t) PROVE StagesAgree'
  BY <1>14, NoneAssumption DEF Fork, TypeOK, ThreadStates, StagesAgree, LockInv,
       Idle, Stage, InSnapshot, Calling, Forking, Flushing, Entries
<1>15. ASSUME NEW t \in Threads, EndFork(t) PROVE StagesAgree'
  BY <1>15, NoneAssumption DEF EndFork, TypeOK, ThreadStates, StagesAgree, LockInv,
       Idle, Stage, InSnapshot, Calling, Forking, Flushing, Entries
<1>16. CASE UNCHANGED vars
  BY <1>16 DEF vars, TypeOK, ThreadStates, StagesAgree, LockInv, Idle, Stage,
       InSnapshot, Calling, Forking, Flushing, Entries
<1>17. QED
  BY <1>1, <1>2, <1>3, <1>4, <1>5, <1>6, <1>7, <1>8, <1>9, <1>10, <1>11, <1>12,
       <1>13, <1>14, <1>15, <1>16 DEF Next, Begin, Continue, Done

\* M is given up by the step that puts the hook in place.
LEMMA LockStep ==
  ASSUME TypeOK, StagesAgree, LockInv, [Next]_vars
  PROVE  LockInv'
<1>1. ASSUME NEW t \in Threads, NEW o \in Owners, NEW hookOk \in BOOLEAN, addQuickExit(t, o, hookOk)
      PROVE  LockInv'
  BY <1>1, NoneAssumption DEF addQuickExit, RunsCodeOf, NewEntry, TypeOK,
       ThreadStates, StagesAgree, LockInv, Idle, Stage, InSnapshot, Calling,
       Forking, Flushing, Entries, Ids
<1>2. ASSUME NEW t \in Threads, NEW o \in Owners, addAtfork(t, o) PROVE LockInv'
  BY <1>2, NoneAssumption DEF addAtfork, RunsCodeOf, TypeOK, ThreadStates,
       StagesAgree, LockInv, Idle, Stage, InSnapshot, Calling, Forking, Flushing,
       Entries, Ids
<1>3. ASSUME NEW t \in Threads, NEW o \in Owners, BeginTeardown(t, o) PROVE LockInv'
  BY <1>3, NoneAssumption DEF BeginTeardown, TypeOK, ThreadStates, StagesAgree,
       LockInv, Idle, Stage, InSnapshot, Calling, Forking, Flushing, Entries, Ids
<1>4. ASSUME NEW t \in Threads, BeginQuickExit(t) PROVE LockInv'
  BY <1>4, NoneAssumption DEF BeginQuickExit, TypeOK, ThreadStates, StagesAgree,
       LockInv, Idle, Stage, InSnapshot, Calling, Forking, Flushing, Entries, Ids
<1>5. ASSUME NEW t \in Threads, BeginFork(t) PROVE LockInv'
  BY <1>5, NoneAssumption DEF BeginFork, TypeOK, ThreadStates, StagesAgree,
       LockInv, Idle, Stage, InSnapshot, Calling, Forking, Flushing, Entries, Ids
<1>6. ASSUME NEW t \in Threads, NEW hookOk \in BOOLEAN, InstallAtforkHook(t, hookOk)
      PROVE  LockInv'
  BY <1>6, NoneAssumption DEF InstallAtforkHook, NewEntry, TypeOK, ThreadStates,
       StagesAgree, LockInv, Idle, Stage, InSnapshot, Calling, Forking, Flushing,
       Entries, Ids
<1>7. ASSUME NEW t \in Threads, takeLastQuickExit(t) PROVE LockInv'
  <2>1. UNCHANGED <<M, nextId, atforkLock, AtforkHookInstalled>> /\ pc[t].at = "take"
    BY <1>7 DEF takeLastQuickExit
  <2>2. \E s : /\ pc' = [pc EXCEPT ![t] = s]
               /\ s.installing = None /\ s.why \notin {"prepare", "parent"}
    <3>1. pc[t].why \in {"flush", "exit"}
      BY <1>7 DEF takeLastQuickExit, StagesAgree
    <3>2. ASSUME NEW e PROVE /\ Calling(e, pc[t].why, 0).installing = None
                             /\ Calling(e, pc[t].why, 0).why = pc[t].why
      BY DEF Calling
    <3>3. \A s \in {Stage("drop", pc[t].owner, "flush"), Idle} :
            s.installing = None /\ s.why \in {"flush", "idle"}
      BY DEF Stage, Idle
    <3>. QED
      BY <1>7, <3>1, <3>2, <3>3 DEF takeLastQuickExit
  <2>3. ~Forking(t) /\ M # t
    BY <1>7, NoneAssumption DEF takeLastQuickExit, StagesAgree, Forking
  <2>4. ~Forking(t)' /\ pc'[t].installing = None /\ \A u \in Threads \ {t} : pc'[u] = pc[u]
    BY <2>2 DEF TypeOK, Forking
  <2>. QED
    BY <2>1, <2>3, <2>4 DEF LockInv, Forking
<1>8. ASSUME NEW t \in Threads, CallHandler(t) PROVE LockInv'
  BY <1>8, NoneAssumption DEF CallHandler, TypeOK, ThreadStates, StagesAgree,
       LockInv, Idle, Stage, InSnapshot, Calling, Forking, Flushing, Entries, Ids
<1>9. ASSUME NEW t \in Threads, ReturnFromHandler(t) PROVE LockInv'
  BY <1>9, NoneAssumption DEF ReturnFromHandler, TypeOK, ThreadStates, StagesAgree,
       LockInv, Idle, Stage, InSnapshot, Calling, Forking, Flushing, Entries, Ids
<1>10. ASSUME NEW t \in Threads, DropAtfork(t) PROVE LockInv'
  BY <1>10, NoneAssumption DEF DropAtfork, TypeOK, ThreadStates, StagesAgree,
       LockInv, Idle, Stage, InSnapshot, Calling, Forking, Flushing, Entries, Ids
<1>11. ASSUME NEW t \in Threads, Unmap(t) PROVE LockInv'
  BY <1>11, NoneAssumption DEF Unmap, TypeOK, ThreadStates, StagesAgree, LockInv,
       Idle, Stage, InSnapshot, Calling, Forking, Flushing, Entries, Ids
<1>12. ASSUME NEW t \in Threads, runAtforkPrepare(t) PROVE LockInv'
  BY <1>12, NoneAssumption DEF runAtforkPrepare, TypeOK, ThreadStates, StagesAgree,
       LockInv, Idle, Stage, InSnapshot, Calling, Forking, Flushing, Entries, Ids
<1>13. ASSUME NEW t \in Threads, NextForkHandler(t) PROVE LockInv'
  BY <1>13, NoneAssumption DEF NextForkHandler, Remaining, TypeOK, ThreadStates,
       StagesAgree, LockInv, Idle, Stage, InSnapshot, Calling, Forking, Flushing,
       Entries, Ids
<1>14. ASSUME NEW t \in Threads, Fork(t) PROVE LockInv'
  BY <1>14, NoneAssumption DEF Fork, TypeOK, ThreadStates, StagesAgree, LockInv,
       Idle, Stage, InSnapshot, Calling, Forking, Flushing, Entries, Ids
<1>15. ASSUME NEW t \in Threads, EndFork(t) PROVE LockInv'
  BY <1>15, NoneAssumption DEF EndFork, TypeOK, ThreadStates, StagesAgree, LockInv,
       Idle, Stage, InSnapshot, Calling, Forking, Flushing, Entries, Ids
<1>16. CASE UNCHANGED vars
  BY <1>16 DEF vars, TypeOK, ThreadStates, StagesAgree, LockInv, Idle, Stage,
       InSnapshot, Calling, Forking, Flushing, Entries, Ids
<1>17. QED
  BY <1>1, <1>2, <1>3, <1>4, <1>5, <1>6, <1>7, <1>8, <1>9, <1>10, <1>11, <1>12,
       <1>13, <1>14, <1>15, <1>16 DEF Next, Begin, Continue, Done

-----------------------------------------------------------------------------
(* Where a handler is that has not run. *)

\* What a step that touches one thread leaves of the others.
LEMMA PCUpdate ==
  ASSUME TypeOK, NEW t \in Threads, NEW s, pc' = [pc EXCEPT ![t] = s]
  PROVE  pc'[t] = s /\ \A u \in Threads \ {t} : pc'[u] = pc[u]
BY DEF TypeOK

\* A step that begins or ends no call out of the registry, and registers nothing.
LEMMA SameTaken ==
  ASSUME TakenInv, UNCHANGED <<QuickExit, Atfork, regs, ran, nextId>>,
         \A u \in Threads : Taken(u)' => Taken(u) /\ TakenEntry(u)' = TakenEntry(u)
  PROVE  TakenInv'
<1>1. \A u \in Threads : Taken(u)' => pc'[u].id = pc[u].id
  BY DEF TakenEntry
<1>. QED
  BY <1>1 DEF TakenInv, Ids

\* takeLastQuickExit erases what it returns under M, so nobody else takes it.
LEMMA TakenStep ==
  ASSUME TypeOK, StagesAgree, LockInv, TakenInv, [Next]_vars
  PROVE  TakenInv'
<1>1. ASSUME NEW t \in Threads, NEW o \in Owners, NEW hookOk \in BOOLEAN, addQuickExit(t, o, hookOk)
      PROVE  TakenInv'
  <2>1. UNCHANGED <<pc, ran, Atfork>> /\ nextId \in Ids
    BY <1>1 DEF addQuickExit
  <2>2. CASE UNCHANGED <<QuickExit, regs, nextId>>
    BY <2>1, <2>2 DEF TakenInv, Taken, TakenEntry, Ids
  <2>3. CASE /\ QuickExit' = QuickExit \cup {NewEntry(o)}
             /\ regs' = regs \cup {NewEntry(o)} /\ nextId' = nextId + 1
    <3>1. NewEntry(o).id = nextId
      BY DEF NewEntry
    <3>2. \A e \in regs \cup Atfork : e.id < nextId /\ e.id \in Ids
      BY DEF TakenInv, TypeOK, Entries
    <3>3. ran[nextId] = 0
      BY <2>1 DEF TakenInv, Ids
    <3>4. NewEntry(o) \notin regs
      BY <2>1, <3>1, <3>2 DEF Ids
    <3>5. \A u \in Threads : Taken(u)' = Taken(u) /\ TakenEntry(u)' = TakenEntry(u)
      BY <2>1 DEF Taken, TakenEntry
    <3>6. \A e, f \in regs' : e.id = f.id => e = f
      BY <2>1, <2>3, <3>1, <3>2 DEF TakenInv, Ids
    <3>7. \A u \in Threads : Taken(u)' =>
            TakenEntry(u)' \in regs' \ QuickExit' /\ ran'[pc'[u].id] = 0
      BY <2>1, <2>3, <3>4, <3>5 DEF TakenInv
    <3>. QED
      BY <2>1, <2>3, <3>1, <3>2, <3>3, <3>5, <3>6, <3>7 DEF TakenInv, Ids, Taken
  <2>4. QED
    BY <1>1, <2>2, <2>3 DEF addQuickExit
<1>2. ASSUME NEW t \in Threads, NEW o \in Owners, addAtfork(t, o) PROVE TakenInv'
  <2>1. UNCHANGED <<QuickExit, regs, ran>> /\ nextId \in Ids
    BY <1>2 DEF addAtfork
  <2>2. CASE Atfork' = Atfork \cup {NewEntry(o)} /\ nextId' = nextId + 1 /\ UNCHANGED pc
    BY <2>1, <2>2 DEF TakenInv, Taken, TakenEntry, Ids, NewEntry, TypeOK, Entries
  <2>3. CASE pc' = [pc EXCEPT ![t].installing = o] /\ UNCHANGED <<Atfork, nextId>>
    <3>1. \A u \in Threads : /\ pc'[u].at = pc[u].at /\ pc'[u].why = pc[u].why
                             /\ pc'[u].id = pc[u].id /\ pc'[u].owner = pc[u].owner
      BY <2>3, PCType DEF TypeOK, ThreadStates
    <3>. QED
      BY <2>1, <2>3, <3>1, SameTaken DEF Taken, TakenEntry
  <2>4. QED
    BY <1>2, <2>2, <2>3 DEF addAtfork
<1>3. ASSUME NEW t \in Threads, NEW o \in Owners, BeginTeardown(t, o) PROVE TakenInv'
  BY <1>3, BoundsAssumption, NoneAssumption DEF BeginTeardown, TypeOK,
       ThreadStates, StagesAgree, LockInv, Idle, Stage, InSnapshot, Calling,
       Flushing, Taken, TakenEntry, TakenInv, Ids, Forking, Entries
<1>4. ASSUME NEW t \in Threads, BeginQuickExit(t) PROVE TakenInv'
  BY <1>4, BoundsAssumption, NoneAssumption DEF BeginQuickExit, TypeOK,
       ThreadStates, StagesAgree, LockInv, Idle, Stage, InSnapshot, Calling,
       Flushing, Taken, TakenEntry, TakenInv, Ids, Forking, Entries
<1>5. ASSUME NEW t \in Threads, BeginFork(t) PROVE TakenInv'
  BY <1>5, BoundsAssumption, NoneAssumption DEF BeginFork, TypeOK, ThreadStates,
       StagesAgree, LockInv, Idle, Stage, InSnapshot, Calling, Flushing, Taken,
       TakenEntry, TakenInv, Ids, Forking, Entries
<1>6. ASSUME NEW t \in Threads, NEW hookOk \in BOOLEAN, InstallAtforkHook(t, hookOk)
      PROVE  TakenInv'
  BY <1>6, BoundsAssumption, NoneAssumption DEF InstallAtforkHook, NewEntry,
       TypeOK, ThreadStates, StagesAgree, LockInv, Idle, Stage, InSnapshot,
       Calling, Flushing, Taken, TakenEntry, TakenInv, Ids, Forking, Entries
<1>7. ASSUME NEW t \in Threads, takeLastQuickExit(t) PROVE TakenInv'
  <2>1. UNCHANGED <<regs, Atfork, ran, nextId>> /\ pc[t].at = "take"
    BY <1>7 DEF takeLastQuickExit
  <2>2. ASSUME NEW e \in Candidates(t), pc' = [pc EXCEPT ![t] = Calling(e, pc[t].why, 0)],
               QuickExit' = QuickExit \ {e}
        PROVE  TakenInv'
    <3>1. e \in QuickExit /\ e \in regs /\ e \in Entries /\ ran[e.id] = 0
      BY DEF Candidates, TakenInv, TypeOK
    <3>2. e = [id |-> e.id, Owner |-> e.Owner]
      BY <3>1 DEF Entries
    <3>3. pc'[t] = Calling(e, pc[t].why, 0) /\ \A u \in Threads \ {t} : pc'[u] = pc[u]
      BY <2>2, PCUpdate
    <3>4. pc'[t].id = e.id /\ TakenEntry(t)' = e
      BY <3>2, <3>3 DEF Calling, TakenEntry
    <3>5. \A u \in Threads \ {t} : Taken(u)' = Taken(u) /\ TakenEntry(u)' = TakenEntry(u)
      BY <3>3 DEF Taken, TakenEntry
    <3>6. \A u \in Threads : Taken(u) => pc[u].id # e.id
      <4>1. SUFFICES ASSUME NEW u \in Threads, Taken(u), pc[u].id = e.id
                     PROVE  FALSE
        OBVIOUS
      <4>2. TakenEntry(u) \in regs \ QuickExit /\ TakenEntry(u).id = e.id
        BY <4>1 DEF TakenInv, TakenEntry
      <4>. QED
        BY <4>2, <3>1 DEF TakenInv
    <3>7. \A u \in Threads : Taken(u)' =>
            TakenEntry(u)' \in regs' \ QuickExit' /\ ran'[pc'[u].id] = 0
      BY <2>1, <2>2, <3>1, <3>3, <3>4, <3>5 DEF TakenInv
    <3>8. \A u, v \in Threads : Taken(u)' /\ Taken(v)' /\ pc'[u].id = pc'[v].id => u = v
      BY <3>3, <3>4, <3>5, <3>6 DEF TakenInv
    <3>. QED
      BY <2>1, <2>2, <3>7, <3>8 DEF TakenInv
  <2>3. CASE QuickExit' = QuickExit /\ \E s \in {Stage("drop", pc[t].owner, "flush"), Idle} :
                                         pc' = [pc EXCEPT ![t] = s]
    <3>1. pc'[t].at # "call" /\ \A u \in Threads \ {t} : pc'[u] = pc[u]
      BY <2>3 DEF TypeOK, Stage, Idle
    <3>. QED
      BY <2>1, <2>3, <3>1, SameTaken DEF Taken, TakenEntry
  <2>4. QED
    BY <1>7, <2>2, <2>3 DEF takeLastQuickExit
<1>8. ASSUME NEW t \in Threads, CallHandler(t) PROVE TakenInv'
  <2>1. /\ pc'[t].at = "in" /\ \A u \in Threads \ {t} : pc'[u] = pc[u]
        /\ UNCHANGED <<QuickExit, Atfork, regs, nextId>> /\ pc[t].at = "call"
    BY <1>8, PCType DEF CallHandler, TypeOK, ThreadStates
  <2>2. \A u \in Threads : Taken(u)' => u # t /\ Taken(u) /\ TakenEntry(u)' = TakenEntry(u)
    BY <2>1 DEF Taken, TakenEntry
  <2>3. CASE Taken(t)
    <3>1. ran' = [ran EXCEPT ![pc[t].id] = ran[pc[t].id] + 1]
      BY <1>8, <2>3 DEF CallHandler, Taken
    <3>2. TakenEntry(t) \in regs \ QuickExit /\ TakenEntry(t).id = pc[t].id /\ ran[pc[t].id] = 0
      BY <2>3 DEF TakenInv, TakenEntry
    <3>3. pc[t].id \in Ids /\ pc[t].id < nextId
      BY <3>2 DEF TakenInv, TypeOK, Entries
    <3>4. ran'[pc[t].id] = 1 /\ \A i \in Ids \ {pc[t].id} : ran'[i] = ran[i]
      BY <3>1, <3>2, <3>3 DEF TypeOK
    <3>5. \A u \in Threads : Taken(u)' => pc[u].id \in Ids \ {pc[t].id}
      <4>1. \A u \in Threads : Taken(u)' => pc[u].id # pc[t].id
        BY <2>2, <2>3 DEF TakenInv
      <4>2. \A u \in Threads : Taken(u)' => TakenEntry(u) \in regs /\ TakenEntry(u).id = pc[u].id
        BY <2>2 DEF TakenInv, TakenEntry
      <4>. QED
        BY <4>1, <4>2 DEF TypeOK, Entries
    <3>6. \A e \in QuickExit : e.id \in Ids \ {pc[t].id}
      BY <3>2 DEF TakenInv, TypeOK, Entries
    <3>7. \A u \in Threads : Taken(u)' =>
            TakenEntry(u)' \in regs' \ QuickExit' /\ ran'[pc'[u].id] = 0
      BY <2>1, <2>2, <3>4, <3>5 DEF TakenInv
    <3>8. \A i \in Ids : ran'[i] \in {0, 1} /\ (i >= nextId' => ran'[i] = 0)
      BY <2>1, <3>3, <3>4 DEF TakenInv, TypeOK, Ids
    <3>9. \A u, v \in Threads : Taken(u)' /\ Taken(v)' /\ pc'[u].id = pc'[v].id => u = v
      BY <2>1, <2>2 DEF TakenInv
    <3>. QED
      BY <2>1, <3>4, <3>6, <3>7, <3>8, <3>9 DEF TakenInv
  <2>4. CASE ~Taken(t)
    BY <1>8, <2>1, <2>2, <2>4, SameTaken DEF CallHandler, Taken
  <2>5. QED
    BY <2>3, <2>4
<1>9. ASSUME NEW t \in Threads, ReturnFromHandler(t) PROVE TakenInv'
  BY <1>9, BoundsAssumption, NoneAssumption DEF ReturnFromHandler, TypeOK,
       ThreadStates, StagesAgree, LockInv, Idle, Stage, InSnapshot, Calling,
       Flushing, Taken, TakenEntry, TakenInv, Ids, Forking, Entries
<1>10. ASSUME NEW t \in Threads, DropAtfork(t) PROVE TakenInv'
  BY <1>10, BoundsAssumption, NoneAssumption DEF DropAtfork, TypeOK, ThreadStates,
       StagesAgree, LockInv, Idle, Stage, InSnapshot, Calling, Flushing, Taken,
       TakenEntry, TakenInv, Ids, Forking, Entries
<1>11. ASSUME NEW t \in Threads, Unmap(t) PROVE TakenInv'
  BY <1>11, BoundsAssumption, NoneAssumption DEF Unmap, TypeOK, ThreadStates,
       StagesAgree, LockInv, Idle, Stage, InSnapshot, Calling, Flushing, Taken,
       TakenEntry, TakenInv, Ids, Forking, Entries
<1>12. ASSUME NEW t \in Threads, runAtforkPrepare(t) PROVE TakenInv'
  BY <1>12, BoundsAssumption, NoneAssumption DEF runAtforkPrepare, TypeOK,
       ThreadStates, StagesAgree, LockInv, Idle, Stage, InSnapshot, Calling,
       Flushing, Taken, TakenEntry, TakenInv, Ids, Forking, Entries
<1>13. ASSUME NEW t \in Threads, NextForkHandler(t) PROVE TakenInv'
  BY <1>13, BoundsAssumption, NoneAssumption DEF NextForkHandler, Remaining,
       TypeOK, ThreadStates, StagesAgree, LockInv, Idle, Stage, InSnapshot,
       Calling, Flushing, Taken, TakenEntry, TakenInv, Ids, Forking, Entries
<1>14. ASSUME NEW t \in Threads, Fork(t) PROVE TakenInv'
  BY <1>14, BoundsAssumption, NoneAssumption DEF Fork, TypeOK, ThreadStates,
       StagesAgree, LockInv, Idle, Stage, InSnapshot, Calling, Flushing, Taken,
       TakenEntry, TakenInv, Ids, Forking, Entries
<1>15. ASSUME NEW t \in Threads, EndFork(t) PROVE TakenInv'
  BY <1>15, BoundsAssumption, NoneAssumption DEF EndFork, TypeOK, ThreadStates,
       StagesAgree, LockInv, Idle, Stage, InSnapshot, Calling, Flushing, Taken,
       TakenEntry, TakenInv, Ids, Forking, Entries
<1>16. CASE UNCHANGED vars
  BY <1>16 DEF vars, TypeOK, ThreadStates, StagesAgree, LockInv, Idle, Stage,
       InSnapshot, Calling, Flushing, Taken, TakenEntry, TakenInv, Ids, Forking,
       Entries
<1>17. QED
  BY <1>1, <1>2, <1>3, <1>4, <1>5, <1>6, <1>7, <1>8, <1>9, <1>10, <1>11, <1>12,
       <1>13, <1>14, <1>15, <1>16 DEF Next, Begin, Continue, Done

\* The same of the handlers that have not run.
LEMMA SameLost ==
  ASSUME NothingLost, UNCHANGED <<QuickExit, regs, ran>>,
         \A u \in Threads : Taken(u) => Taken(u)' /\ TakenEntry(u)' = TakenEntry(u)
  PROVE  NothingLost'
BY DEF NothingLost

\* What leaves the registry goes to the thread that calls it.
LEMMA LostStep ==
  ASSUME TypeOK, StagesAgree, LockInv, TakenInv, NothingLost, [Next]_vars
  PROVE  NothingLost'
<1>1. ASSUME NEW t \in Threads, NEW o \in Owners, NEW hookOk \in BOOLEAN, addQuickExit(t, o, hookOk)
      PROVE  NothingLost'
  BY <1>1 DEF addQuickExit, RunsCodeOf, NewEntry, TypeOK, ThreadStates,
       StagesAgree, LockInv, Idle, Stage, InSnapshot, Taken, TakenEntry,
       NothingLost, Entries, Flushing
<1>2. ASSUME NEW t \in Threads, NEW o \in Owners, addAtfork(t, o) PROVE NothingLost'
  <2>1. \A u \in Threads : /\ pc'[u].at = pc[u].at /\ pc'[u].why = pc[u].why
                           /\ pc'[u].id = pc[u].id /\ pc'[u].owner = pc[u].owner
    BY <1>2, PCType DEF addAtfork, TypeOK, ThreadStates
  <2>. QED
    BY <1>2, <2>1, SameLost DEF addAtfork, Taken, TakenEntry
<1>3. ASSUME NEW t \in Threads, NEW o \in Owners, BeginTeardown(t, o) PROVE NothingLost'
  BY <1>3 DEF BeginTeardown, TypeOK, ThreadStates, StagesAgree, LockInv, Idle,
       Stage, InSnapshot, Taken, TakenEntry, NothingLost, Entries, Flushing
<1>4. ASSUME NEW t \in Threads, BeginQuickExit(t) PROVE NothingLost'
  BY <1>4 DEF BeginQuickExit, TypeOK, ThreadStates, StagesAgree, LockInv, Idle,
       Stage, InSnapshot, Taken, TakenEntry, NothingLost, Entries, Flushing
<1>5. ASSUME NEW t \in Threads, BeginFork(t) PROVE NothingLost'
  BY <1>5 DEF BeginFork, TypeOK, ThreadStates, StagesAgree, LockInv, Idle, Stage,
       InSnapshot, Taken, TakenEntry, NothingLost, Entries, Flushing
<1>6. ASSUME NEW t \in Threads, NEW hookOk \in BOOLEAN, InstallAtforkHook(t, hookOk)
      PROVE  NothingLost'
  <2>1. \A u \in Threads : /\ pc'[u].at = pc[u].at /\ pc'[u].why = pc[u].why
                           /\ pc'[u].id = pc[u].id /\ pc'[u].owner = pc[u].owner
    BY <1>6, PCType DEF InstallAtforkHook, TypeOK, ThreadStates
  <2>. QED
    BY <1>6, <2>1, SameLost DEF InstallAtforkHook, Taken, TakenEntry
<1>7. ASSUME NEW t \in Threads, takeLastQuickExit(t) PROVE NothingLost'
  <2>1. UNCHANGED <<regs, ran>> /\ ~Taken(t)
    BY <1>7 DEF takeLastQuickExit, Taken
  <2>2. ASSUME NEW e \in Candidates(t), pc' = [pc EXCEPT ![t] = Calling(e, pc[t].why, 0)],
               QuickExit' = QuickExit \ {e}
        PROVE  NothingLost'
    <3>1. e = [id |-> e.id, Owner |-> e.Owner]
      BY DEF Candidates, TypeOK, Entries
    <3>2. pc'[t] = Calling(e, pc[t].why, 0) /\ \A u \in Threads \ {t} : pc'[u] = pc[u]
      BY <2>2, PCUpdate
    <3>3. Taken(t)' /\ TakenEntry(t)' = e
      BY <1>7, <3>1, <3>2 DEF Calling, Taken, TakenEntry, StagesAgree, takeLastQuickExit
    <3>4. \A u \in Threads : Taken(u) => Taken(u)' /\ TakenEntry(u)' = TakenEntry(u)
      BY <2>1, <3>2 DEF Taken, TakenEntry
    <3>. QED
      BY <2>1, <2>2, <3>3, <3>4 DEF NothingLost
  <2>3. CASE QuickExit' = QuickExit /\ \E s \in {Stage("drop", pc[t].owner, "flush"), Idle} :
                                         pc' = [pc EXCEPT ![t] = s]
    <3>1. \A u \in Threads \ {t} : pc'[u] = pc[u]
      BY <2>3 DEF TypeOK
    <3>. QED
      BY <2>1, <2>3, <3>1, SameLost DEF Taken, TakenEntry
  <2>4. QED
    BY <1>7, <2>2, <2>3 DEF takeLastQuickExit
<1>8. ASSUME NEW t \in Threads, CallHandler(t) PROVE NothingLost'
  <2>1. /\ \A u \in Threads \ {t} : pc'[u] = pc[u]
        /\ UNCHANGED <<QuickExit, regs>>
    BY <1>8 DEF CallHandler, TypeOK
  <2>2. \A u \in Threads \ {t} : Taken(u)' = Taken(u) /\ TakenEntry(u)' = TakenEntry(u)
    BY <2>1 DEF Taken, TakenEntry
  <2>3. CASE Taken(t)
    <3>1. ran' = [ran EXCEPT ![pc[t].id] = ran[pc[t].id] + 1]
      BY <1>8, <2>3 DEF CallHandler, Taken
    <3>2. TakenEntry(t) \in regs /\ TakenEntry(t).id = pc[t].id /\ ran[pc[t].id] = 0
      BY <2>3 DEF TakenInv, TakenEntry
    <3>3. pc[t].id \in Ids
      BY <3>2 DEF TypeOK, Entries
    <3>4. ran'[pc[t].id] = 1 /\ \A i \in Ids \ {pc[t].id} : ran'[i] = ran[i]
      BY <3>1, <3>2, <3>3 DEF TypeOK
    <3>5. \A e \in regs : e.id \in Ids
      BY DEF TypeOK, Entries
    <3>. QED
      BY <2>1, <2>2, <3>2, <3>4, <3>5 DEF NothingLost
  <2>4. CASE ~Taken(t)
    <3>1. \A u \in Threads : Taken(u) => Taken(u)' /\ TakenEntry(u)' = TakenEntry(u)
      BY <2>2, <2>4
    <3>. QED
      BY <1>8, <2>1, <2>4, <3>1, SameLost DEF CallHandler, Taken
  <2>5. QED
    BY <2>3, <2>4
<1>9. ASSUME NEW t \in Threads, ReturnFromHandler(t) PROVE NothingLost'
  BY <1>9 DEF ReturnFromHandler, TypeOK, ThreadStates, StagesAgree, LockInv, Idle,
       Stage, InSnapshot, Taken, TakenEntry, NothingLost, Entries, Flushing
<1>10. ASSUME NEW t \in Threads, DropAtfork(t) PROVE NothingLost'
  BY <1>10 DEF DropAtfork, TypeOK, ThreadStates, StagesAgree, LockInv, Idle, Stage,
       InSnapshot, Taken, TakenEntry, NothingLost, Entries, Flushing
<1>11. ASSUME NEW t \in Threads, Unmap(t) PROVE NothingLost'
  BY <1>11 DEF Unmap, TypeOK, ThreadStates, StagesAgree, LockInv, Idle, Stage,
       InSnapshot, Taken, TakenEntry, NothingLost, Entries, Flushing
<1>12. ASSUME NEW t \in Threads, runAtforkPrepare(t) PROVE NothingLost'
  BY <1>12 DEF runAtforkPrepare, TypeOK, ThreadStates, StagesAgree, LockInv, Idle,
       Stage, InSnapshot, Taken, TakenEntry, NothingLost, Entries, Flushing
<1>13. ASSUME NEW t \in Threads, NextForkHandler(t) PROVE NothingLost'
  BY <1>13 DEF NextForkHandler, Remaining, TypeOK, ThreadStates, StagesAgree,
       LockInv, Idle, Stage, InSnapshot, Taken, TakenEntry, NothingLost, Entries,
       Flushing
<1>14. ASSUME NEW t \in Threads, Fork(t) PROVE NothingLost'
  BY <1>14 DEF Fork, TypeOK, ThreadStates, StagesAgree, LockInv, Idle, Stage,
       InSnapshot, Taken, TakenEntry, NothingLost, Entries, Flushing
<1>15. ASSUME NEW t \in Threads, EndFork(t) PROVE NothingLost'
  BY <1>15 DEF EndFork, TypeOK, ThreadStates, StagesAgree, LockInv, Idle, Stage,
       InSnapshot, Taken, TakenEntry, NothingLost, Entries, Flushing
<1>16. CASE UNCHANGED vars
  BY <1>16 DEF vars, TypeOK, ThreadStates, StagesAgree, LockInv, Idle, Stage,
       InSnapshot, Taken, TakenEntry, NothingLost, Entries, Flushing
<1>17. QED
  BY <1>1, <1>2, <1>3, <1>4, <1>5, <1>6, <1>7, <1>8, <1>9, <1>10, <1>11, <1>12,
       <1>13, <1>14, <1>15, <1>16 DEF Next, Begin, Continue, Done

\* quick_exit is begun once.
LEMMA ExitStep ==
  ASSUME TypeOK, StagesAgree, LockInv, OneExits, [Next]_vars
  PROVE  OneExits'
<1>1. ASSUME NEW t \in Threads, NEW o \in Owners, NEW hookOk \in BOOLEAN, addQuickExit(t, o, hookOk)
      PROVE  OneExits'
  BY <1>1 DEF addQuickExit, RunsCodeOf, NewEntry, TypeOK, ThreadStates,
       StagesAgree, LockInv, Idle, Stage, InSnapshot, Calling, OneExits, Flushing
<1>2. ASSUME NEW t \in Threads, NEW o \in Owners, addAtfork(t, o) PROVE OneExits'
  <2>1. \A u \in Threads : pc'[u].why = pc[u].why
    BY <1>2, PCType DEF addAtfork, TypeOK, ThreadStates
  <2>. QED
    BY <2>1 DEF OneExits
<1>3. ASSUME NEW t \in Threads, NEW o \in Owners, BeginTeardown(t, o) PROVE OneExits'
  BY <1>3 DEF BeginTeardown, TypeOK, ThreadStates, StagesAgree, LockInv, Idle,
       Stage, InSnapshot, Calling, OneExits, Flushing
<1>4. ASSUME NEW t \in Threads, BeginQuickExit(t) PROVE OneExits'
  BY <1>4 DEF BeginQuickExit, TypeOK, ThreadStates, StagesAgree, LockInv, Idle,
       Stage, InSnapshot, Calling, OneExits, Flushing
<1>5. ASSUME NEW t \in Threads, BeginFork(t) PROVE OneExits'
  BY <1>5 DEF BeginFork, TypeOK, ThreadStates, StagesAgree, LockInv, Idle, Stage,
       InSnapshot, Calling, OneExits, Flushing
<1>6. ASSUME NEW t \in Threads, NEW hookOk \in BOOLEAN, InstallAtforkHook(t, hookOk)
      PROVE  OneExits'
  BY <1>6 DEF InstallAtforkHook, NewEntry, TypeOK, ThreadStates, StagesAgree,
       LockInv, Idle, Stage, InSnapshot, Calling, OneExits, Flushing
<1>7. ASSUME NEW t \in Threads, takeLastQuickExit(t) PROVE OneExits'
  <2>1. \E s : pc' = [pc EXCEPT ![t] = s] /\ (s.why = "exit" => pc[t].why = "exit")
    BY <1>7 DEF takeLastQuickExit, Calling, Stage, Idle
  <2>2. \A u \in Threads : pc'[u].why = "exit" => pc[u].why = "exit"
    BY <2>1 DEF TypeOK
  <2>. QED
    BY <2>2 DEF OneExits
<1>8. ASSUME NEW t \in Threads, CallHandler(t) PROVE OneExits'
  BY <1>8 DEF CallHandler, TypeOK, ThreadStates, StagesAgree, LockInv, Idle, Stage,
       InSnapshot, Calling, OneExits, Flushing
<1>9. ASSUME NEW t \in Threads, ReturnFromHandler(t) PROVE OneExits'
  BY <1>9 DEF ReturnFromHandler, TypeOK, ThreadStates, StagesAgree, LockInv, Idle,
       Stage, InSnapshot, Calling, OneExits, Flushing
<1>10. ASSUME NEW t \in Threads, DropAtfork(t) PROVE OneExits'
  BY <1>10 DEF DropAtfork, TypeOK, ThreadStates, StagesAgree, LockInv, Idle, Stage,
       InSnapshot, Calling, OneExits, Flushing
<1>11. ASSUME NEW t \in Threads, Unmap(t) PROVE OneExits'
  BY <1>11 DEF Unmap, TypeOK, ThreadStates, StagesAgree, LockInv, Idle, Stage,
       InSnapshot, Calling, OneExits, Flushing
<1>12. ASSUME NEW t \in Threads, runAtforkPrepare(t) PROVE OneExits'
  BY <1>12 DEF runAtforkPrepare, TypeOK, ThreadStates, StagesAgree, LockInv, Idle,
       Stage, InSnapshot, Calling, OneExits, Flushing
<1>13. ASSUME NEW t \in Threads, NextForkHandler(t) PROVE OneExits'
  BY <1>13 DEF NextForkHandler, Remaining, TypeOK, ThreadStates, StagesAgree,
       LockInv, Idle, Stage, InSnapshot, Calling, OneExits, Flushing
<1>14. ASSUME NEW t \in Threads, Fork(t) PROVE OneExits'
  BY <1>14 DEF Fork, TypeOK, ThreadStates, StagesAgree, LockInv, Idle, Stage,
       InSnapshot, Calling, OneExits, Flushing
<1>15. ASSUME NEW t \in Threads, EndFork(t) PROVE OneExits'
  BY <1>15 DEF EndFork, TypeOK, ThreadStates, StagesAgree, LockInv, Idle, Stage,
       InSnapshot, Calling, OneExits, Flushing
<1>16. CASE UNCHANGED vars
  BY <1>16 DEF vars, TypeOK, ThreadStates, StagesAgree, LockInv, Idle, Stage,
       InSnapshot, Calling, OneExits, Flushing
<1>17. QED
  BY <1>1, <1>2, <1>3, <1>4, <1>5, <1>6, <1>7, <1>8, <1>9, <1>10, <1>11, <1>12,
       <1>13, <1>14, <1>15, <1>16 DEF Next, Begin, Continue, Done

-----------------------------------------------------------------------------
(* Teardowns, forks and quick_exit that do not overlap. *)

\* A step that neither begins nor ends a teardown, nor a step of one.
LEMMA SameTeardown ==
  ASSUME TeardownInv, UNCHANGED phase,
         \A u \in Threads :
           /\ Flushing(u)' = Flushing(u)
           /\ Flushing(u) => /\ pc'[u].owner = pc[u].owner
                             /\ pc'[u].at = "deinit" <=> pc[u].at = "deinit"
  PROVE  TeardownInv'
BY DEF TeardownInv

\* The thread that tears an interpreter down takes it from phase to phase.
LEMMA TeardownStep ==
  ASSUME TypeOK, StagesAgree, TeardownInv, [Next]_vars
  PROVE  TeardownInv'
<1>1. ASSUME NEW t \in Threads, NEW o \in Owners, NEW hookOk \in BOOLEAN, addQuickExit(t, o, hookOk)
      PROVE  TeardownInv'
  BY <1>1 DEF addQuickExit, RunsCodeOf, NewEntry, TypeOK, StagesAgree, Idle, Stage,
       InSnapshot, Calling, TeardownInv, Flushing, Forking
<1>2. ASSUME NEW t \in Threads, NEW o \in Owners, addAtfork(t, o) PROVE TeardownInv'
  <2>1. UNCHANGED phase /\ \A u \in Threads :
          /\ pc'[u].why = pc[u].why /\ pc'[u].owner = pc[u].owner
          /\ pc'[u].at = "deinit" <=> pc[u].at = "deinit"
    BY <1>2, PCType DEF addAtfork, TypeOK, ThreadStates
  <2>. QED
    BY <2>1, SameTeardown DEF Flushing
<1>3. ASSUME NEW t \in Threads, NEW o \in Owners, BeginTeardown(t, o) PROVE TeardownInv'
  BY <1>3 DEF BeginTeardown, TypeOK, StagesAgree, Idle, Stage, InSnapshot, Calling,
       TeardownInv, Flushing, Forking
<1>4. ASSUME NEW t \in Threads, BeginQuickExit(t) PROVE TeardownInv'
  BY <1>4 DEF BeginQuickExit, TypeOK, StagesAgree, Idle, Stage, InSnapshot,
       Calling, TeardownInv, Flushing, Forking
<1>5. ASSUME NEW t \in Threads, BeginFork(t) PROVE TeardownInv'
  BY <1>5 DEF BeginFork, TypeOK, StagesAgree, Idle, Stage, InSnapshot, Calling,
       TeardownInv, Flushing, Forking
<1>6. ASSUME NEW t \in Threads, NEW hookOk \in BOOLEAN, InstallAtforkHook(t, hookOk)
      PROVE  TeardownInv'
  <2>1. UNCHANGED phase /\ \A u \in Threads :
          /\ pc'[u].why = pc[u].why /\ pc'[u].owner = pc[u].owner
          /\ pc'[u].at = "deinit" <=> pc[u].at = "deinit"
    BY <1>6, PCType DEF InstallAtforkHook, TypeOK, ThreadStates
  <2>. QED
    BY <2>1, SameTeardown DEF Flushing
<1>7. ASSUME NEW t \in Threads, takeLastQuickExit(t) PROVE TeardownInv'
  <2>1. UNCHANGED phase /\ pc[t].at = "take"
    BY <1>7 DEF takeLastQuickExit
  <2>2. \E s : /\ pc' = [pc EXCEPT ![t] = s]
               /\ s.why = "flush" <=> Flushing(t)
               /\ Flushing(t) => s.owner = pc[t].owner /\ s.at # "deinit"
    BY <1>7 DEF takeLastQuickExit, Candidates, Calling, Stage, Idle, Flushing
  <2>3. \A u \in Threads \ {t} : pc'[u] = pc[u]
    BY <2>2 DEF TypeOK
  <2>4. /\ Flushing(t)' = Flushing(t)
        /\ Flushing(t) => pc'[t].owner = pc[t].owner /\ pc'[t].at # "deinit"
    BY <2>2 DEF TypeOK, Flushing
  <2>. QED
    BY <2>1, <2>3, <2>4, SameTeardown DEF Flushing
<1>8. ASSUME NEW t \in Threads, CallHandler(t) PROVE TeardownInv'
  <2>1. UNCHANGED phase /\ \A u \in Threads :
          /\ pc'[u].why = pc[u].why /\ pc'[u].owner = pc[u].owner
          /\ pc'[u].at = "deinit" <=> pc[u].at = "deinit"
    BY <1>8, PCType DEF CallHandler, TypeOK, ThreadStates
  <2>. QED
    BY <2>1, SameTeardown DEF Flushing
<1>9. ASSUME NEW t \in Threads, ReturnFromHandler(t) PROVE TeardownInv'
  <2>1. UNCHANGED phase /\ \A u \in Threads :
          /\ pc'[u].why = pc[u].why /\ pc'[u].owner = pc[u].owner
          /\ pc'[u].at = "deinit" <=> pc[u].at = "deinit"
    BY <1>9, PCType DEF ReturnFromHandler, TypeOK, ThreadStates
  <2>. QED
    BY <2>1, SameTeardown DEF Flushing
<1>10. ASSUME NEW t \in Threads, DropAtfork(t) PROVE TeardownInv'
  BY <1>10 DEF DropAtfork, TypeOK, StagesAgree, Idle, Stage, InSnapshot, Calling,
       TeardownInv, Flushing, Forking
<1>11. ASSUME NEW t \in Threads, Unmap(t) PROVE TeardownInv'
  BY <1>11 DEF Unmap, TypeOK, StagesAgree, Idle, Stage, InSnapshot, Calling,
       TeardownInv, Flushing, Forking
<1>12. ASSUME NEW t \in Threads, runAtforkPrepare(t) PROVE TeardownInv'
  BY <1>12 DEF runAtforkPrepare, TypeOK, StagesAgree, Idle, Stage, InSnapshot,
       Calling, TeardownInv, Flushing, Forking
<1>13. ASSUME NEW t \in Threads, NextForkHandler(t) PROVE TeardownInv'
  BY <1>13 DEF NextForkHandler, Remaining, TypeOK, StagesAgree, Idle, Stage,
       InSnapshot, Calling, TeardownInv, Flushing, Forking
<1>14. ASSUME NEW t \in Threads, Fork(t) PROVE TeardownInv'
  BY <1>14 DEF Fork, TypeOK, StagesAgree, Idle, Stage, InSnapshot, Calling,
       TeardownInv, Flushing, Forking
<1>15. ASSUME NEW t \in Threads, EndFork(t) PROVE TeardownInv'
  BY <1>15 DEF EndFork, TypeOK, StagesAgree, Idle, Stage, InSnapshot, Calling,
       TeardownInv, Flushing, Forking
<1>16. CASE UNCHANGED vars
  BY <1>16 DEF vars, TypeOK, StagesAgree, Idle, Stage, InSnapshot, Calling,
       TeardownInv, Flushing, Forking
<1>17. QED
  BY <1>1, <1>2, <1>3, <1>4, <1>5, <1>6, <1>7, <1>8, <1>9, <1>10, <1>11, <1>12,
       <1>13, <1>14, <1>15, <1>16 DEF Next, Begin, Continue, Done

\* As long as nothing overlaps, no teardown is under way besides a fork or a
\* quick_exit: an interpreter that is not gone is then up.
LEMMA UpWithoutTeardown ==
  ASSUME TypeOK, TeardownInv, ~Overlap, NEW t \in Threads,
         pc[t].why \in {"exit", "prepare", "parent"},
         NEW o \in Owners, phase[o] # "down"
  PROVE  phase[o] = "up"
BY DEF TeardownInv, Overlap, Flushing, TypeOK

\* Code of o that registers runs while o is up, or in o's own teardown.
LEMMA RegistersWhileUp ==
  ASSUME TypeOK, StagesAgree, TeardownInv, UpInv, NEW t \in Threads, NEW o \in Owners,
         RunsCodeOf(t, o)
  PROVE  \/ phase[o] = "up"
         \/ Flushing(t) /\ pc[t].owner = o /\ pc[t].at = "in" /\ phase[o] = "flush"
         \/ Flushing(t) /\ pc[t].owner = o /\ pc[t].at = "deinit" /\ phase[o] = "deinit"
BY DEF RunsCodeOf, TeardownInv, UpInv, StagesAgree

\* Every registration makes a new entry.
LEMMA NewEntryIsNew ==
  ASSUME TypeOK, TakenInv, NEW o \in Owners
  PROVE  NewEntry(o) \notin QuickExit \cup Atfork /\ NewEntry(o).Owner = o
BY DEF TakenInv, NewEntry, TypeOK, Entries, Ids

\* A step that registers nothing and moves no teardown on.
LEMMA SameDrained ==
  ASSUME DrainedInv, UNCHANGED phase, QuickExit' \subseteq QuickExit, Atfork' \subseteq Atfork,
         \A u \in Threads : pc'[u].at \in {"drop", "deinit"} =>
           pc[u].at \in {"drop", "deinit"} /\ pc'[u].owner = pc[u].owner
  PROVE  DrainedInv'
BY DEF DrainedInv

\* Once a teardown has drained the owner's entries, no new one appears.
LEMMA DrainedStep ==
  ASSUME TypeOK, StagesAgree, LockInv, TakenInv, TeardownInv, UpInv, DrainedInv,
         ~LateEntry, [Next]_vars
  PROVE  DrainedInv'
<1>1. ASSUME NEW t \in Threads, NEW o \in Owners, NEW hookOk \in BOOLEAN, addQuickExit(t, o, hookOk)
      PROVE  DrainedInv'
  <2>1. UNCHANGED phase /\ \A u \in Threads :
          pc'[u].at = pc[u].at /\ pc'[u].owner = pc[u].owner
    BY <1>1, PCType DEF addQuickExit, TypeOK, ThreadStates
  <2>2. CASE UNCHANGED <<QuickExit, Atfork>>
    BY <2>1, <2>2, SameDrained
  <2>3. CASE QuickExit' = QuickExit \cup {NewEntry(o)} /\ UNCHANGED Atfork
    <3>1. NewEntry(o) \notin QuickExit \cup Atfork /\ NewEntry(o).Owner = o
      BY NewEntryIsNew
    <3>2. phase[o] # "deinit"
      BY <2>3, <3>1 DEF LateEntry
    <3>3. \/ phase[o] = "up"
          \/ Flushing(t) /\ pc[t].owner = o /\ pc[t].at = "in" /\ phase[o] = "flush"
      <4>1. RunsCodeOf(t, o)
        BY <1>1 DEF addQuickExit
      <4>. QED
        BY <3>2, <4>1, RegistersWhileUp
    <3>4. \A u \in Threads : pc[u].at \in {"drop", "deinit"} => pc[u].owner # o
      BY <3>3 DEF StagesAgree, TeardownInv
    <3>. QED
      BY <2>1, <2>3, <3>1, <3>3, <3>4 DEF DrainedInv
  <2>4. QED
    BY <1>1, <2>2, <2>3 DEF addQuickExit
<1>2. ASSUME NEW t \in Threads, NEW o \in Owners, addAtfork(t, o) PROVE DrainedInv'
  <2>1. UNCHANGED phase /\ \A u \in Threads :
          pc'[u].at = pc[u].at /\ pc'[u].owner = pc[u].owner
    BY <1>2, PCType DEF addAtfork, TypeOK, ThreadStates
  <2>2. CASE UNCHANGED <<QuickExit, Atfork>>
    BY <2>1, <2>2, SameDrained
  <2>3. CASE Atfork' = Atfork \cup {NewEntry(o)} /\ UNCHANGED QuickExit
    <3>1. NewEntry(o) \notin QuickExit \cup Atfork /\ NewEntry(o).Owner = o
      BY NewEntryIsNew
    <3>2. phase[o] # "deinit"
      BY <2>3, <3>1 DEF LateEntry
    <3>3. \/ phase[o] = "up"
          \/ Flushing(t) /\ pc[t].owner = o /\ pc[t].at = "in" /\ phase[o] = "flush"
      <4>1. RunsCodeOf(t, o)
        BY <1>2 DEF addAtfork
      <4>. QED
        BY <3>2, <4>1, RegistersWhileUp
    <3>4. \A u \in Threads : pc[u].at \in {"drop", "deinit"} => pc[u].owner # o
      BY <3>3 DEF StagesAgree, TeardownInv
    <3>. QED
      BY <2>1, <2>3, <3>1, <3>3, <3>4 DEF DrainedInv
  <2>4. QED
    BY <1>2, <2>2, <2>3 DEF addAtfork
<1>3. ASSUME NEW t \in Threads, NEW o \in Owners, BeginTeardown(t, o) PROVE DrainedInv'
  <2>1. UNCHANGED <<QuickExit, Atfork>> /\ phase' = [phase EXCEPT ![o] = "flush"]
    BY <1>3 DEF BeginTeardown
  <2>2. pc'[t].at = "take" /\ \A u \in Threads \ {t} : pc'[u] = pc[u]
    BY <1>3 DEF BeginTeardown, Stage, TypeOK
  <2>3. \A e \in QuickExit \cup Atfork : e.Owner \in Owners
    BY DEF TypeOK, Entries
  <2>. QED
    BY <2>1, <2>2, <2>3 DEF DrainedInv, TypeOK
<1>4. ASSUME NEW t \in Threads, BeginQuickExit(t) PROVE DrainedInv'
  BY <1>4 DEF BeginQuickExit, TypeOK, Idle, Stage, InSnapshot, Calling, DrainedInv
<1>5. ASSUME NEW t \in Threads, BeginFork(t) PROVE DrainedInv'
  BY <1>5 DEF BeginFork, TypeOK, Idle, Stage, InSnapshot, Calling, DrainedInv
<1>6. ASSUME NEW t \in Threads, NEW hookOk \in BOOLEAN, InstallAtforkHook(t, hookOk)
      PROVE  DrainedInv'
  <2>1. UNCHANGED phase /\ \A u \in Threads :
          pc'[u].at = pc[u].at /\ pc'[u].owner = pc[u].owner
    BY <1>6, PCType DEF InstallAtforkHook, TypeOK, ThreadStates
  <2>2. CASE UNCHANGED <<QuickExit, Atfork>>
    BY <2>1, <2>2, SameDrained
  <2>3. CASE Atfork' = Atfork \cup {NewEntry(pc[t].installing)} /\ UNCHANGED QuickExit
    <3> DEFINE o == pc[t].installing
    <3>1. o \in Owners /\ o # None
      BY <1>6, PCType DEF InstallAtforkHook, ThreadStates
    <3>2. NewEntry(o) \notin QuickExit \cup Atfork /\ NewEntry(o).Owner = o
      BY <3>1, NewEntryIsNew
    <3>3. phase[o] # "deinit"
      BY <2>3, <3>1, <3>2 DEF LateEntry
    <3>4. phase[o] \in {"up", "flush"}
      BY <3>1, <3>3 DEF UpInv, TeardownInv, StagesAgree
    <3>. QED
      BY <2>1, <2>3, <3>2, <3>4 DEF DrainedInv
  <2>4. QED
    BY <1>6, <2>2, <2>3 DEF InstallAtforkHook
<1>7. ASSUME NEW t \in Threads, takeLastQuickExit(t) PROVE DrainedInv'
  <2>1. UNCHANGED <<phase, Atfork>> /\ QuickExit' \subseteq QuickExit
    BY <1>7 DEF takeLastQuickExit
  <2>2. \E s : /\ pc' = [pc EXCEPT ![t] = s]
               /\ s.at # "deinit"
               /\ s.at = "drop" => s.owner = pc[t].owner /\ Flushing(t) /\ Candidates(t) = {}
    BY <1>7 DEF takeLastQuickExit, Calling, Stage, Idle, Flushing
  <2>3. \A u \in Threads \ {t} : pc'[u] = pc[u]
    BY <2>2 DEF TypeOK
  <2>4. /\ pc'[t].at # "deinit"
        /\ pc'[t].at = "drop" => \A e \in QuickExit : e.Owner # pc'[t].owner
    BY <2>2 DEF TypeOK, Flushing, Candidates
  <2>. QED
    BY <2>1, <2>3, <2>4 DEF DrainedInv
<1>8. ASSUME NEW t \in Threads, CallHandler(t) PROVE DrainedInv'
  <2>1. /\ UNCHANGED <<phase, QuickExit, Atfork>>
        /\ \A u \in Threads :
             /\ pc'[u].at \in {"drop", "deinit"} => pc[u].at \in {"drop", "deinit"}
             /\ pc'[u].owner = pc[u].owner
    BY <1>8, PCType DEF CallHandler, TypeOK, ThreadStates
  <2>. QED
    BY <2>1, SameDrained
<1>9. ASSUME NEW t \in Threads, ReturnFromHandler(t) PROVE DrainedInv'
  <2>1. /\ UNCHANGED <<phase, QuickExit, Atfork>>
        /\ \A u \in Threads :
             /\ pc'[u].at \in {"drop", "deinit"} => pc[u].at \in {"drop", "deinit"}
             /\ pc'[u].owner = pc[u].owner
    BY <1>9, PCType DEF ReturnFromHandler, TypeOK, ThreadStates
  <2>. QED
    BY <2>1, SameDrained
<1>10. ASSUME NEW t \in Threads, DropAtfork(t) PROVE DrainedInv'
  <2>1. /\ UNCHANGED QuickExit /\ Atfork' = {e \in Atfork : e.Owner # pc[t].owner}
        /\ phase' = [phase EXCEPT ![pc[t].owner] = "deinit"] /\ pc[t].at = "drop"
    BY <1>10 DEF DropAtfork
  <2>2. pc'[t].owner = pc[t].owner /\ \A u \in Threads \ {t} : pc'[u] = pc[u]
    BY <1>10 DEF DropAtfork, Stage, TypeOK
  <2>3. \A e \in QuickExit : e.Owner # pc[t].owner
    BY <2>1 DEF DrainedInv
  <2>4. \A e \in QuickExit \cup Atfork : e.Owner \in Owners
    BY DEF TypeOK, Entries
  <2>5. \A e \in QuickExit' \cup Atfork' : phase'[e.Owner] = phase[e.Owner]
    BY <2>1, <2>3, <2>4 DEF TypeOK
  <2>. QED
    BY <2>1, <2>2, <2>3, <2>5 DEF DrainedInv
<1>11. ASSUME NEW t \in Threads, Unmap(t) PROVE DrainedInv'
  <2>1. UNCHANGED <<QuickExit, Atfork>> /\ phase[pc[t].owner] = "deinit" /\ Flushing(t)
    BY <1>11 DEF Unmap, TeardownInv, StagesAgree
  <2>2. \A e \in QuickExit \cup Atfork : e.Owner \in Owners /\ e.Owner # pc[t].owner
    BY <2>1 DEF DrainedInv, TypeOK, Entries
  <2>3. \A e \in QuickExit \cup Atfork : phase'[e.Owner] = phase[e.Owner]
    BY <1>11, <2>2 DEF Unmap, TypeOK
  <2>4. pc'[t].at = "idle" /\ \A u \in Threads \ {t} : pc'[u] = pc[u]
    BY <1>11 DEF Unmap, Idle, Stage, TypeOK
  <2>. QED
    BY <2>1, <2>3, <2>4 DEF DrainedInv
<1>12. ASSUME NEW t \in Threads, runAtforkPrepare(t) PROVE DrainedInv'
  BY <1>12 DEF runAtforkPrepare, TypeOK, Idle, Stage, InSnapshot, Calling,
       DrainedInv
<1>13. ASSUME NEW t \in Threads, NextForkHandler(t) PROVE DrainedInv'
  BY <1>13 DEF NextForkHandler, Remaining, TypeOK, Idle, Stage, InSnapshot,
       Calling, DrainedInv
<1>14. ASSUME NEW t \in Threads, Fork(t) PROVE DrainedInv'
  BY <1>14 DEF Fork, TypeOK, Idle, Stage, InSnapshot, Calling, DrainedInv
<1>15. ASSUME NEW t \in Threads, EndFork(t) PROVE DrainedInv'
  BY <1>15 DEF EndFork, TypeOK, Idle, Stage, InSnapshot, Calling, DrainedInv
<1>16. CASE UNCHANGED vars
  BY <1>16 DEF vars, TypeOK, Idle, Stage, InSnapshot, Calling, DrainedInv
<1>17. QED
  BY <1>1, <1>2, <1>3, <1>4, <1>5, <1>6, <1>7, <1>8, <1>9, <1>10, <1>11, <1>12,
       <1>13, <1>14, <1>15, <1>16 DEF Next, Begin, Continue, Done

\* A step that registers nothing, calls nothing and moves no teardown on.
LEMMA SameUp ==
  ASSUME UpInv, UNCHANGED <<phase, ForkSnapshot>>,
         \A u \in Threads :
           /\ pc'[u].installing # None =>
                /\ pc'[u].installing = pc[u].installing /\ pc'[u].at = pc[u].at
                /\ pc'[u].owner = pc[u].owner
           /\ pc'[u].at \in {"call", "in"} /\ ~Flushing(u)' =>
                pc[u].at \in {"call", "in"} /\ ~Flushing(u) /\ pc'[u].owner = pc[u].owner
           /\ Forking(u)' /\ pc'[u].at # "snapshot" => Forking(u) /\ pc[u].at # "snapshot"
  PROVE  UpInv'
BY DEF UpInv

\* A step of a teardown that sets its interpreter's phase, which nobody then uses.
LEMMA PhaseStepUp ==
  ASSUME TypeOK, StagesAgree, UpInv, ~Overlap, ~Overlap', UNCHANGED ForkSnapshot,
         NEW t \in Threads, NEW s, NEW o \in Owners, NEW ph,
         phase' = [phase EXCEPT ![o] = ph], pc' = [pc EXCEPT ![t] = s],
         s.installing = None, s.at \in {"take", "deinit", "idle"},
         s.at # "idle" => s.why = "flush", s.at = "idle" => s.why = "idle" /\ Flushing(t),
         \A u \in Threads \ {t} : pc[u].at = "idle" /\ pc[u].installing # None =>
                                    pc[u].installing # o
  PROVE  UpInv'
<1>1. pc'[t] = s /\ \A u \in Threads \ {t} : pc'[u] = pc[u]
  BY DEF TypeOK
<1>2. \A u \in Threads \ {t} : pc[u].why \notin {"exit", "prepare", "parent"}
  BY <1>1 DEF Overlap, Flushing
<1>3. \A u \in Threads : pc'[u].at \in {"call", "in"} => Flushing(u)'
  <2>1. \A u \in Threads \ {t} : pc[u].at \in {"call", "in"} => Flushing(u)
    BY <1>2, PCType DEF StagesAgree, Flushing, ThreadStates
  <2>. QED
    BY <1>1, <2>1 DEF Flushing
<1>4. \A u \in Threads : ~Forking(u)'
  BY <1>1, <1>2 DEF Forking
<1>5. \A u \in Threads : pc'[u].installing # None =>
        \/ pc'[u].at = "idle" /\ phase'[pc'[u].installing] = "up"
        \/ pc'[u].at \in {"in", "deinit"} /\ pc'[u].installing = pc'[u].owner
  <2>1. SUFFICES ASSUME NEW u \in Threads, pc'[u].installing # None
                 PROVE  \/ pc'[u].at = "idle" /\ phase'[pc'[u].installing] = "up"
                        \/ pc'[u].at \in {"in", "deinit"} /\ pc'[u].installing = pc'[u].owner
    OBVIOUS
  <2>2. u # t /\ pc'[u] = pc[u] /\ pc[u].installing \in Owners
    BY <1>1, <2>1, PCType DEF ThreadStates
  <2>. QED
    BY <2>1, <2>2 DEF UpInv, TypeOK
<1>. QED
  BY <1>3, <1>4, <1>5 DEF UpInv

\* A handler called outside a teardown, or held in a snapshot, keeps its code.
LEMMA UpStep ==
  ASSUME TypeOK, StagesAgree, LockInv, TeardownInv, DrainedInv, UpInv,
         ~Overlap, ~Overlap', [Next]_vars
  PROVE  UpInv'
<1>1. ASSUME NEW t \in Threads, NEW o \in Owners, NEW hookOk \in BOOLEAN, addQuickExit(t, o, hookOk)
      PROVE  UpInv'
  BY <1>1 DEF addQuickExit, RunsCodeOf, NewEntry, TypeOK, StagesAgree, LockInv,
       Idle, Stage, InSnapshot, Calling, UpInv, Flushing, Forking
<1>2. ASSUME NEW t \in Threads, NEW o \in Owners, addAtfork(t, o) PROVE UpInv'
  <2>1. UNCHANGED <<phase, ForkSnapshot>>
    BY <1>2 DEF addAtfork
  <2>2. CASE UNCHANGED pc
    BY <2>1, <2>2, SameUp DEF Forking, Flushing
  <2>3. CASE pc' = [pc EXCEPT ![t].installing = o]
    <3>1. /\ \A u \in Threads : pc'[u].at = pc[u].at /\ pc'[u].owner = pc[u].owner /\ pc'[u].why = pc[u].why
          /\ pc'[t].installing = o /\ \A u \in Threads \ {t} : pc'[u].installing = pc[u].installing
      BY <2>3, PCType DEF TypeOK, ThreadStates
    <3>2. RunsCodeOf(t, o)
      BY <1>2 DEF addAtfork
    <3>. QED
      BY <2>1, <3>1, <3>2 DEF UpInv, RunsCodeOf, Forking, Flushing
  <2>4. QED
    BY <1>2, <2>2, <2>3 DEF addAtfork
<1>3. ASSUME NEW t \in Threads, NEW o \in Owners, BeginTeardown(t, o) PROVE UpInv'
  <2>1. \A u \in Threads \ {t} : pc[u].installing # o
    BY <1>3 DEF BeginTeardown
  <2>3. /\ UNCHANGED ForkSnapshot /\ pc' = [pc EXCEPT ![t] = Stage("take", o, "flush")]
        /\ phase' = [phase EXCEPT ![o] = "flush"]
    BY <1>3 DEF BeginTeardown
  <2>4. /\ Stage("take", o, "flush").installing = None
        /\ Stage("take", o, "flush").at = "take"
        /\ Stage("take", o, "flush").why = "flush"
    BY DEF Stage
  <2>5. \A u \in Threads \ {t} : pc[u].at = "idle" /\ pc[u].installing # None =>
                                   pc[u].installing # o
    BY <2>1
  <2>. QED
    BY <2>3, <2>4, <2>5, PhaseStepUp
<1>4. ASSUME NEW t \in Threads, BeginQuickExit(t) PROVE UpInv'
  BY <1>4 DEF BeginQuickExit, TypeOK, StagesAgree, LockInv, Idle, Stage,
       InSnapshot, Calling, UpInv, Flushing, Forking
<1>5. ASSUME NEW t \in Threads, BeginFork(t) PROVE UpInv'
  BY <1>5 DEF BeginFork, TypeOK, StagesAgree, LockInv, Idle, Stage, InSnapshot,
       Calling, UpInv, Flushing, Forking
<1>6. ASSUME NEW t \in Threads, NEW hookOk \in BOOLEAN, InstallAtforkHook(t, hookOk)
      PROVE  UpInv'
  <2>1. UNCHANGED <<phase, ForkSnapshot>> /\ \A u \in Threads :
          /\ pc'[u].at = pc[u].at /\ pc'[u].owner = pc[u].owner /\ pc'[u].why = pc[u].why
          /\ pc'[u].installing # None => pc'[u].installing = pc[u].installing
    BY <1>6, PCType DEF InstallAtforkHook, TypeOK, ThreadStates
  <2>. QED
    BY <2>1, SameUp DEF Forking, Flushing
<1>7. ASSUME NEW t \in Threads, takeLastQuickExit(t) PROVE UpInv'
  <2>1. UNCHANGED <<phase, ForkSnapshot>> /\ pc[t].why \in {"flush", "exit"}
    BY <1>7 DEF takeLastQuickExit, StagesAgree
  <2>2. \E s : /\ pc' = [pc EXCEPT ![t] = s]
               /\ s.installing = None /\ s.why \notin {"prepare", "parent"}
               /\ s.at \in {"call", "in"} /\ s.why # "flush" =>
                    pc[t].why = "exit" /\ \E e \in QuickExit : s.owner = e.Owner
    <3>1. CASE \E e \in Candidates(t) : pc' = [pc EXCEPT ![t] = Calling(e, pc[t].why, 0)]
      BY <2>1, <3>1 DEF Candidates, Calling
    <3>2. ASSUME NEW s \in {Stage("drop", pc[t].owner, "flush"), Idle}, pc' = [pc EXCEPT ![t] = s]
          PROVE  \E r : /\ pc' = [pc EXCEPT ![t] = r]
                        /\ r.installing = None /\ r.why \notin {"prepare", "parent"}
                        /\ r.at \notin {"call", "in"}
      <4>1. s.installing = None /\ s.at \in {"drop", "idle"} /\ s.why \in {"flush", "idle"}
        BY DEF Stage, Idle
      <4>. QED
        BY <3>2, <4>1
    <3>. QED
      BY <1>7, <3>1, <3>2 DEF takeLastQuickExit
  <2>3. \A u \in Threads \ {t} : pc'[u] = pc[u]
    BY <2>2 DEF TypeOK
  <2>4. /\ pc'[t].installing = None /\ ~Forking(t)'
        /\ pc'[t].at \in {"call", "in"} /\ ~Flushing(t)' =>
             pc[t].why = "exit" /\ \E e \in QuickExit : pc'[t].owner = e.Owner
    BY <2>2 DEF TypeOK, Forking, Flushing
  <2>5. \A e \in QuickExit : e.Owner \in Owners /\ phase[e.Owner] # "down"
    BY DEF DrainedInv, TypeOK, Entries
  <2>6. pc'[t].at \in {"call", "in"} /\ ~Flushing(t)' => phase[pc'[t].owner] = "up"
    BY <2>4, <2>5, UpWithoutTeardown
  <2>. QED
    BY <2>1, <2>3, <2>4, <2>6 DEF UpInv, Forking, Flushing
<1>8. ASSUME NEW t \in Threads, CallHandler(t) PROVE UpInv'
  <2>1. /\ UNCHANGED <<phase, ForkSnapshot>>
        /\ \A u \in Threads :
             /\ pc'[u].at \in {"call", "in"} => pc[u].at \in {"call", "in"}
             /\ pc'[u].installing # None => pc'[u].at = pc[u].at
             /\ pc[u].at = "snapshot" => pc'[u].at = "snapshot"
             /\ pc'[u].owner = pc[u].owner /\ pc'[u].why = pc[u].why
             /\ pc'[u].installing = pc[u].installing
    BY <1>8, PCType DEF CallHandler, TypeOK, ThreadStates, LockInv
  <2>. QED
    BY <2>1, SameUp DEF Forking, Flushing
<1>9. ASSUME NEW t \in Threads, ReturnFromHandler(t) PROVE UpInv'
  <2>1. /\ UNCHANGED <<phase, ForkSnapshot>>
        /\ \A u \in Threads :
             /\ pc'[u].at \in {"call", "in"} => pc[u].at \in {"call", "in"}
             /\ pc'[u].installing # None => pc'[u].at = pc[u].at
             /\ pc[u].at = "snapshot" => pc'[u].at = "snapshot"
             /\ pc'[u].owner = pc[u].owner /\ pc'[u].why = pc[u].why
             /\ pc'[u].installing = pc[u].installing
    BY <1>9, PCType DEF ReturnFromHandler, TypeOK, ThreadStates, LockInv
  <2>. QED
    BY <2>1, SameUp DEF Forking, Flushing
<1>10. ASSUME NEW t \in Threads, DropAtfork(t) PROVE UpInv'
  <2>1. Flushing(t) /\ pc[t].owner \in Owners /\ phase[pc[t].owner] = "flush"
    BY <1>10 DEF DropAtfork, StagesAgree, TeardownInv
  <2>2. \A u \in Threads \ {t} : pc[u].at = "idle" /\ pc[u].installing # None =>
                                   pc[u].installing # pc[t].owner
    BY <2>1 DEF UpInv
  <2>3. /\ UNCHANGED ForkSnapshot /\ pc' = [pc EXCEPT ![t] = Stage("deinit", pc[t].owner, "flush")]
        /\ phase' = [phase EXCEPT ![pc[t].owner] = "deinit"]
    BY <1>10 DEF DropAtfork
  <2>4. /\ Stage("deinit", pc[t].owner, "flush").installing = None
        /\ Stage("deinit", pc[t].owner, "flush").at = "deinit"
        /\ Stage("deinit", pc[t].owner, "flush").why = "flush"
    BY DEF Stage
  <2>. QED
    BY <2>1, <2>2, <2>3, <2>4, PhaseStepUp
<1>11. ASSUME NEW t \in Threads, Unmap(t) PROVE UpInv'
  <2>1. Flushing(t) /\ pc[t].owner \in Owners /\ phase[pc[t].owner] = "deinit"
    BY <1>11 DEF Unmap, StagesAgree, TeardownInv
  <2>2. \A u \in Threads \ {t} : pc[u].at = "idle" /\ pc[u].installing # None =>
                                   pc[u].installing # pc[t].owner
    BY <2>1 DEF UpInv
  <2>3. /\ UNCHANGED ForkSnapshot /\ pc' = [pc EXCEPT ![t] = Idle]
        /\ phase' = [phase EXCEPT ![pc[t].owner] = "down"]
    BY <1>11 DEF Unmap
  <2>4. Idle.installing = None /\ Idle.at = "idle" /\ Idle.why = "idle"
    BY DEF Idle, Stage
  <2>. QED
    BY <2>1, <2>2, <2>3, <2>4, PhaseStepUp
<1>12. ASSUME NEW t \in Threads, runAtforkPrepare(t) PROVE UpInv'
  <2>1. UNCHANGED phase /\ ForkSnapshot' = Atfork /\ pc[t].why = "prepare"
    BY <1>12 DEF runAtforkPrepare, StagesAgree
  <2>2. pc'[t].at = "fork" /\ pc'[t].installing = None /\ \A u \in Threads \ {t} : pc'[u] = pc[u]
    BY <1>12 DEF runAtforkPrepare, InSnapshot, TypeOK
  <2>3. \A e \in Atfork : e.Owner \in Owners /\ phase[e.Owner] # "down"
    BY DEF DrainedInv, TypeOK, Entries
  <2>4. \A e \in Atfork : phase[e.Owner] = "up"
    BY <2>1, <2>3, UpWithoutTeardown
  <2>. QED
    BY <2>1, <2>2, <2>4 DEF UpInv, Flushing
<1>13. ASSUME NEW t \in Threads, NextForkHandler(t) PROVE UpInv'
  <2>1. UNCHANGED <<phase, ForkSnapshot>> /\ Forking(t) /\ pc[t].at # "snapshot"
    BY <1>13 DEF NextForkHandler, StagesAgree
  <2>2. /\ \A u \in Threads \ {t} : pc'[u] = pc[u]
        /\ pc'[t].installing = None
        /\ \E e \in ForkSnapshot : pc'[t].owner = e.Owner
    BY <1>13 DEF NextForkHandler, Remaining, Calling, TypeOK
  <2>. QED
    BY <2>1, <2>2 DEF UpInv, Flushing
<1>14. ASSUME NEW t \in Threads, Fork(t) PROVE UpInv'
  BY <1>14 DEF Fork, TypeOK, StagesAgree, LockInv, Idle, Stage, InSnapshot,
       Calling, UpInv, Flushing, Forking
<1>15. ASSUME NEW t \in Threads, EndFork(t) PROVE UpInv'
  BY <1>15 DEF EndFork, TypeOK, StagesAgree, LockInv, Idle, Stage, InSnapshot,
       Calling, UpInv, Flushing, Forking
<1>16. CASE UNCHANGED vars
  BY <1>16 DEF vars, TypeOK, StagesAgree, LockInv, Idle, Stage, InSnapshot,
       Calling, UpInv, Flushing, Forking
<1>17. QED
  BY <1>1, <1>2, <1>3, <1>4, <1>5, <1>6, <1>7, <1>8, <1>9, <1>10, <1>11, <1>12,
       <1>13, <1>14, <1>15, <1>16 DEF Next, Begin, Continue, Done

\* So no handler is called whose code is gone.
LEMMA WildStep ==
  ASSUME TypeOK, StagesAgree, TeardownInv, UpInv, ~wildCall, [Next]_vars
  PROVE  (~wildCall)'
<1>1. ASSUME NEW t \in Threads, NEW o \in Owners, NEW hookOk \in BOOLEAN, addQuickExit(t, o, hookOk)
      PROVE  (~wildCall)'
  BY <1>1 DEF addQuickExit, RunsCodeOf, NewEntry, UpInv
<1>2. ASSUME NEW t \in Threads, NEW o \in Owners, addAtfork(t, o) PROVE (~wildCall)'
  BY <1>2 DEF addAtfork, RunsCodeOf, UpInv
<1>3. ASSUME NEW t \in Threads, NEW o \in Owners, BeginTeardown(t, o) PROVE (~wildCall)'
  BY <1>3 DEF BeginTeardown, UpInv
<1>4. ASSUME NEW t \in Threads, BeginQuickExit(t) PROVE (~wildCall)'
  BY <1>4 DEF BeginQuickExit, UpInv
<1>5. ASSUME NEW t \in Threads, BeginFork(t) PROVE (~wildCall)'
  BY <1>5 DEF BeginFork, UpInv
<1>6. ASSUME NEW t \in Threads, NEW hookOk \in BOOLEAN, InstallAtforkHook(t, hookOk)
      PROVE  (~wildCall)'
  BY <1>6 DEF InstallAtforkHook, NewEntry, UpInv
<1>7. ASSUME NEW t \in Threads, takeLastQuickExit(t) PROVE (~wildCall)'
  BY <1>7 DEF takeLastQuickExit, Candidates, UpInv
<1>8. ASSUME NEW t \in Threads, CallHandler(t) PROVE (~wildCall)'
  <2>1. wildCall' = (wildCall \/ phase[pc[t].owner] = "down") /\ pc[t].at = "call"
    BY <1>8 DEF CallHandler
  <2>. QED
    BY <2>1 DEF TeardownInv, UpInv, Flushing
<1>9. ASSUME NEW t \in Threads, ReturnFromHandler(t) PROVE (~wildCall)'
  BY <1>9 DEF ReturnFromHandler, UpInv
<1>10. ASSUME NEW t \in Threads, DropAtfork(t) PROVE (~wildCall)'
  BY <1>10 DEF DropAtfork, UpInv
<1>11. ASSUME NEW t \in Threads, Unmap(t) PROVE (~wildCall)'
  BY <1>11 DEF Unmap, UpInv
<1>12. ASSUME NEW t \in Threads, runAtforkPrepare(t) PROVE (~wildCall)'
  BY <1>12 DEF runAtforkPrepare, UpInv
<1>13. ASSUME NEW t \in Threads, NextForkHandler(t) PROVE (~wildCall)'
  BY <1>13 DEF NextForkHandler, Remaining, UpInv
<1>14. ASSUME NEW t \in Threads, Fork(t) PROVE (~wildCall)'
  <2>1. /\ wildCall' = (wildCall \/ \E e \in ForkSnapshot : phase[e.Owner] = "down")
        /\ pc[t].at = "fork" /\ Forking(t)
    BY <1>14 DEF Fork, Forking
  <2>. QED
    BY <2>1 DEF UpInv
<1>15. ASSUME NEW t \in Threads, EndFork(t) PROVE (~wildCall)'
  BY <1>15 DEF EndFork, UpInv
<1>16. CASE UNCHANGED vars
  BY <1>16 DEF vars, UpInv
<1>17. QED
  BY <1>1, <1>2, <1>3, <1>4, <1>5, <1>6, <1>7, <1>8, <1>9, <1>10, <1>11, <1>12,
       <1>13, <1>14, <1>15, <1>16 DEF Next, Begin, Continue, Done

\* Without a registration, and without an interpreter or the process coming to
\* its end, a handler that had to have run has run.
LEMMA SameOnce ==
  ASSUME TypeOK, Once, UNCHANGED <<regs, exited>>,
         \A o \in Owners : phase'[o] = "down" => phase[o] = "down",
         \A i \in Ids : ran[i] = 1 => ran'[i] = 1
  PROVE  Once'
BY DEF Once, TypeOK, Entries

\* And none is left out when an interpreter, or the process, comes to its end.
LEMMA OnceStep ==
  ASSUME TypeOK, StagesAgree, TakenInv, NothingLost, OneExits, TeardownInv, DrainedInv,
         UpInv, ~Overlap, Once, [Next]_vars
  PROVE  Once'
<1>1. ASSUME NEW t \in Threads, NEW o \in Owners, NEW hookOk \in BOOLEAN, addQuickExit(t, o, hookOk)
      PROVE  Once'
  <2>1. UNCHANGED <<exited, phase, ran>> /\ ~exited /\ regs' \subseteq regs \cup {NewEntry(o)}
    BY <1>1 DEF addQuickExit, RunsCodeOf
  <2>2. NewEntry(o).Owner = o
    BY DEF NewEntry
  <2>3. RunsCodeOf(t, o)
    BY <1>1 DEF addQuickExit
  <2>4. phase[o] # "down"
    BY <2>3, RegistersWhileUp
  <2>. QED
    BY <2>1, <2>2, <2>4 DEF Once
<1>2. ASSUME NEW t \in Threads, NEW o \in Owners, addAtfork(t, o) PROVE Once'
  BY <1>2 DEF addAtfork, RunsCodeOf, Once
<1>3. ASSUME NEW t \in Threads, NEW o \in Owners, BeginTeardown(t, o) PROVE Once'
  <2>1. UNCHANGED <<regs, exited, ran>> /\ phase' = [phase EXCEPT ![o] = "flush"]
    BY <1>3 DEF BeginTeardown
  <2>. QED
    BY <2>1, SameOnce DEF TypeOK
<1>4. ASSUME NEW t \in Threads, BeginQuickExit(t) PROVE Once'
  BY <1>4 DEF BeginQuickExit, Once
<1>5. ASSUME NEW t \in Threads, BeginFork(t) PROVE Once'
  BY <1>5 DEF BeginFork, Once
<1>6. ASSUME NEW t \in Threads, NEW hookOk \in BOOLEAN, InstallAtforkHook(t, hookOk)
      PROVE  Once'
  BY <1>6 DEF InstallAtforkHook, NewEntry, Once
<1>7. ASSUME NEW t \in Threads, takeLastQuickExit(t) PROVE Once'
  <2>1. UNCHANGED <<regs, phase, ran>> /\ pc[t].at = "take" /\ ~exited
    BY <1>7 DEF takeLastQuickExit
  <2>2. CASE UNCHANGED exited
    BY <2>1, <2>2, SameOnce
  <2>3. CASE pc[t].why = "exit" /\ Candidates(t) = {}
    <3>1. QuickExit = {}
      BY <2>3 DEF Candidates
    <3>2. \A u \in Threads : ~Taken(u)
      BY <2>1, <2>3 DEF OneExits, Overlap, Taken
    <3>. QED
      BY <2>1, <3>1, <3>2 DEF NothingLost, Once
  <2>4. QED
    BY <1>7, <2>1, <2>2, <2>3 DEF takeLastQuickExit, TypeOK
<1>8. ASSUME NEW t \in Threads, CallHandler(t) PROVE Once'
  <2>1. UNCHANGED <<regs, exited, phase>>
    BY <1>8 DEF CallHandler
  <2>2. \A i \in Ids : ran[i] = 1 => ran'[i] = 1
    BY <1>8 DEF CallHandler, TakenInv, Taken, TypeOK
  <2>. QED
    BY <2>1, <2>2, SameOnce
<1>9. ASSUME NEW t \in Threads, ReturnFromHandler(t) PROVE Once'
  BY <1>9 DEF ReturnFromHandler, Once
<1>10. ASSUME NEW t \in Threads, DropAtfork(t) PROVE Once'
  <2>1. UNCHANGED <<regs, exited, ran>> /\ phase' = [phase EXCEPT ![pc[t].owner] = "deinit"]
    BY <1>10 DEF DropAtfork
  <2>. QED
    BY <2>1, SameOnce DEF TypeOK
<1>11. ASSUME NEW t \in Threads, Unmap(t) PROVE Once'
  <2>1. UNCHANGED <<regs, exited, ran>> /\ phase' = [phase EXCEPT ![pc[t].owner] = "down"]
    BY <1>11 DEF Unmap
  <2>2. pc[t].at = "deinit" /\ Flushing(t) /\ ~exited
    BY <1>11 DEF Unmap, StagesAgree
  <2>3. \A e \in regs : e.Owner = pc[t].owner => ran[e.id] = 1
    <3>1. SUFFICES ASSUME NEW e \in regs, e.Owner = pc[t].owner, ran[e.id] # 1
                   PROVE  FALSE
      OBVIOUS
    <3>2. e \notin QuickExit
      BY <2>2, <3>1 DEF DrainedInv
    <3>3. PICK u \in Threads : Taken(u) /\ TakenEntry(u) = e
      BY <3>1, <3>2 DEF NothingLost
    <3>4. pc[u].owner = pc[t].owner /\ pc[u].at = "call"
      BY <3>1, <3>3 DEF Taken, TakenEntry
    <3>5. Flushing(u)
      BY <2>2, <3>3 DEF Taken, Overlap, Flushing
    <3>. QED
      BY <2>2, <3>4, <3>5 DEF TeardownInv
  <2>4. \A e \in regs : phase'[e.Owner] = "down" =>
          phase[e.Owner] = "down" \/ e.Owner = pc[t].owner
    BY <2>1 DEF TypeOK, Entries
  <2>. QED
    BY <2>1, <2>2, <2>3, <2>4 DEF Once
<1>12. ASSUME NEW t \in Threads, runAtforkPrepare(t) PROVE Once'
  BY <1>12 DEF runAtforkPrepare, Once
<1>13. ASSUME NEW t \in Threads, NextForkHandler(t) PROVE Once'
  BY <1>13 DEF NextForkHandler, Remaining, Once
<1>14. ASSUME NEW t \in Threads, Fork(t) PROVE Once'
  BY <1>14 DEF Fork, Once
<1>15. ASSUME NEW t \in Threads, EndFork(t) PROVE Once'
  BY <1>15 DEF EndFork, Once
<1>16. CASE UNCHANGED vars
  BY <1>16 DEF vars, Once
<1>17. QED
  BY <1>1, <1>2, <1>3, <1>4, <1>5, <1>6, <1>7, <1>8, <1>9, <1>10, <1>11, <1>12,
       <1>13, <1>14, <1>15, <1>16 DEF Next, Begin, Continue, Done

-----------------------------------------------------------------------------
(* Every step. *)

\* What disturbed records of a step that leaves it FALSE.
LEMMA Undisturbed ==
  ASSUME TypeOK, LifeInv, [Next]_vars, ~disturbed'
  PROVE  ~disturbed /\ ~Overlap /\ ~Overlap' /\ ~LateEntry
<1>1. CASE UNCHANGED vars
  BY <1>1 DEF vars, LifeInv, Overlap, LateEntry
<1>2. CASE Done
  BY <1>2 DEF Done, vars, LifeInv, Overlap, LateEntry
<1>3. CASE Observe
  BY <1>3 DEF Observe, LifeInv
<1>. QED
  BY <1>1, <1>2, <1>3 DEF Next

\* The life of the handlers, step by step.
LEMMA LifeStep ==
  ASSUME Inv, [Next]_vars
  PROVE  LifeInv'
<1>1. SUFFICES ASSUME ~disturbed'
               PROVE  (~Overlap /\ ~wildCall /\ TeardownInv /\ DrainedInv /\ UpInv /\ Once)'
  BY DEF LifeInv
<1>2. ~disturbed /\ ~Overlap /\ ~Overlap' /\ ~LateEntry
  BY <1>1, Undisturbed DEF Inv
<1>3. ~wildCall /\ TeardownInv /\ DrainedInv /\ UpInv /\ Once
  BY <1>2 DEF Inv, LifeInv
<1>4. TeardownInv' /\ DrainedInv' /\ UpInv'
  BY <1>2, <1>3, TeardownStep, DrainedStep, UpStep DEF Inv
<1>5. ~wildCall' /\ Once'
  BY <1>2, <1>3, WildStep, OnceStep DEF Inv
<1>. QED
  BY <1>2, <1>4, <1>5

-----------------------------------------------------------------------------
(* The theorems. *)

\* Nothing is registered and every interpreter is up.
LEMMA InitInv == Init => Inv
<1> SUFFICES ASSUME Init PROVE Inv
  OBVIOUS
<1>1. \A t \in Threads : pc[t] = Idle
  BY DEF Init
<1>2. Idle \in ThreadStates
  BY BoundsAssumption DEF Idle, Stage, ThreadStates
<1>3. TypeOK
  <2>1. pc \in [Threads -> ThreadStates] /\ ran \in [Ids -> Nat]
    BY <1>2 DEF Init
  <2>2. nextId \in 1..MaxRegs + 1
    BY BoundsAssumption DEF Init
  <2>3. phase \in [Owners -> {"up", "flush", "deinit", "down"}]
    BY DEF Init
  <2>. QED
    BY <2>1, <2>2, <2>3 DEF Init, TypeOK
<1>4. StagesAgree /\ LockInv /\ OneExits
  BY NoneAssumption, <1>1 DEF Init, StagesAgree, LockInv, OneExits, Idle, Stage, Forking, Flushing
<1>5. TakenInv /\ NothingLost
  BY <1>1 DEF Init, TakenInv, NothingLost, Idle, Stage, Taken, Ids
<1>6. LifeInv
  <2>1. ~Overlap /\ ~wildCall /\ Once /\ DrainedInv
    BY <1>1 DEF Init, Overlap, Once, DrainedInv, Idle, Stage
  <2>2. TeardownInv /\ UpInv
    BY <1>1 DEF Init, TeardownInv, UpInv, Idle, Stage, Flushing, Forking
  <2>. QED
    BY <2>1, <2>2 DEF LifeInv
<1>. QED
  BY <1>3, <1>4, <1>5, <1>6 DEF Inv

\* Every step keeps the invariant.
LEMMA InvStep ==
  ASSUME Inv, [Next]_vars
  PROVE  Inv'
<1>1. TypeOK'
  BY TypeStep DEF Inv
<1>2. StagesAgree' /\ LockInv'
  BY StagesStep, LockStep DEF Inv
<1>3. TakenInv' /\ NothingLost' /\ OneExits'
  BY TakenStep, LostStep, ExitStep DEF Inv
<1>4. LifeInv'
  BY LifeStep
<1>. QED
  BY <1>1, <1>2, <1>3, <1>4 DEF Inv

\* The invariant holds in every reachable state.
LEMMA InvHolds == Spec => []Inv
<1>1. Inv /\ [Next]_vars => Inv'
  BY InvStep
<1>. QED
  BY <1>1, InitInv, PTL DEF Spec

\* As long as no teardown overlaps a fork or a quick_exit, every handler is
\* called before its code is unmapped and by the time its interpreter or the
\* process ends, and its entry goes with its interpreter.
THEOREM GlibcHandlersExact == Spec => []HandlersExact
<1>1. Inv => HandlersExact
  <2> SUFFICES ASSUME Inv PROVE HandlersExact
    OBVIOUS
  <2>1. NoWildCall /\ ExactlyOnce
    BY DEF Inv, LifeInv, Once, NoWildCall, ExactlyOnce
  <2>2. NoStaleEntry
    BY DEF Inv, LifeInv, DrainedInv, NoStaleEntry
  <2>. QED
    BY <2>1, <2>2 DEF Inv, HandlersExact
<1>. QED
  BY <1>1, InvHolds, PTL

\* Whatever overlaps, no quick-exit handler is called twice.
THEOREM GlibcAtMostOnce == Spec => []AtMostOnce
<1>1. Inv => AtMostOnce
  BY DEF Inv, TakenInv, AtMostOnce, TypeOK, Entries
<1>. QED
  BY <1>1, InvHolds, PTL

\* The thread that holds M across pthread_atfork never waits for a thread that
\* forks and waits for M, for any number of threads.
THEOREM GlibcNoLockCycle == Spec => []NoLockCycle
<1>1. Inv => NoLockCycle
  BY NoneAssumption DEF Inv, LockInv, NoLockCycle
<1>. QED
  BY <1>1, InvHolds, PTL


-----------------------------------------------------------------------------
(* The books: the two books of open libraries agree and the loader's count  *)
(* of a library without aliases is exact.  The count alone is not           *)
(* inductive: an open counts one only because a library that is not in      *)
(* m_LoadedLibraries has no handle in m_DyLibs, and a close reaches zero    *)
(* only because the handle it finds is the library's own.                   *)

\* The inductive invariant of the books.
BooksInv == BooksTypeOK /\ BooksAgree /\ LoadsBalanced

\* normalizePath leads every spelling to a library, and a canonical path to
\* itself.
LEMMA NormalizeToLib ==
  ASSUME NEW name \in Names
  PROVE  /\ normalizePath(name) \in Libs
         /\ name \in Libs => normalizePath(name) = name
BY NamesAssumption DEF normalizePath, Names

\* A recorded name is loaded, and a loaded name is recorded for its library.
LEMMA LoadedIffRecorded ==
  ASSUME BooksInv, NEW l \in Libs
  PROVE  /\ m_DyLibs[l] # NULL => m_DyLibs[l] \in m_LoadedLibraries
         /\ \A name \in m_LoadedLibraries :
              /\ name \in Names
              /\ normalizePath(name) = l => m_DyLibs[l] = name
         /\ NULL \notin m_LoadedLibraries
<1>1. m_LoadedLibraries = {m_DyLibs[k] : k \in Recorded}
  BY DEF BooksInv, BooksAgree
<1>2. m_DyLibs[l] # NULL => m_DyLibs[l] \in m_LoadedLibraries
  BY <1>1 DEF Recorded
<1>3. ASSUME NEW name \in m_LoadedLibraries
      PROVE  /\ name \in Names
             /\ name # NULL
             /\ normalizePath(name) = l => m_DyLibs[l] = name
  <2>1. PICK k \in Recorded : m_DyLibs[k] = name
    BY <1>1
  <2>2. k \in Libs /\ name # NULL /\ normalizePath(name) = k
    BY <2>1 DEF BooksInv, BooksAgree, Recorded
  <2>3. name \in Names
    BY DEF BooksInv, BooksTypeOK
  <2> QED BY <2>1, <2>2, <2>3
<1> QED BY <1>2, <1>3

\* A manager starts with empty books and nothing open.
LEMMA InitBooks == ManagerInit => BooksInv
<1> SUFFICES ASSUME ManagerInit PROVE BooksInv
  OBVIOUS
<1>1. BooksTypeOK
  BY DEF ManagerInit, BooksTypeOK
<1>2. Recorded = {}
  BY DEF ManagerInit, Recorded
<1>3. BooksAgree
  BY <1>2 DEF ManagerInit, BooksAgree
<1>4. LoadsBalanced
  BY DEF ManagerInit, LoadsBalanced, isLibraryLoaded
<1> QED BY <1>1, <1>3, <1>4 DEF BooksInv

\* Opening a library that is not loaded under that name keeps the books.
LEMMA OpenKeepsInv ==
  ASSUME BooksInv, NEW name \in Names, OpenAs(name)
  PROVE  BooksInv'
<1> DEFINE lib == normalizePath(name)
<1>0. /\ lib \in Libs /\ name \notin m_LoadedLibraries /\ name # NULL
      /\ dlrefs' = [dlrefs EXCEPT ![lib] = @ + 1]
      /\ dlrefs \in [Libs -> Nat]
      /\ m_DyLibs \in [Libs -> Names \cup {NULL}]
      /\ m_LoadedLibraries \subseteq Names
  BY NormalizeToLib, NamesAssumption DEF OpenAs, BooksInv, BooksTypeOK, Stems
<1>1. CASE m_DyLibs[lib] # NULL
  <2>1. UNCHANGED <<m_DyLibs, m_LoadedLibraries>>
    BY <1>1 DEF OpenAs
  <2>2. BooksTypeOK'
    BY <1>0, <2>1 DEF BooksTypeOK
  <2>3. Recorded' = Recorded
    BY <2>1 DEF Recorded
  <2>4. BooksAgree'
    BY <1>0, <2>1, <2>3 DEF BooksInv, BooksAgree, normalizePath, Recorded
  <2>5. ASSUME NEW l \in Libs, \A a \in Aliases : Resolves[a] # l
        PROVE  dlrefs'[l] = IF (isLibraryLoaded(l))' THEN 1 ELSE 0
    <3>1. dlrefs[l] = IF isLibraryLoaded(l) THEN 1 ELSE 0
      BY <2>5 DEF BooksInv, LoadsBalanced
    <3>2. (isLibraryLoaded(l))' <=> isLibraryLoaded(l)
      BY <2>1 DEF isLibraryLoaded, normalizePath
    <3>3. l # lib
      <4> SUFFICES ASSUME l = lib PROVE FALSE
        OBVIOUS
      <4>1. name \notin Aliases
        BY <2>5 DEF normalizePath
      <4>2. name = l
        BY <4>1 DEF normalizePath
      <4>3. m_DyLibs[l] \in m_LoadedLibraries /\ normalizePath(m_DyLibs[l]) = l
        BY <1>1, LoadedIffRecorded DEF BooksInv, BooksAgree, Recorded
      <4>4. m_DyLibs[l] = l
        BY <2>5, <4>3 DEF normalizePath
      <4> QED BY <1>0, <4>2, <4>3, <4>4
    <3> QED BY <1>0, <3>1, <3>2, <3>3
  <2> QED BY <2>2, <2>4, <2>5 DEF BooksInv, LoadsBalanced
<1>2. CASE m_DyLibs[lib] = NULL
  <2>1. /\ m_DyLibs' = [m_DyLibs EXCEPT ![lib] = name]
        /\ m_LoadedLibraries' = m_LoadedLibraries \cup {name}
    BY <1>2 DEF OpenAs
  <2>2. BooksTypeOK'
    BY <1>0, <2>1 DEF BooksTypeOK
  <2>3. Recorded' = Recorded \cup {lib}
    BY <1>0, <2>1 DEF Recorded
  <2>4. \A l \in Recorded : l # lib /\ m_DyLibs'[l] = m_DyLibs[l]
    BY <1>0, <1>2, <2>1 DEF Recorded
  <2>5. m_DyLibs'[lib] = name
    BY <1>0, <2>1
  <2>6. m_LoadedLibraries' = {m_DyLibs'[l] : l \in Recorded'}
    <3>1. m_LoadedLibraries = {m_DyLibs[l] : l \in Recorded}
      BY DEF BooksInv, BooksAgree
    <3> QED BY <2>1, <2>3, <2>4, <2>5, <3>1
  <2>7. \A l \in Recorded' :
          (normalizePath(m_DyLibs[l]))' = l /\ dlrefs'[l] >= 1
    <3> SUFFICES ASSUME NEW l \in Recorded'
                 PROVE  (normalizePath(m_DyLibs[l]))' = l /\ dlrefs'[l] >= 1
      OBVIOUS
    <3>1. CASE l = lib
      BY <1>0, <2>5, <3>1 DEF normalizePath
    <3>2. CASE l \in Recorded
      BY <1>0, <2>4, <3>2 DEF BooksInv, BooksAgree, Recorded, normalizePath
    <3> QED BY <2>3, <3>1, <3>2
  <2>8. ASSUME NEW l \in Libs, \A a \in Aliases : Resolves[a] # l
        PROVE  dlrefs'[l] = IF (isLibraryLoaded(l))' THEN 1 ELSE 0
    <3>1. dlrefs[l] = IF isLibraryLoaded(l) THEN 1 ELSE 0
      BY <2>8 DEF BooksInv, LoadsBalanced
    <3>2. normalizePath(l) = l
      BY NormalizeToLib DEF Names
    <3>3. CASE l = lib
      <4>1. name = l
        BY <2>8, <3>3 DEF normalizePath
      <4>2. ~isLibraryLoaded(l)
        BY <1>0, <3>2, <4>1 DEF isLibraryLoaded
      <4>3. (isLibraryLoaded(l))'
        BY <2>1, <3>2, <4>1 DEF isLibraryLoaded, normalizePath
      <4> QED BY <1>0, <3>1, <3>3, <4>2, <4>3
    <3>4. CASE l # lib
      <4>1. l # name
        BY <3>2, <3>4
      <4>2. (isLibraryLoaded(l))' <=> isLibraryLoaded(l)
        BY <2>1, <3>2, <4>1 DEF isLibraryLoaded, normalizePath
      <4> QED BY <1>0, <3>1, <3>4, <4>2
    <3> QED BY <3>3, <3>4
  <2> QED BY <2>2, <2>6, <2>7, <2>8 DEF BooksInv, BooksAgree, LoadsBalanced
<1> QED BY <1>1, <1>2

\* Closing a loaded library removes it from both books and gives back the
\* one open they stood for.
LEMMA UnloadKeepsInv ==
  ASSUME BooksInv, NEW stem, unloadLibrary(stem)
  PROVE  BooksInv'
<1> DEFINE name == lookupLibrary(stem)
<1>1. name \in Libs /\ normalizePath(name) = name /\ name \in m_LoadedLibraries
  BY NormalizeToLib DEF unloadLibrary, isLibraryLoaded, Names
<1>2. /\ dlrefs \in [Libs -> Nat]
      /\ m_DyLibs \in [Libs -> Names \cup {NULL}]
      /\ m_LoadedLibraries \subseteq Names
  BY DEF BooksInv, BooksTypeOK
<1>3. PICK handle \in Libs :
        /\ m_DyLibs[handle] = name
        /\ dlrefs' = [dlrefs EXCEPT ![handle] = @ - 1]
        /\ m_DyLibs' = [m_DyLibs EXCEPT ![handle] = NULL]
  BY DEF unloadLibrary
<1>4. handle = name /\ dlrefs[name] >= 1
  <2>1. name # NULL
    BY <1>1, NamesAssumption DEF Stems, Names
  <2> QED BY <1>1, <1>3, <2>1 DEF BooksInv, BooksAgree, Recorded
<1>5. m_LoadedLibraries' = m_LoadedLibraries \ {name}
  BY DEF unloadLibrary
<1>6. BooksTypeOK'
  BY <1>2, <1>3, <1>4, <1>5 DEF BooksTypeOK
<1>7. Recorded' = Recorded \ {name}
  BY <1>2, <1>3, <1>4 DEF Recorded
<1>8. \A l \in Recorded' : /\ m_DyLibs'[l] = m_DyLibs[l]
                          /\ dlrefs'[l] = dlrefs[l]
                          /\ m_DyLibs[l] # name
  BY <1>1, <1>2, <1>3, <1>4, <1>7 DEF BooksInv, BooksAgree, Recorded
<1>9. m_LoadedLibraries' = {m_DyLibs'[l] : l \in Recorded'}
  <2>1. m_LoadedLibraries = {m_DyLibs[l] : l \in Recorded}
    BY DEF BooksInv, BooksAgree
  <2>2. m_DyLibs[name] = name
    BY <1>3, <1>4
  <2> QED BY <1>5, <1>7, <1>8, <2>1, <2>2
<1>10. \A l \in Recorded' :
         (normalizePath(m_DyLibs[l]))' = l /\ dlrefs'[l] >= 1
  BY <1>7, <1>8 DEF BooksInv, BooksAgree, normalizePath
<1>11. ASSUME NEW l \in Libs, \A a \in Aliases : Resolves[a] # l
       PROVE  dlrefs'[l] = IF (isLibraryLoaded(l))' THEN 1 ELSE 0
  <2>1. dlrefs[l] = IF isLibraryLoaded(l) THEN 1 ELSE 0
    BY <1>11 DEF BooksInv, LoadsBalanced
  <2>2. normalizePath(l) = l
    BY NormalizeToLib DEF Names
  <2>3. (isLibraryLoaded(l))' <=> isLibraryLoaded(l) /\ l # name
    BY <1>5, <2>2 DEF isLibraryLoaded, normalizePath
  <2>4. CASE l = name
    BY <1>1, <1>2, <1>3, <1>4, <2>1, <2>2, <2>3, <2>4 DEF isLibraryLoaded
  <2>5. CASE l # name
    BY <1>2, <1>3, <1>4, <2>1, <2>3, <2>5
  <2> QED BY <2>4, <2>5
<1> QED BY <1>6, <1>9, <1>10, <1>11 DEF BooksInv, BooksAgree, LoadsBalanced

\* Every operation of the manager keeps the invariant.
LEMMA NextBooks == BooksInv /\ [ManagerNext]_managerVars => BooksInv'
<1> SUFFICES ASSUME BooksInv, [ManagerNext]_managerVars PROVE BooksInv'
  OBVIOUS
<1>1. ASSUME UNCHANGED <<m_DyLibs, m_LoadedLibraries, dlrefs>> PROVE BooksInv'
  BY <1>1 DEF BooksInv, BooksTypeOK, BooksAgree, LoadsBalanced, Recorded,
              isLibraryLoaded, normalizePath
<1>2. CASE AddSearchPath
  BY <1>1, <1>2 DEF AddSearchPath, addSearchPath
<1>3. CASE LoadLibrary
  <2>1. PICK stem \in Stems, lookup \in BOOLEAN : loadLibrary(stem, lookup)
    BY <1>3 DEF LoadLibrary
  <2>2. CASE lookup
    BY <2>1, <2>2, OpenKeepsInv DEF loadLibrary, Names
  <2>3. CASE ~lookup
    BY <2>1, <2>3, OpenKeepsInv DEF loadLibrary
  <2> QED BY <2>2, <2>3
<1>4. CASE UnloadLibrary
  BY <1>4, UnloadKeepsInv DEF UnloadLibrary
<1>5. CASE UNCHANGED managerVars
  BY <1>1, <1>5 DEF managerVars
<1> QED BY <1>2, <1>3, <1>4, <1>5 DEF ManagerNext

\* m_DyLibs and m_LoadedLibraries always describe the same open libraries, so
\* unloadLibrary always finds the handle of a name it has found loaded.
THEOREM LibraryBooksAgree == ManagerSpec => []BooksAgree
<1>1. BooksInv => BooksAgree
  BY DEF BooksInv
<1> QED BY InitBooks, NextBooks, <1>1, PTL DEF ManagerSpec

\* Loads and unloads of a library that no alias reaches are balanced: the
\* loader holds one open of it while it is loaded and none otherwise.
THEOREM LibraryLoadsBalanced == ManagerSpec => []LoadsBalanced
<1>1. BooksInv => LoadsBalanced
  BY DEF BooksInv
<1> QED BY InitBooks, NextBooks, <1>1, PTL DEF ManagerSpec

-----------------------------------------------------------------------------
(* The Bloom filter: the invariant says what the loop of BuildBloomFilter   *)
(* has established when it reaches a symbol: the names before it are in the *)
(* hash set, and both bits of each are set in the word that a query will    *)
(* test.  It needs the table to have at least one word, and the sizes to    *)
(* stay as they were when the first bits were set.                          *)

\* The sizes are those of the list, and stay.
Sized ==
  m_IsInitialized =>
    /\ m_SymbolsCount = Len(symbols)
    /\ m_BloomSize = BloomSize(Len(symbols))
    /\ DOMAIN m_BloomTable = 0..(m_BloomSize - 1)
    /\ m_BloomTable = [n \in DOMAIN m_BloomTable |-> m_BloomTable[n]]

\* The symbols before the next one are in the hash set.
Added == m_Symbols = {symbols[i] : i \in 1..(next - 1)}

\* Both bits of each of them are set.
BitsSet == \A s \in m_Symbols : TestHash(Hash[s])

\* The inductive invariant of the filter.
FilterInv ==
  /\ symbols \in Seq(SymbolNames)
  /\ next \in 1..(Len(symbols) + 1)
  /\ m_IsInitialized \in BOOLEAN
  /\ ~m_IsInitialized => next = 1
  /\ Sized
  /\ Added
  /\ BitsSet

\* A table for at least one symbol has at least one word.
LEMMA SizePositive ==
  ASSUME NEW count \in Nat
  PROVE  BloomSize(count) \in Nat /\ (count > 0 => BloomSize(count) > 0)
BY DEF BloomSize

\* The word of a hash is a word of the table.
LEMMA ModInRange ==
  ASSUME NEW x \in Nat, NEW n \in Nat, n > 0
  PROVE  x % n \in 0..(n - 1)
OBVIOUS

\* The word of a hash is a word of the table.
LEMMA WordInTable ==
  ASSUME NEW hash \in Nat, m_BloomSize \in Nat, m_BloomSize > 0
  PROVE  WordOf(hash) \in 0..(m_BloomSize - 1)
<1>1. hash \div 64 \in Nat
  OBVIOUS
<1> QED BY <1>1, ModInRange DEF WordOf

\* A library starts without a filter.
LEMMA InitFilter == FilterInit => FilterInv
<1> SUFFICES ASSUME FilterInit PROVE FilterInv
  OBVIOUS
<1>1. symbols \in Seq(SymbolNames) /\ next = 1 /\ m_Symbols = {}
  BY TablesAssumption DEF FilterInit
<1>2. next \in 1..(Len(symbols) + 1)
  BY <1>1
<1>3. Added
  BY <1>1 DEF Added
<1> QED BY <1>1, <1>2, <1>3 DEF FilterInit, FilterInv, Sized, BitsSet

\* Sizing the table establishes Sized while the hash set is still empty.
LEMMA InitializeKeepsInv == FilterInv /\ InitializeBloomFilter => FilterInv'
<1> SUFFICES ASSUME FilterInv, InitializeBloomFilter PROVE FilterInv'
  OBVIOUS
<1>1. symbols' = symbols /\ next' = next /\ m_Symbols' = m_Symbols
      /\ m_IsInitialized' = TRUE /\ next = 1
  BY DEF InitializeBloomFilter, FilterInv
<1>2. Sized'
  BY <1>1 DEF InitializeBloomFilter, Sized, BloomSize
<1>3. Added'
  BY <1>1 DEF FilterInv, Added
<1>4. m_Symbols' = {}
  BY <1>1 DEF FilterInv, Added
<1>5. BitsSet'
  BY <1>4 DEF BitsSet
<1> QED BY <1>1, <1>2, <1>3, <1>5 DEF FilterInv

\* Adding a symbol sets its bits and clears none.
LEMMA AddKeepsInv == FilterInv /\ AddSymbol => FilterInv'
<1> SUFFICES ASSUME FilterInv, AddSymbol PROVE FilterInv'
  OBVIOUS
<1> DEFINE new  == symbols[next]
           word == WordOf(Hash[new])
           mask == Mask(Hash[new])
<1>1. /\ symbols' = symbols /\ m_IsInitialized' = m_IsInitialized
      /\ m_IsInitialized /\ next <= Len(symbols) /\ next' = next + 1
      /\ m_SymbolsCount' = m_SymbolsCount
      /\ m_BloomSize' = m_BloomSize /\ m_BloomShift' = m_BloomShift
      /\ m_Symbols' = m_Symbols \cup {new}
      /\ m_BloomTable' = [m_BloomTable EXCEPT ![word] = @ \cup mask]
  BY DEF AddSymbol, sizes
<1>2. symbols \in Seq(SymbolNames) /\ Len(symbols) \in Nat /\ next \in 1..Len(symbols)
  BY <1>1 DEF FilterInv
<1>3. new \in SymbolNames /\ Hash[new] \in Nat
  BY <1>2, HashAssumption
<1>4. m_BloomSize \in Nat /\ m_BloomSize > 0
  BY <1>1, <1>2, SizePositive DEF FilterInv, Sized
<1>5. word \in DOMAIN m_BloomTable
  BY <1>1, <1>3, <1>4, WordInTable DEF FilterInv, Sized
<1>6. next' \in 1..(Len(symbols') + 1)
  BY <1>1, <1>2
<1>7. /\ DOMAIN m_BloomTable' = DOMAIN m_BloomTable
      /\ m_BloomTable' = [n \in DOMAIN m_BloomTable' |-> m_BloomTable'[n]]
  BY <1>1
<1>8. Sized'
  BY <1>1, <1>7 DEF FilterInv, Sized
<1>9. Added'
  <2>1. 1..(next' - 1) = (1..(next - 1)) \cup {next}
    BY <1>1, <1>2
  <2>2. m_Symbols = {symbols[i] : i \in 1..(next - 1)}
    BY DEF FilterInv, Added
  <2> QED BY <1>1, <2>1, <2>2 DEF Added
<1>10. /\ m_BloomTable'[word] = m_BloomTable[word] \cup mask
       /\ \A n \in DOMAIN m_BloomTable : m_BloomTable[n] \subseteq m_BloomTable'[n]
  BY <1>1, <1>5
<1>11. BitsSet'
  <2> SUFFICES ASSUME NEW s \in m_Symbols' PROVE (TestHash(Hash[s]))'
    BY DEF BitsSet
  <2>1. /\ (Mask(Hash[s]))' = Mask(Hash[s])
        /\ (WordOf(Hash[s]))' = WordOf(Hash[s])
    BY <1>1 DEF Mask, WordOf, m_Bits
  <2>2. CASE s = new
    BY <1>10, <2>1, <2>2 DEF TestHash
  <2>3. CASE s \in m_Symbols
    <3>1. Mask(Hash[s]) \subseteq m_BloomTable[WordOf(Hash[s])]
      BY <2>3 DEF FilterInv, BitsSet, TestHash
    <3>2. s \in SymbolNames
      <4>1. PICK i \in 1..(next - 1) : s = symbols[i]
        BY <2>3 DEF FilterInv, Added
      <4>2. i \in 1..Len(symbols)
        BY <1>2
      <4> QED BY <1>2, <4>1, <4>2
    <3>3. Hash[s] \in Nat
      BY <3>2, HashAssumption
    <3>4. WordOf(Hash[s]) \in DOMAIN m_BloomTable
      BY <1>1, <1>4, <3>3, WordInTable DEF FilterInv, Sized
    <3> QED BY <1>10, <2>1, <3>1, <3>4 DEF TestHash
  <2> QED BY <1>1, <2>2, <2>3
<1> QED BY <1>1, <1>2, <1>6, <1>8, <1>9, <1>11 DEF FilterInv

\* Every step keeps the invariant.
LEMMA NextFilter == FilterInv /\ [FilterNext]_filterVars => FilterInv'
<1>1. ASSUME FilterInv, UNCHANGED filterVars PROVE FilterInv'
  BY <1>1 DEF FilterInv, Sized, Added, BitsSet, TestHash, Mask, WordOf, m_Bits, filterVars, sizes
<1> QED BY <1>1, InitializeKeepsInv, AddKeepsInv DEF FilterNext, Queried

\* When the loop is done the invariant gives the exactness of every query.
LEMMA InvExact == FilterInv => QueryIsExact
<1> SUFFICES ASSUME FilterInv, Built, NEW s \in SymbolNames
             PROVE  TableContains(s) <=> s \in ToSet(symbols)
  BY DEF QueryIsExact
<1>1. next - 1 = Len(symbols) /\ symbols \in Seq(SymbolNames) /\ m_IsInitialized
  BY DEF FilterInv, Built
<1>2. m_Symbols = ToSet(symbols)
  BY <1>1 DEF FilterInv, Added, ToSet
<1>3. ASSUME s \in m_Symbols PROVE MayExistSymbol(s)
  <2>1. Len(symbols) # 0
    BY <1>1, <1>2, <1>3 DEF ToSet
  <2> QED BY <1>1, <1>3, <2>1 DEF FilterInv, Sized, BitsSet, MayExistSymbol
<1> QED BY <1>2, <1>3 DEF TableContains

\* A query answers exactly whether the library's list has the symbol: the
\* Bloom filter in front of the hash set never rules out a symbol that is
\* there, for every hash function and every list.
THEOREM BloomFilterExact == FilterSpec => []QueryIsExact
BY InitFilter, NextFilter, InvExact, PTL DEF FilterSpec

-----------------------------------------------------------------------------
(* The filters of an ELF file *)

\* One turn of log2u's recursion, over what it has for smaller numbers.
Log(g, n) == IF n > 1 THEN 1 + g[n \div 2] ELSE 0

\* log2u up to n.
LogUpTo(g, n) == g \in [0..n -> Nat] /\ \A m \in 0..n : g[m] = Log(g, m)

\* A set of naturals that is not empty has a least member.
LEMMA Least == ASSUME NEW S \in SUBSET Nat, S # {} PROVE \E x \in S : \A y \in S : x <= y
<1>1. IsWellFoundedOn({ss \in Nat \X Nat : ss[1] < ss[2]}, Nat)
  BY NatLessThanWellFounded DEF OpToRel
<1>2. PICK x \in S : \A y \in S : <<y, x>> \notin {ss \in Nat \X Nat : ss[1] < ss[2]}
  BY <1>1, WFMin
<1>3. ASSUME NEW y \in S PROVE x <= y
  <2>1. <<y, x>> \in Nat \X Nat /\ <<y, x>>[1] = y /\ <<y, x>>[2] = x
    OBVIOUS
  <2>2. ~(y < x)
    BY <1>2, <2>1
  <2> QED BY <2>2
<1> QED BY <1>3

\* log2u can be computed up to any number.
LEMMA LogUpToExists == \A n \in Nat : \E g : LogUpTo(g, n)
<1> DEFINE fails == {n \in Nat : ~\E g : LogUpTo(g, n)}
<1> SUFFICES ASSUME fails # {} PROVE FALSE
  OBVIOUS
<1>1. PICK n \in fails : \A m \in Nat : m < n => m \notin fails
  <2>1. fails \in SUBSET Nat /\ fails # {}
    OBVIOUS
  <2>2. PICK x \in fails : \A y \in fails : x <= y
    BY <2>1, Least
  <2> HIDE DEF fails
  <2>3. \A m \in Nat : m < x => m \notin fails
    BY <2>1, <2>2
  <2> QED BY <2>2, <2>3
<1>2. n \in Nat /\ ~\E g : LogUpTo(g, n)
  OBVIOUS
<1>3. CASE n = 0
  <2>1. LogUpTo([m \in 0..0 |-> 0], 0)
    BY DEF LogUpTo, Log
  <2> QED BY <1>2, <1>3, <2>1
<1>4. CASE n > 0
  <2>1. n - 1 \in Nat /\ n - 1 < n
    BY <1>2, <1>4
  <2>2. PICK g : LogUpTo(g, n - 1)
    BY <1>1, <2>1
  <2> DEFINE new == [m \in 0..n |-> IF m = n THEN Log(g, n) ELSE g[m]]
  <2>3. g \in [0..(n - 1) -> Nat] /\ \A m \in 0..(n - 1) : g[m] = Log(g, m)
    BY <2>2 DEF LogUpTo
  <2>4. \A m \in 0..n : m > 1 => m \div 2 \in 0..(n - 1)
    BY <1>2, <1>4
  <2>5. \A m \in 0..(n - 1) : new[m] = g[m]
    BY <1>2
  <2>6. \A m \in 0..n : Log(g, m) \in Nat /\ Log(new, m) = Log(g, m)
    BY <2>3, <2>4, <2>5 DEF Log
  <2>7. new \in [0..n -> Nat]
    <3>1. \A m \in 0..n : m = n \/ m \in 0..(n - 1)
      BY <1>2
    <3>2. \A m \in 0..(n - 1) : g[m] \in Nat
      BY <2>3
    <3>3. \A m \in 0..n : (IF m = n THEN Log(g, n) ELSE g[m]) \in Nat
      BY <1>2, <2>6, <3>1, <3>2
    <3> QED BY <3>3
  <2>8. \A m \in 0..n : new[m] = Log(new, m)
    BY <1>2, <2>3, <2>6
  <2>9. LogUpTo(new, n)
    BY <2>7, <2>8 DEF LogUpTo
  <2> QED BY <1>2, <2>9
<1> QED BY <1>2, <1>3, <1>4

\* In one way only.
LEMMA LogUpToAgree ==
  ASSUME NEW a \in Nat, NEW b \in Nat, NEW g, NEW h, LogUpTo(g, a), LogUpTo(h, b), a <= b
  PROVE  \A m \in 0..a : g[m] = h[m]
<1> DEFINE differ == {m \in 0..a : g[m] # h[m]}
<1> SUFFICES ASSUME differ # {} PROVE FALSE
  OBVIOUS
<1>1. PICK n \in differ : \A m \in Nat : m < n => m \notin differ
  <2>1. differ \in SUBSET Nat /\ differ # {}
    OBVIOUS
  <2>2. PICK x \in differ : \A y \in differ : x <= y
    BY <2>1, Least
  <2> HIDE DEF differ
  <2>3. \A m \in Nat : m < x => m \notin differ
    BY <2>1, <2>2
  <2> QED BY <2>2, <2>3
<1>2. n \in 0..a /\ n \in 0..b /\ g[n] = Log(g, n) /\ h[n] = Log(h, n) /\ g[n] # h[n]
  BY DEF LogUpTo
<1>3. n > 1 => n \div 2 \in 0..a /\ n \div 2 < n
  BY <1>2
<1>4. n > 1 => g[n \div 2] = h[n \div 2]
  BY <1>1, <1>3
<1> QED BY <1>2, <1>4 DEF Log

\* log2u's recursion is well founded.
LEMMA LogIs == log2u \in [Nat -> Nat]
<1> DEFINE part(n) == CHOOSE g : LogUpTo(g, n)
           whole == [n \in Nat |-> part(n)[n]]
<1>1. \A n \in Nat : LogUpTo(part(n), n)
  BY LogUpToExists
<1> HIDE DEF part
<1>2. \A n \in Nat : part(n)[n] \in Nat /\ part(n)[n] = Log(part(n), n)
  BY <1>1 DEF LogUpTo
<1>3. \A n \in Nat : n > 1 => n \div 2 \in Nat /\ n \div 2 <= n /\ n \div 2 \in 0..(n \div 2)
  OBVIOUS
<1>4. \A n \in Nat : n > 1 => part(n)[n \div 2] = part(n \div 2)[n \div 2]
  BY <1>1, <1>3, LogUpToAgree
<1>5. \A n \in Nat : whole[n] = IF n > 1 THEN 1 + whole[n \div 2] ELSE 0
  BY <1>2, <1>3, <1>4 DEF Log
<1>6. whole = [n \in Nat |-> IF n > 1 THEN 1 + whole[n \div 2] ELSE 0]
  BY <1>5
<1>7. log2u = [n \in Nat |-> IF n > 1 THEN 1 + log2u[n \div 2] ELSE 0]
  <2> HIDE DEF whole
  <2>1. \E f : f = [n \in Nat |-> IF n > 1 THEN 1 + f[n \div 2] ELSE 0]
    BY <1>6
  <2> QED BY <2>1 DEF log2u
<1> DEFINE wrong == {n \in Nat : log2u[n] \notin Nat}
<1> SUFFICES ASSUME wrong # {} PROVE FALSE
  BY <1>7
<1>8. PICK n \in wrong : \A m \in Nat : m < n => m \notin wrong
  <2>1. wrong \in SUBSET Nat /\ wrong # {}
    OBVIOUS
  <2>2. PICK x \in wrong : \A y \in wrong : x <= y
    BY <2>1, Least
  <2> HIDE DEF wrong
  <2>3. \A m \in Nat : m < x => m \notin wrong
    BY <2>1, <2>2
  <2> QED BY <2>2, <2>3
<1>9. n > 1 => n \div 2 \in Nat /\ n \div 2 < n
  OBVIOUS
<1>10. log2u[n] = IF n > 1 THEN 1 + log2u[n \div 2] ELSE 0
  BY <1>7
<1> QED BY <1>8, <1>9, <1>10

\* BloomShift's bound.
LEMMA ShiftIs == ASSUME NEW count \in Nat PROVE BloomShift(count) \in 0..6
<1>1. log2u[count] \in Nat
  BY LogIs
<1> QED BY <1>1 DEF BloomShift

\* The words a filter is built from.
LEMMA MaskIs == ASSUME NEW hash \in Nat, m_BloomShift \in Nat PROVE Mask(hash) \subseteq 0..63
BY DEF Mask, m_Bits

\* The filter's types, with what FilterInv needs of them.
FilterTyped == FilterTypeOK /\ FilterInv

\* A library without a filter has the types.
LEMMA InitTyped == FilterInit => FilterTyped
<1> SUFFICES ASSUME FilterInit PROVE FilterTypeOK
  BY InitFilter DEF FilterTyped
<1>1. <<>> \in [0..(0 - 1) -> SUBSET (0..63)]
  OBVIOUS
<1> QED BY <1>1, InitFilter DEF FilterInit, FilterTypeOK, FilterInv

\* Sizing the table.
LEMMA InitializeKeepsType == FilterTyped /\ InitializeBloomFilter => FilterTypeOK'
<1> SUFFICES ASSUME FilterTyped, InitializeBloomFilter PROVE FilterTypeOK'
  OBVIOUS
<1> DEFINE count == Len(symbols)
<1>1. count \in Nat
  BY DEF FilterTyped, FilterInv
<1>2. BloomSize(count) \in Nat /\ (count > 0 => BloomSize(count) > 0) /\ BloomShift(count) \in 0..6
  BY <1>1, SizePositive, ShiftIs
<1>3. /\ m_IsInitialized' = TRUE /\ m_SymbolsCount' = count
      /\ m_BloomSize' = BloomSize(count) /\ m_BloomShift' = BloomShift(count)
      /\ m_BloomTable' = [n \in 0..(m_BloomSize' - 1) |-> {}]
      /\ symbols' = symbols /\ next' = next /\ m_Symbols' = m_Symbols
  BY DEF InitializeBloomFilter
<1>4. /\ symbols \in Seq(SymbolNames) /\ next \in 1..(Len(symbols) + 1) /\ m_Symbols \subseteq SymbolNames
  BY DEF FilterTyped, FilterTypeOK
<1> QED BY <1>1, <1>2, <1>3, <1>4 DEF FilterTypeOK

\* Adding a symbol.
LEMMA AddKeepsType == FilterTyped /\ AddSymbol => FilterTypeOK'
<1> SUFFICES ASSUME FilterTyped, AddSymbol PROVE FilterTypeOK'
  OBVIOUS
<1> DEFINE new == symbols[next]
<1>1. /\ symbols \in Seq(SymbolNames) /\ next \in 1..Len(symbols) /\ Len(symbols) \in Nat
      /\ m_Symbols \subseteq SymbolNames /\ m_BloomShift \in 0..6 /\ m_BloomShift \in Nat
      /\ m_IsInitialized
      /\ m_BloomTable \in [0..(m_BloomSize - 1) -> SUBSET (0..63)]
  <2>1. /\ symbols \in Seq(SymbolNames) /\ next \in 1..(Len(symbols) + 1) /\ m_BloomShift \in 0..6
        /\ m_Symbols \subseteq SymbolNames
        /\ m_BloomTable \in [0..(m_BloomSize - 1) -> SUBSET (0..63)]
    BY DEF FilterTyped, FilterTypeOK
  <2>2. m_IsInitialized /\ next <= Len(symbols)
    BY DEF AddSymbol
  <2>3. next \in 1..Len(symbols) /\ Len(symbols) \in Nat
    BY <2>1, <2>2
  <2>4. m_BloomShift \in Nat
    BY <2>1
  <2> QED BY <2>1, <2>2, <2>3, <2>4, Zenon
<1>2. new \in SymbolNames /\ Hash[new] \in Nat
  BY <1>1, HashAssumption
<1>3. Mask(Hash[new]) \subseteq 0..63
  BY <1>1, <1>2, MaskIs
<1>4. m_BloomTable' = [m_BloomTable EXCEPT ![WordOf(Hash[new])] = @ \cup Mask(Hash[new])]
  BY DEF AddSymbol
<1>5. m_BloomTable' \in [0..(m_BloomSize - 1) -> SUBSET (0..63)]
  BY <1>1, <1>3, <1>4
<1>6. /\ symbols' = symbols /\ next' = next + 1 /\ m_IsInitialized' = m_IsInitialized
      /\ m_Symbols' = m_Symbols \cup {new}
      /\ m_SymbolsCount' = m_SymbolsCount /\ m_BloomSize' = m_BloomSize /\ m_BloomShift' = m_BloomShift
  BY DEF AddSymbol, sizes
<1>7. next' \in 1..(Len(symbols') + 1)
  BY <1>1, <1>6
<1> QED BY <1>1, <1>2, <1>5, <1>6, <1>7 DEF FilterTyped, FilterTypeOK

\* Every step of the filter keeps the types.
LEMMA NextTyped == FilterTyped /\ [FilterNext]_filterVars => FilterTyped'
<1>1. ASSUME FilterTyped, UNCHANGED filterVars PROVE FilterTypeOK'
  BY <1>1 DEF FilterTyped, FilterTypeOK, filterVars, sizes
<1>2. FilterTyped /\ [FilterNext]_filterVars => FilterTypeOK'
  BY <1>1, InitializeKeepsType, AddKeepsType DEF FilterNext, Queried
<1> QED BY <1>2, NextFilter DEF FilterTyped

\* The linker made its filter for symbols of the file.
ElfInv == FilterTyped /\ exported \subseteq ToSet(symbols)

\* ElfInv holds when the file is found.
LEMMA ElfInitInv == ElfInit => ElfInv
<1> SUFFICES ASSUME ElfInit PROVE ElfInv
  OBVIOUS
<1>1. exported \subseteq ToSet(symbols)
  BY DEF ElfInit
<1> QED BY <1>1, InitTyped DEF ElfInit, ElfInv

\* Every step keeps ElfInv: the list is read once.
LEMMA ElfNextInv == ElfInv /\ [ElfNext]_elfVars => ElfInv'
<1> SUFFICES ASSUME ElfInv, [ElfNext]_elfVars PROVE ElfInv'
  OBVIOUS
<1>1. [FilterNext]_filterVars /\ exported' = exported
  BY DEF ElfNext, elfVars, BuildForQuery, RuledOut, FilterNext
<1>2. symbols' = symbols
  BY <1>1 DEF FilterNext, InitializeBloomFilter, AddSymbol, Queried, filterVars
<1>3. FilterTyped'
  BY <1>1, NextTyped DEF ElfInv
<1> QED BY <1>1, <1>2, <1>3 DEF ElfInv, ToSet

\* The invariant gives the exactness of the filters: both bits of an exported
\* symbol are among those the linker put into its word.
LEMMA ElfInvExact == ElfInv => FiltersExact
<1> SUFFICES ASSUME ElfInv PROVE FiltersExact
  OBVIOUS
<1>1. FilterTypeOK /\ QueryIsExact
  BY InvExact DEF ElfInv, FilterTyped
<1>2. exported \subseteq ToSet(symbols) /\ ToSet(symbols) \subseteq SymbolNames
  BY <1>1 DEF ElfInv, FilterTypeOK, ToSet
<1>3. ASSUME NEW s \in exported PROVE MayExistInElfObjectFile(Hash[s])
  <2>1. LinkerBits(Hash[s]) \subseteq GnuHashWord(LinkerWord(Hash[s]))
    BY DEF GnuHashWord
  <2> QED BY <2>1 DEF LinkerBits, LinkerWord, MayExistInElfObjectFile
<1>4. ASSUME NEW s \in exported, Built PROVE FileContains(s)
  BY <1>1, <1>2, <1>3, <1>4 DEF QueryIsExact, FileContains
<1>5. ASSUME NEW s \in SymbolNames, Built, FileContains(s) PROVE s \in ToSet(symbols)
  BY <1>1, <1>5 DEF QueryIsExact, FileContains
<1> QED BY <1>1, <1>3, <1>4, <1>5 DEF FiltersExact, ExportedIsFound

\* No symbol an ELF file exports is lost by the two filters in front of its
\* table - the linker's, read with 64-bit words in 32-bit files too, and
\* LibraryPath's own - and the filters' fields keep their types, for every hash
\* function, list of symbols and shape of the .gnu.hash section.
THEOREM ElfFiltersExact == ElfSpec => []FiltersExact
BY ElfInitInv, ElfNextInv, ElfInvExact, PTL DEF ElfSpec

-----------------------------------------------------------------------------
(* The search for a symbol's library.  Lists without doubles come from the  *)
(* scan registering what neither list has; the answers need the inductive   *)
(* invariant SearchInv below, and that the walk over needed libraries ends: *)
(* each turn of it drops a call, and only a library that was not registered *)
(* adds its needs, once (LeftLess).                                         *)

-----------------------------------------------------------------------------
(* Loops: induction up to a number, and what a loop of n turns goes through. *)

\* Induction up to n: a set with 0 and the successors of its members.
LEMMA UpTo ==
  ASSUME NEW n \in Nat, NEW S, 0 \in S, \A i \in 1..n : i - 1 \in S => i \in S
  PROVE  \A i \in 0..n : i \in S
<1>. DEFINE missing == {i \in 0..n : i \notin S}
<1>. SUFFICES ASSUME missing # {} PROVE FALSE
  OBVIOUS
<1>1. missing \in SUBSET Nat
  OBVIOUS
<1>2. PICK i \in missing : \A j \in missing : i <= j
  BY <1>1, Least
<1>3. i \in 1..n /\ i \notin S /\ i - 1 \in S
  BY <1>2
<1>. QED
  BY <1>3

\* What a loop of n turns goes through.
Loop(n, start, step, f) == f = [i \in 0..n |-> IF i = 0 THEN start ELSE step[<<i, f[i - 1]>>]]

\* It can be run.
LEMMA LoopRuns ==
  ASSUME NEW n \in Nat, NEW S, NEW start \in S, NEW step \in [(1..n) \X S -> S]
  PROVE  \E f \in [0..n -> S] : Loop(n, start, step, f)
<1>. DEFINE Runs(m, f) == f[0] = start /\ \A i \in 1..m : f[i] = step[<<i, f[i - 1]>>]
            done == {m \in 0..n : \E f \in [0..m -> S] : Runs(m, f)}
<1>1. 0 \in done
  <2>. DEFINE f == [i \in 0..0 |-> start]
  <2>1. f \in [0..0 -> S] /\ Runs(0, f)
    OBVIOUS
  <2>. HIDE DEF f
  <2>2. \E h \in [0..0 -> S] : Runs(0, h)
    BY <2>1
  <2>. HIDE DEF Runs
  <2>. QED
    BY <2>2
<1>2. ASSUME NEW m \in 1..n, m - 1 \in done PROVE m \in done
  <2>1. PICK f \in [0..(m - 1) -> S] : Runs(m - 1, f)
    BY <1>2
  <2>2. step[<<m, f[m - 1]>>] \in S
    OBVIOUS
  <2>. DEFINE g == [i \in 0..m |-> IF i < m THEN f[i] ELSE step[<<m, f[m - 1]>>]]
  <2>3. g \in [0..m -> S]
    BY <2>2
  <2>4. g[0] = f[0] /\ g[m] = step[<<m, f[m - 1]>>] /\ g[m - 1] = f[m - 1]
    OBVIOUS
  <2>5. ASSUME NEW i \in 1..m, i # m PROVE g[i] = f[i] /\ g[i - 1] = f[i - 1] /\ i \in 1..(m - 1)
    BY <2>5
  <2>6. Runs(m, g)
    BY <2>1, <2>4, <2>5
  <2>. HIDE DEF g
  <2>7. \E h \in [0..m -> S] : Runs(m, h)
    BY <2>3, <2>6
  <2>. HIDE DEF Runs
  <2>. QED
    BY <2>7
<1>. HIDE DEF done
<1>3. n \in done
  BY <1>1, <1>2, UpTo
<1>4. PICK f \in [0..n -> S] : Runs(n, f)
  BY <1>3 DEF done
<1>5. ASSUME NEW i \in 0..n PROVE f[i] = IF i = 0 THEN start ELSE step[<<i, f[i - 1]>>]
  BY <1>4
<1>6. f = [i \in 0..n |-> IF i = 0 THEN start ELSE step[<<i, f[i - 1]>>]]
  BY <1>5
<1>7. Loop(n, start, step, f)
  BY <1>6 DEF Loop
<1>. QED
  BY <1>7

-----------------------------------------------------------------------------
(* The members of a sequence that are kept. *)

Distinct(s) == \A i, j \in 1..Len(s) : s[i] = s[j] => i = j

\* Only's loop.
OnlyTurns(s, K, f) == [i \in 0..Len(s) |-> IF i = 0 THEN <<>> ELSE Keeping(f[i - 1], s[i], K)]

\* What it leads to.
OnlyRun(s, K, n, f) ==
  /\ f[0] = <<>> /\ \A i \in 1..n : f[i] = Keeping(f[i - 1], s[i], K)
  /\ Only(s, K) = f[n]

\* The loop can be run.
LEMMA OnlyRuns ==
  ASSUME NEW S, NEW s \in Seq(S), NEW K, NEW n \in Nat, n = Len(s)
  PROVE  \E f : OnlyRun(s, K, n, f)
<1>. DEFINE step == [p \in (1..n) \X Seq(S) |-> Keeping(p[2], s[p[1]], K)]
<1>1. ASSUME NEW i \in 1..n, NEW c \in Seq(S) PROVE Keeping(c, s[i], K) \in Seq(S)
  BY DEF Keeping
<1>2. step \in [(1..n) \X Seq(S) -> Seq(S)]
  <2>1. \A p \in (1..n) \X Seq(S) : p[1] \in 1..n /\ p[2] \in Seq(S)
    OBVIOUS
  <2>. QED
    BY <1>1, <2>1
<1>3. \A i \in 1..n, c \in Seq(S) : step[<<i, c>>] = Keeping(c, s[i], K)
  OBVIOUS
<1>. HIDE DEF step
<1>4. <<>> \in Seq(S)
  OBVIOUS
<1>5. PICK h \in [0..n -> Seq(S)] : Loop(n, <<>>, step, h)
  BY <1>2, <1>4, LoopRuns
<1>6. h = OnlyTurns(s, K, h)
  <2>. DEFINE turn(i) == IF i = 0 THEN <<>> ELSE step[<<i, h[i - 1]>>]
              mine(i) == IF i = 0 THEN <<>> ELSE Keeping(h[i - 1], s[i], K)
  <2>1. h = [i \in 0..n |-> turn(i)]
    BY <1>5 DEF Loop
  <2>2. \A i \in 0..n : turn(i) = mine(i)
    BY <1>3
  <2>. HIDE DEF turn, mine
  <2>3. h = [i \in 0..n |-> mine(i)]
    BY <2>1, <2>2
  <2>. QED
    BY <2>3 DEF OnlyTurns, mine
<1>. DEFINE g == CHOOSE f : f = [i \in 0..Len(s) |-> IF i = 0 THEN <<>> ELSE Keeping(f[i - 1], s[i], K)]
<1>7. Only(s, K) = g[Len(s)]
  BY DEF Only
<1>8. g = OnlyTurns(s, K, g)
  BY <1>6 DEF OnlyTurns
<1>. HIDE DEF g
<1>9. g[0] = <<>> /\ \A i \in 1..n : g[i] = Keeping(g[i - 1], s[i], K)
  <2>. DEFINE mine(i) == IF i = 0 THEN <<>> ELSE Keeping(g[i - 1], s[i], K)
  <2>1. g = [i \in 0..n |-> mine(i)]
    BY <1>8 DEF OnlyTurns
  <2>2. mine(0) = <<>> /\ \A i \in 1..n : mine(i) = Keeping(g[i - 1], s[i], K)
    OBVIOUS
  <2>. HIDE DEF mine
  <2>3. \A i \in 0..n : g[i] = mine(i)
    BY <2>1
  <2>. QED
    BY <2>2, <2>3
<1>10. OnlyRun(s, K, n, g)
  BY <1>7, <1>9 DEF OnlyRun
<1>. QED
  BY <1>10

\* Appending a member.
LEMMA Appended ==
  ASSUME NEW S, NEW s \in Seq(S), NEW x \in S
  PROVE  /\ Append(s, x) \in Seq(S) /\ Len(Append(s, x)) = Len(s) + 1
         /\ ToSet(Append(s, x)) = ToSet(s) \cup {x}
         /\ Distinct(s) /\ x \notin ToSet(s) => Distinct(Append(s, x))
<1>. DEFINE t == Append(s, x)
            n == Len(s)
<1>1. /\ n \in Nat /\ t \in Seq(S) /\ Len(t) = n + 1 /\ t[n + 1] = x
      /\ \A i \in 1..n : t[i] = s[i] /\ s[i] \in S
      /\ DOMAIN s = 1..n /\ DOMAIN t = 1..(n + 1)
  OBVIOUS
<1>. HIDE DEF t, n
<1>2. \A i \in 1..(n + 1) : i = n + 1 \/ i \in 1..n
  BY <1>1
<1>3. n + 1 \in 1..(n + 1) /\ \A i \in 1..n : i \in 1..(n + 1)
  BY <1>1
<1>4. ToSet(t) = ToSet(s) \cup {x}
  BY <1>1, <1>2, <1>3 DEF ToSet
<1>5. ASSUME Distinct(s), x \notin ToSet(s), NEW i \in 1..(n + 1), NEW j \in 1..(n + 1), t[i] = t[j]
      PROVE  i = j
  <2>1. \A k \in 1..n : t[k] # x
    BY <1>1, <1>5 DEF ToSet
  <2>2. (i \in 1..n /\ j \in 1..n) \/ i = j
    BY <1>1, <1>2, <1>5, <2>1
  <2>. QED
    BY <1>1, <1>5, <2>2 DEF Distinct, n
<1>6. Distinct(s) /\ x \notin ToSet(s) => Distinct(t)
  BY <1>1, <1>5 DEF Distinct
<1>. QED
  BY <1>1, <1>4, <1>6 DEF t, n

\* Only keeps what it is told to, once each if it stood there once.
LEMMA OnlyIs ==
  ASSUME NEW S, NEW s \in Seq(S), NEW K
  PROVE  /\ Only(s, K) \in Seq(S)
         /\ ToSet(Only(s, K)) = ToSet(s) \cap K
         /\ Distinct(s) => Distinct(Only(s, K))
<1>. DEFINE n == Len(s)
            First(i) == {s[j] : j \in 1..i}
<1>1. n \in Nat /\ DOMAIN s = 1..n /\ \A i \in 1..n : s[i] \in S
  OBVIOUS
<1>2. PICK f : OnlyRun(s, K, n, f)
  BY <1>1, OnlyRuns
<1>3. f[0] = <<>> /\ (\A i \in 1..n : f[i] = Keeping(f[i - 1], s[i], K)) /\ Only(s, K) = f[n]
  BY <1>2 DEF OnlyRun
<1>. HIDE DEF n
<1>. DEFINE Kept(i) == /\ f[i] \in Seq(S) /\ ToSet(f[i]) = First(i) \cap K
                       /\ Distinct(s) => Distinct(f[i])
            good == {i \in 0..n : Kept(i)}
<1>4. 0 \in good
  <2>1. <<>> \in Seq(S) /\ ToSet(<<>>) = {} /\ Distinct(<<>>)
    BY DEF ToSet, Distinct
  <2>2. First(0) = {} /\ 0 \in 0..n
    BY <1>1
  <2>. QED
    BY <1>3, <2>1, <2>2
<1>5. ASSUME NEW i \in 1..n, i - 1 \in good PROVE i \in good
  <2>1. First(i) = First(i - 1) \cup {s[i]} /\ i \in 0..n
    <3>1. \A j \in 1..i : j = i \/ j \in 1..(i - 1)
      BY <1>1
    <3>2. i \in 1..i /\ i \in 0..n /\ \A j \in 1..(i - 1) : j \in 1..i
      BY <1>1
    <3>. QED
      BY <3>1, <3>2
  <2>2. Kept(i - 1)
    BY <1>5
  <2>3. Distinct(s) => s[i] \notin First(i - 1)
    <3>1. \A j \in 1..(i - 1) : j # i /\ j \in 1..n
      BY <1>1
    <3>. QED
      BY <3>1 DEF Distinct, n
  <2>4. f[i] = Keeping(f[i - 1], s[i], K) /\ s[i] \in S
    BY <1>1, <1>3
  <2>. HIDE DEF First
  <2>5. CASE s[i] \in K
    <3>. DEFINE c == f[i - 1]
    <3>1. f[i] = Append(c, s[i])
      BY <2>4, <2>5 DEF Keeping
    <3>2. c \in Seq(S) /\ ToSet(c) = First(i - 1) \cap K /\ (Distinct(s) => Distinct(c))
      BY <2>2
    <3>. HIDE DEF c
    <3>3. /\ Append(c, s[i]) \in Seq(S) /\ ToSet(Append(c, s[i])) = ToSet(c) \cup {s[i]}
          /\ Distinct(c) /\ s[i] \notin ToSet(c) => Distinct(Append(c, s[i]))
      BY <2>4, <3>2, Appended
    <3>4. Kept(i)
      BY <2>1, <2>3, <2>5, <3>1, <3>2, <3>3
    <3>. QED
      BY <2>1, <3>4
  <2>6. CASE s[i] \notin K
    <3>1. f[i] = f[i - 1]
      BY <2>4, <2>6 DEF Keeping
    <3>2. Kept(i)
      BY <2>1, <2>2, <2>6, <3>1
    <3>. QED
      BY <2>1, <3>2
  <2>. QED
    BY <2>5, <2>6
<1>6. Kept(n)
  <2>. HIDE DEF Kept
  <2>1. \A i \in 0..n : i \in good
    <3>. HIDE DEF good
    <3>. QED
      BY <1>1, <1>4, <1>5, UpTo
  <2>2. n \in 0..n
    BY <1>1
  <2>. QED
    BY <2>1, <2>2
<1>7. First(n) = ToSet(s)
  BY <1>1 DEF ToSet
<1>. QED
  BY <1>3, <1>6, <1>7

-----------------------------------------------------------------------------
(* The search path. *)

\* A path more, or not.
LEMMA PathTyped ==
  ASSUME NEW infos \in Seq(SearchPathInfo), NEW p \in Paths, NEW u \in BOOLEAN, NEW f \in BOOLEAN
  PROVE  WithSearchPath(infos, p, u, f) \in Seq(SearchPathInfo)
<1>1. [Path |-> p, IsUser |-> u] \in SearchPathInfo
  BY DEF SearchPathInfo
<1>. DEFINE new == [Path |-> p, IsUser |-> u]
<1>2. new \in SearchPathInfo
  BY <1>1
<1>3. WithSearchPath(infos, p, u, f) = infos \/ WithSearchPath(infos, p, u, f) = <<new>> \o infos
        \/ WithSearchPath(infos, p, u, f) = Append(infos, new)
  BY DEF WithSearchPath
<1>. HIDE DEF new
<1>4. <<new>> \in Seq(SearchPathInfo)
  BY <1>2
<1>5. <<new>> \o infos \in Seq(SearchPathInfo) /\ Append(infos, new) \in Seq(SearchPathInfo)
  BY <1>2, <1>4
<1>. QED
  BY <1>3, <1>5

WithLast(infos, p, u) == WithSearchPath(infos, p, u, FALSE)

\* WithSearchPaths's loop.
PathTurns(infos, ps, u, f) ==
  [i \in 0..Len(ps) |-> IF i = 0 THEN infos ELSE WithLast(f[i - 1], ps[i], u)]

\* Paths more.
LEMMA PathsTyped ==
  ASSUME NEW infos \in Seq(SearchPathInfo), NEW ps \in Seq(Paths), NEW u \in BOOLEAN
  PROVE  WithSearchPaths(infos, ps, u) \in Seq(SearchPathInfo)
<1>. DEFINE n == Len(ps)
            T == Seq(SearchPathInfo)
            step == [p \in (1..n) \X T |-> WithLast(p[2], ps[p[1]], u)]
<1>0. n \in Nat /\ Len(ps) = n
  OBVIOUS
<1>1. ASSUME NEW i \in 1..n, NEW c \in T PROVE WithLast(c, ps[i], u) \in T
  <2>1. ps[i] \in Paths
    OBVIOUS
  <2>. QED
    BY <2>1, PathTyped DEF WithLast
<1>. HIDE DEF n, T
<1>2. step \in [(1..n) \X T -> T]
  <2>1. \A p \in (1..n) \X T : p[1] \in 1..n /\ p[2] \in T
    OBVIOUS
  <2>2. \A p \in (1..n) \X T : WithLast(p[2], ps[p[1]], u) \in T
    BY <1>1, <2>1
  <2>. QED
    BY <2>2
<1>3. \A i \in 1..n, c \in T : step[<<i, c>>] = WithLast(c, ps[i], u)
  <2>1. \A i \in 1..n, c \in T : <<i, c>> \in (1..n) \X T /\ <<i, c>>[1] = i /\ <<i, c>>[2] = c
    OBVIOUS
  <2>. QED
    BY <2>1
<1>. HIDE DEF step
<1>4. PICK h \in [0..n -> T] : Loop(n, infos, step, h)
  BY <1>0, <1>2, LoopRuns DEF T
<1>5. h = PathTurns(infos, ps, u, h)
  <2>. DEFINE turn(i) == IF i = 0 THEN infos ELSE step[<<i, h[i - 1]>>]
              mine(i) == IF i = 0 THEN infos ELSE WithLast(h[i - 1], ps[i], u)
  <2>1. h = [i \in 0..n |-> turn(i)]
    BY <1>4 DEF Loop
  <2>2. ASSUME NEW i \in 0..n PROVE turn(i) = mine(i)
    <3>1. CASE i = 0
      BY <3>1
    <3>2. CASE i # 0
      <4>1. i \in 1..n /\ i - 1 \in 0..n
        BY <1>0, <3>2
      <4>2. h[i - 1] \in T
        BY <1>4, <4>1
      <4>3. step[<<i, h[i - 1]>>] = WithLast(h[i - 1], ps[i], u)
        BY <1>3, <4>1, <4>2
      <4>. QED
        BY <3>2, <4>3
    <3>. QED
      BY <3>1, <3>2
  <2>. HIDE DEF turn, mine
  <2>3. h = [i \in 0..n |-> mine(i)]
    BY <2>1, <2>2
  <2>. QED
    BY <2>3, <1>0 DEF PathTurns, mine
<1>. DEFINE g == CHOOSE f : f = [i \in 0..Len(ps) |->
                                   IF i = 0 THEN infos ELSE WithLast(f[i - 1], ps[i], u)]
<1>6. WithSearchPaths(infos, ps, u) = g[Len(ps)]
  BY DEF WithSearchPaths, WithLast
<1>7. g = PathTurns(infos, ps, u, g)
  BY <1>5 DEF PathTurns
<1>. HIDE DEF g
<1>8. g[0] = infos /\ \A i \in 1..n : g[i] = WithLast(g[i - 1], ps[i], u)
  <2>. DEFINE mine(i) == IF i = 0 THEN infos ELSE WithLast(g[i - 1], ps[i], u)
  <2>1. g = [i \in 0..n |-> mine(i)]
    BY <1>7, <1>0 DEF PathTurns
  <2>2. mine(0) = infos /\ \A i \in 1..n : mine(i) = WithLast(g[i - 1], ps[i], u)
    OBVIOUS
  <2>. HIDE DEF mine
  <2>3. \A i \in 0..n : g[i] = mine(i)
    BY <2>1
  <2>. QED
    BY <1>0, <2>2, <2>3
<1>. DEFINE good == {i \in 0..n : g[i] \in T}
<1>9. 0 \in good
  BY <1>0, <1>8 DEF T
<1>10. ASSUME NEW i \in 1..n, i - 1 \in good PROVE i \in good
  BY <1>0, <1>1, <1>8, <1>10
<1>11. n \in good
  <2>. HIDE DEF good
  <2>1. \A i \in 0..n : i \in good
    BY <1>0, <1>9, <1>10, UpTo
  <2>. QED
    BY <1>0, <2>1
<1>. QED
  BY <1>0, <1>6, <1>11 DEF T

\* The environment's directories are paths.
LEMMA EnvTyped == EnvPaths \in Seq(Paths)
<1>. DEFINE real == {p \in Paths : RealDir[p] # NULL}
            any == Paths \cup {""}
            named == Only(EnvList, ToSet(EnvList) \ {""})
<1>1. EnvList \in Seq(any)
  BY PathsAssumption
<1>. HIDE DEF any
<1>2. named \in Seq(any)
  BY <1>1, OnlyIs
<1>3. SplitPaths(EnvList, "kPruneNonExistent", real) = Only(named, real)
  BY DEF SplitPaths
<1>. HIDE DEF named
<1>4. Only(named, real) \in Seq(any) /\ ToSet(Only(named, real)) = ToSet(named) \cap real
  BY <1>2, OnlyIs
<1>. DEFINE c == Only(named, real)
<1>5. c \in Seq(any) /\ ToSet(c) \subseteq Paths
  BY <1>4
<1>. HIDE DEF c
<1>6. c \in Seq(Paths)
  <2>. DEFINE n == Len(c)
  <2>1. n \in Nat /\ c = [i \in 1..n |-> c[i]] /\ DOMAIN c = 1..n
    <3>. HIDE DEF any
    <3>. QED
      BY <1>5
  <2>2. \A i \in 1..n : c[i] \in Paths
    BY <1>5, <2>1 DEF ToSet
  <2>. HIDE DEF n
  <2>3. c \in [1..n -> Paths]
    BY <2>1, <2>2
  <2>. QED
    BY <2>1, <2>3
<1>. QED
  BY <1>3, <1>6 DEF EnvPaths, c

\* A manager starts with a search path.
LEMMA InitPaths == ManagerInit => m_SearchPaths \in Seq(SearchPathInfo)
<1>. SUFFICES ASSUME ManagerInit PROVE m_SearchPaths \in Seq(SearchPathInfo)
  OBVIOUS
<1>. DEFINE user == EnvPaths \o <<DotPath>>
            first == WithSearchPaths(<<>>, user, TRUE)
<1>1. user \in Seq(Paths) /\ SystemPaths \in Seq(Paths)
  <2>1. DotPath \in Paths /\ SystemPaths \in Seq(Paths)
    BY PathsAssumption, Zenon
  <2>2. <<DotPath>> \in Seq(Paths)
    BY <2>1
  <2>. QED
    BY <2>1, <2>2, EnvTyped
<1>2. m_SearchPaths = WithSearchPaths(first, SystemPaths, FALSE)
  BY DEF ManagerInit
<1>. HIDE DEF user
<1>3. first \in Seq(SearchPathInfo)
  <2>1. <<>> \in Seq(SearchPathInfo)
    OBVIOUS
  <2>. QED
    BY <1>1, <2>1, PathsTyped
<1>. HIDE DEF first
<1>. QED
  BY <1>1, <1>2, <1>3, PathsTyped

-----------------------------------------------------------------------------
(* What a scan does to the lists. *)

ListPairs == [user : Seq(Libs), system : Seq(Libs)]

\* No list has a library twice, and no library is in both.
NoDoubles(lists) ==
  /\ Distinct(lists.user) /\ Distinct(lists.system)
  /\ ToSet(lists.user) \cap ToSet(lists.system) = {}

\* A scan of one kind of path adds libraries that are not loaded to its list.
Extended(lists, sys, after) ==
  /\ after \in ListPairs
  /\ NoDoubles(lists) => NoDoubles(after)
  /\ IF sys THEN after.user = lists.user ELSE after.system = lists.system
  /\ Registered(lists) \subseteq Registered(after)
  /\ \A l \in Registered(after) : l \in Registered(lists) \/ ~isLibraryLoaded(l)

\* A library that need not be registered any more.
Covered(lists, l) == l \in Registered(lists) \/ ShouldPermanentlyIgnore(l) \/ l \in Pie

\* A scan may add nothing.
LEMMA ExtendedSelf ==
  ASSUME NEW lists \in ListPairs, NEW sys \in BOOLEAN
  PROVE  Extended(lists, sys, lists)
BY DEF Extended

\* Two scans of one kind are one.
LEMMA ExtendedOn ==
  ASSUME NEW a, NEW b, NEW c, NEW sys \in BOOLEAN, Extended(a, sys, b), Extended(b, sys, c)
  PROVE  Extended(a, sys, c)
BY DEF Extended

\* What is covered stays it.
LEMMA CoveredOn ==
  ASSUME NEW a, NEW b, NEW sys, Extended(a, sys, b), NEW l, Covered(a, l)
  PROVE  Covered(b, l)
BY DEF Extended, Covered

\* RegisterLib.
LEMMA Registering ==
  ASSUME NEW lists \in ListPairs, NEW sys \in BOOLEAN, NEW l \in Libs,
         l \notin Registered(lists), ~isLibraryLoaded(l)
  PROVE  /\ Extended(lists, sys, RegisterLib(lists, sys, l))
         /\ Registered(RegisterLib(lists, sys, l)) = Registered(lists) \cup {l}
<1>1. /\ lists.user \in Seq(Libs) /\ lists.system \in Seq(Libs)
      /\ lists = [user |-> lists.user, system |-> lists.system]
  BY DEF ListPairs
<1>2. l \notin ToSet(lists.user) /\ l \notin ToSet(lists.system)
  BY DEF Registered
<1>3. CASE sys
  <2>. DEFINE more == Append(lists.user, l)
              longer == Append(lists.system, l)
              after == RegisterLib(lists, sys, l)
  <2>1. after.user = lists.user /\ after.system = longer /\ after = [user |-> lists.user, system |-> longer]
    BY <1>1, <1>3 DEF RegisterLib
  <2>2. /\ longer \in Seq(Libs) /\ ToSet(longer) = ToSet(lists.system) \cup {l}
        /\ Distinct(lists.system) => Distinct(longer)
    BY <1>1, <1>2, Appended
  <2>. HIDE DEF longer, after
  <2>3. after \in ListPairs
    BY <1>1, <2>1, <2>2 DEF ListPairs
  <2>4. Registered(after) = Registered(lists) \cup {l}
    BY <2>1, <2>2 DEF Registered
  <2>5. NoDoubles(lists) => NoDoubles(after)
    BY <1>2, <2>1, <2>2 DEF NoDoubles
  <2>6. Extended(lists, sys, after)
    BY <1>3, <2>1, <2>3, <2>4, <2>5 DEF Extended
  <2>. QED
    BY <2>4, <2>6 DEF after
<1>4. CASE ~sys
  <2>. DEFINE longer == Append(lists.user, l)
              after == RegisterLib(lists, sys, l)
  <2>1. after.system = lists.system /\ after.user = longer /\ after = [user |-> longer, system |-> lists.system]
    BY <1>1, <1>4 DEF RegisterLib
  <2>2. /\ longer \in Seq(Libs) /\ ToSet(longer) = ToSet(lists.user) \cup {l}
        /\ Distinct(lists.user) => Distinct(longer)
    BY <1>1, <1>2, Appended
  <2>. HIDE DEF longer, after
  <2>3. after \in ListPairs
    BY <1>1, <2>1, <2>2 DEF ListPairs
  <2>4. Registered(after) = Registered(lists) \cup {l}
    BY <2>1, <2>2 DEF Registered
  <2>5. NoDoubles(lists) => NoDoubles(after)
    BY <1>2, <2>1, <2>2 DEF NoDoubles
  <2>6. Extended(lists, sys, after)
    BY <1>4, <2>1, <2>3, <2>4, <2>5 DEF Extended
  <2>. QED
    BY <2>4, <2>6 DEF after
<1>. QED
  BY <1>3, <1>4

-----------------------------------------------------------------------------
(* The walk over needed libraries. *)

\* A library's needs are listed.
LEMMA NeedsListed ==
  ASSUME NEW l \in Libs
  PROVE  \E k \in Nat : DOMAIN Needed[l] = 1..k
<1>. DEFINE e == Only(DynTab[l], {x \in ToSet(DynTab[l]) : x.tag = "DT_NEEDED"})
<1>1. DynTab[l] \in Seq(DynEntries)
  BY ObjectsAssumption, Zenon
<1>2. e \in Seq(DynEntries)
  BY <1>1, OnlyIs
<1>3. HandleDynTab(l, "DT_NEEDED") = [i \in DOMAIN e |-> e[i].val]
  BY DEF HandleDynTab
<1>. HIDE DEF e
<1>4. Len(e) \in Nat /\ DOMAIN e = 1..Len(e)
  BY <1>2
<1>5. DOMAIN Needed[l] = 1..Len(e)
  BY <1>3, <1>4 DEF Needed
<1>. QED
  BY <1>4, <1>5

\* The files HandleLib is called for.
Called == Libs \cup {NULL} \cup
  (UNION {{lookupDependency(Needed[l][i], RPath[l], RunPath[l]) : i \in DOMAIN Needed[l]} : l \in Libs})
LibCalls == [lib : Called, level : Nat]
Walks == [lists : ListPairs, due : Seq(LibCalls)]

\* A library's needs are calls one level further down, one for each.
LEMMA DependenciesTyped ==
  ASSUME NEW l \in Libs, NEW level \in Nat
  PROVE  /\ Dependencies(l, level) \in Seq(LibCalls)
         /\ DOMAIN Dependencies(l, level) = DOMAIN Needed[l]
<1>1. PICK k \in Nat : DOMAIN Needed[l] = 1..k
  BY NeedsListed
<1>. DEFINE call(i) == [lib |-> lookupDependency(Needed[l][i], RPath[l], RunPath[l]), level |-> level + 1]
<1>2. ASSUME NEW i \in 1..k PROVE call(i) \in LibCalls
  <2>. DEFINE x == lookupDependency(Needed[l][i], RPath[l], RunPath[l])
  <2>1. x \in Called
    BY <1>1 DEF Called
  <2>. HIDE DEF x
  <2>2. level + 1 \in Nat
    OBVIOUS
  <2>3. [lib |-> x, level |-> level + 1] \in LibCalls
    BY <2>1, <2>2 DEF LibCalls
  <2>. QED
    BY <2>3 DEF x
<1>3. Dependencies(l, level) = [i \in 1..k |-> call(i)]
  BY <1>1 DEF Dependencies
<1>. HIDE DEF call
<1>4. Dependencies(l, level) \in [1..k -> LibCalls]
  BY <1>2, <1>3
<1>. QED
  BY <1>1, <1>4

\* The needs that have not been followed.
Owed(l)     == {l} \X DOMAIN Needed[l]
Left(lists) == UNION {Owed(l) : l \in Libs \ Registered(lists)}
Pending(w)  == Len(w.due) + Cardinality(Left(w.lists))

\* A library owes one call for each of its needs.
LEMMA OwedCount ==
  ASSUME NEW l \in Libs, NEW k \in Nat, DOMAIN Needed[l] = 1..k
  PROVE  IsFiniteSet(Owed(l)) /\ Cardinality(Owed(l)) = k
<1>1. IsFiniteSet({l}) /\ Cardinality({l}) = 1
  BY FS_Singleton
<1>2. IsFiniteSet(1..k) /\ Cardinality(1..k) = k
  <2>1. IsFiniteSet(1..k) /\ Cardinality(1..k) = IF 1 > k THEN 0 ELSE k - 1 + 1
    BY FS_Interval
  <2>. QED
    BY <2>1
<1>3. IsFiniteSet({l} \X (1..k)) /\ Cardinality({l} \X (1..k)) = Cardinality({l}) * Cardinality(1..k)
  BY <1>1, <1>2, FS_Product
<1>4. Cardinality({l} \X (1..k)) = k
  BY <1>1, <1>2, <1>3
<1>. QED
  BY <1>3, <1>4 DEF Owed

\* Finitely many libraries owe finitely many calls.
LEMMA OwedFinite ==
  ASSUME NEW L \in SUBSET Libs
  PROVE  IsFiniteSet(UNION {Owed(l) : l \in L})
<1>. DEFINE T == {Owed(l) : l \in L}
            f == [l \in L |-> Owed(l)]
<1>1. IsFiniteSet(Libs)
  BY ObjectsAssumption, Zenon
<1>2. IsFiniteSet(L)
  BY <1>1, FS_Subset
<1>3. f \in Surjection(L, T)
  BY DEF Surjection
<1>4. IsFiniteSet(T)
  <2>. HIDE DEF f, T
  <2>. QED
    BY <1>2, <1>3, FS_Surjection
<1>5. \A l \in L : IsFiniteSet(Owed(l))
  BY NeedsListed, OwedCount
<1>6. \A o \in T : IsFiniteSet(o)
  BY <1>5
<1>. HIDE DEF T
<1>7. IsFiniteSet(UNION T)
  BY <1>4, <1>6, FS_UNION
<1>. QED
  BY <1>7 DEF T

\* So a walk has finitely many needs left to follow.
LEMMA LeftCount ==
  ASSUME NEW lists
  PROVE  IsFiniteSet(Left(lists)) /\ Cardinality(Left(lists)) \in Nat
<1>1. Libs \ Registered(lists) \in SUBSET Libs
  OBVIOUS
<1>2. IsFiniteSet(Left(lists))
  BY <1>1, OwedFinite DEF Left
<1>. QED
  BY <1>2, FS_CardinalityType

\* Registering a library takes its own needs off.
LEMMA LeftLess ==
  ASSUME NEW a, NEW b, NEW l \in Libs, l \notin Registered(a), Registered(b) = Registered(a) \cup {l},
         NEW k \in Nat, DOMAIN Needed[l] = 1..k
  PROVE  Cardinality(Left(b)) + k = Cardinality(Left(a))
<1>1. Left(a) = Left(b) \cup Owed(l)
  BY DEF Left
<1>2. Left(b) \cap Owed(l) = {}
  BY DEF Left, Owed
<1>3. IsFiniteSet(Left(b)) /\ Cardinality(Left(b)) \in Nat
  BY LeftCount
<1>4. IsFiniteSet(Owed(l)) /\ Cardinality(Owed(l)) = k
  BY OwedCount
<1>5. Cardinality(Left(a)) = Cardinality(Left(b)) + Cardinality(Owed(l)) - Cardinality(Left(b) \cap Owed(l))
  BY <1>1, <1>3, <1>4, FS_Union
<1>6. Cardinality(Left(b) \cap Owed(l)) = 0
  BY <1>2, FS_EmptySet
<1>. QED
  BY <1>3, <1>4, <1>5, <1>6

\* One call of HandleLib.
Turned(w, sys, t) ==
  /\ t \in Walks
  /\ Extended(w.lists, sys, t.lists)
  /\ \A c \in ToSet(w.due) : c \in ToSet(t.due) \/ Covered(t.lists, c.lib)

\* The head and the tail of what is due.
LEMMA DueSplit ==
  ASSUME NEW S, NEW s \in Seq(S), s # <<>>
  PROVE  /\ Head(s) \in S /\ Tail(s) \in Seq(S) /\ Len(Tail(s)) = Len(s) - 1 /\ Len(s) \in Nat
         /\ \A c \in ToSet(s) : c = Head(s) \/ c \in ToSet(Tail(s))
<1>1. /\ Head(s) \in S /\ Tail(s) \in Seq(S) /\ Len(Tail(s)) = Len(s) - 1 /\ Len(s) \in Nat
      /\ DOMAIN s = 1..Len(s) /\ DOMAIN Tail(s) = 1..(Len(s) - 1)
      /\ \A i \in 1..(Len(s) - 1) : Tail(s)[i] = s[i + 1]
      /\ Head(s) = s[1]
  OBVIOUS
<1>2. ASSUME NEW i \in 1..Len(s) PROVE s[i] = Head(s) \/ s[i] \in ToSet(Tail(s))
  <2>1. i = 1 \/ (i - 1 \in 1..(Len(s) - 1) /\ (i - 1) + 1 = i)
    BY <1>1
  <2>2. i - 1 \in 1..(Len(s) - 1) /\ (i - 1) + 1 = i => Tail(s)[i - 1] = s[i]
    BY <1>1
  <2>. QED
    BY <1>1, <2>1, <2>2 DEF ToSet
<1>3. \A c \in ToSet(s) : c = Head(s) \/ c \in ToSet(Tail(s))
  BY <1>1, <1>2 DEF ToSet
<1>. QED
  BY <1>1, <1>3

\* What is behind a prefix stays there.
LEMMA DueMore ==
  ASSUME NEW S, NEW a \in Seq(S), NEW b \in Seq(S)
  PROVE  a \o b \in Seq(S) /\ Len(a \o b) = Len(a) + Len(b) /\ ToSet(b) \subseteq ToSet(a \o b)
<1>1. /\ a \o b \in Seq(S) /\ Len(a \o b) = Len(a) + Len(b) /\ Len(a) \in Nat /\ Len(b) \in Nat
      /\ DOMAIN b = 1..Len(b) /\ DOMAIN (a \o b) = 1..(Len(a) + Len(b))
      /\ \A i \in 1..Len(b) : (a \o b)[Len(a) + i] = b[i]
  BY ConcatProperties
<1>2. \A i \in 1..Len(b) : Len(a) + i \in 1..(Len(a) + Len(b))
  BY <1>1
<1>3. ToSet(b) \subseteq ToSet(a \o b)
  BY <1>1, <1>2 DEF ToSet
<1>. QED
  BY <1>1, <1>3

\* A call extends the lists, covers its library, and leaves less to do.
LEMMA HandleTurn ==
  ASSUME NEW w \in Walks, NEW sys \in BOOLEAN
  PROVE  /\ Turned(w, sys, HandleLib(w, sys))
         /\ w.due = <<>> => HandleLib(w, sys) = w
         /\ w.due # <<>> => Pending(HandleLib(w, sys)) < Pending(w)
<1>. DEFINE t == HandleLib(w, sys)
<1>1. w.lists \in ListPairs /\ w.due \in Seq(LibCalls) /\ w = [lists |-> w.lists, due |-> w.due]
  BY DEF Walks
<1>2. CASE w.due = <<>>
  <2>1. t = w
    BY <1>2 DEF HandleLib
  <2>2. Turned(w, sys, w)
    BY <1>1, ExtendedSelf DEF Turned
  <2>. QED
    BY <1>2, <2>1, <2>2
<1>3. CASE w.due # <<>>
  <2>. DEFINE c == Head(w.due)
              rest == Tail(w.due)
              l == c.lib
              skip == \/ l \in Registered(w.lists)
                      \/ ShouldPermanentlyIgnore(l)
                      \/ c.level = 0 /\ l \in Pie
  <2>1. /\ c \in LibCalls /\ rest \in Seq(LibCalls) /\ Len(rest) = Len(w.due) - 1 /\ Len(w.due) \in Nat
        /\ \A x \in ToSet(w.due) : x = c \/ x \in ToSet(rest)
    BY <1>1, <1>3, DueSplit
  <2>2. t = IF skip THEN [lists |-> w.lists, due |-> rest]
            ELSE [lists |-> RegisterLib(w.lists, sys, l),
                  due   |-> (IF SkipsDeps(l) THEN <<>> ELSE Dependencies(l, c.level)) \o rest]
    BY <1>3 DEF HandleLib
  <2>3. c.level \in Nat
    BY <2>1 DEF LibCalls
  <2>. HIDE DEF c, rest, t
  <2>4. CASE skip
    <3>1. t.lists = w.lists /\ t.due = rest /\ t = [lists |-> w.lists, due |-> rest]
      BY <2>2, <2>4
    <3>2. t \in Walks
      BY <1>1, <2>1, <3>1 DEF Walks
    <3>3. Covered(w.lists, l)
      BY <2>4 DEF Covered
    <3>4. Turned(w, sys, t)
      BY <1>1, <2>1, <3>1, <3>2, <3>3, ExtendedSelf DEF Turned
    <3>5. Cardinality(Left(w.lists)) \in Nat
      BY LeftCount
    <3>6. Pending(t) < Pending(w)
      BY <2>1, <3>1, <3>5 DEF Pending
    <3>. QED
      BY <1>3, <3>4, <3>6 DEF t
  <2>5. CASE ~skip
    <3>. DEFINE now == RegisterLib(w.lists, sys, l)
                deps == IF SkipsDeps(l) THEN <<>> ELSE Dependencies(l, c.level)
    <3>1. l \in Libs /\ l \notin Registered(w.lists) /\ ~isLibraryLoaded(l)
      BY <2>5 DEF ShouldPermanentlyIgnore
    <3>2. t.lists = now /\ t.due = deps \o rest /\ t = [lists |-> now, due |-> deps \o rest]
      BY <2>2, <2>5
    <3>. HIDE DEF l, skip
    <3>3. Extended(w.lists, sys, now) /\ Registered(now) = Registered(w.lists) \cup {l}
      BY <1>1, <3>1, Registering
    <3>4. PICK k \in Nat : DOMAIN Needed[l] = 1..k
      BY <3>1, NeedsListed
    <3>5. deps \in Seq(LibCalls) /\ Len(deps) \in Nat /\ Len(deps) <= k
      <4>1. CASE SkipsDeps(l)
        <5>1. deps = <<>>
          BY <4>1
        <5>. HIDE DEF deps
        <5>. QED
          BY <3>4, <5>1
      <4>2. CASE ~SkipsDeps(l)
        <5>. DEFINE d == Dependencies(l, c.level)
        <5>1. deps = d
          BY <4>2
        <5>2. d \in Seq(LibCalls) /\ DOMAIN d = 1..k
          BY <2>3, <3>1, <3>4, DependenciesTyped
        <5>. HIDE DEF d, deps
        <5>3. Len(d) = k
          BY <5>2
        <5>. QED
          BY <5>1, <5>2, <5>3
      <4>. QED
        BY <4>1, <4>2
    <3>. HIDE DEF now, deps
    <3>6. deps \o rest \in Seq(LibCalls) /\ Len(deps \o rest) = Len(deps) + Len(rest)
          /\ ToSet(rest) \subseteq ToSet(deps \o rest)
      BY <2>1, <3>5, DueMore
    <3>7. t \in Walks
      BY <3>2, <3>3, <3>6 DEF Walks, Extended
    <3>8. Covered(now, l)
      BY <3>3 DEF Covered
    <3>9. Turned(w, sys, t)
      BY <2>1, <3>2, <3>3, <3>6, <3>7, <3>8 DEF Turned, l
    <3>10. Cardinality(Left(now)) + k = Cardinality(Left(w.lists)) /\ Cardinality(Left(now)) \in Nat
      BY <3>1, <3>3, <3>4, LeftLess, LeftCount
    <3>11. Len(rest) \in Nat
      BY <2>1
    <3>12. Len(t.due) = Len(deps) + (Len(w.due) - 1) /\ t.lists = now
      BY <2>1, <3>2, <3>6
    <3>13. Pending(t) < Pending(w)
      BY <2>1, <3>5, <3>10, <3>12 DEF Pending
    <3>. QED
      BY <1>3, <3>9, <3>13 DEF t
  <2>. QED
    BY <2>4, <2>5
<1>. QED
  BY <1>2, <1>3

\* HandleLibs's loop.
WalkTurns(start, sys, n, f) == [i \in 0..n |-> IF i = 0 THEN start ELSE HandleLib(f[i - 1], sys)]

WalkRun(start, sys, n, f) == f[0] = start /\ \A i \in 1..n : f[i] = HandleLib(f[i - 1], sys)

\* Any number of calls can be run one after the other.
LEMMA WalkRuns ==
  ASSUME NEW start \in Walks, NEW sys \in BOOLEAN, NEW n \in Nat
  PROVE  \E f : f = WalkTurns(start, sys, n, f)
<1>. DEFINE step == [p \in (1..n) \X Walks |-> HandleLib(p[2], sys)]
<1>1. \A w \in Walks : HandleLib(w, sys) \in Walks
  BY HandleTurn DEF Turned
<1>2. step \in [(1..n) \X Walks -> Walks]
  <2>1. \A p \in (1..n) \X Walks : HandleLib(p[2], sys) \in Walks
    BY <1>1
  <2>. QED
    BY <2>1
<1>3. \A i \in 1..n, w \in Walks : step[<<i, w>>] = HandleLib(w, sys)
  <2>1. \A i \in 1..n, w \in Walks : <<i, w>> \in (1..n) \X Walks /\ <<i, w>>[2] = w
    OBVIOUS
  <2>. QED
    BY <2>1
<1>. HIDE DEF step
<1>4. PICK h \in [0..n -> Walks] : Loop(n, start, step, h)
  BY <1>2, LoopRuns
<1>. DEFINE turn(i) == IF i = 0 THEN start ELSE step[<<i, h[i - 1]>>]
            mine(i) == IF i = 0 THEN start ELSE HandleLib(h[i - 1], sys)
<1>5. h = [i \in 0..n |-> turn(i)]
  BY <1>4 DEF Loop
<1>6. \A i \in 0..n : turn(i) = mine(i)
  BY <1>3
<1>. HIDE DEF turn, mine
<1>7. h = [i \in 0..n |-> mine(i)]
  BY <1>5, <1>6
<1>8. h = WalkTurns(start, sys, n, h)
  BY <1>7 DEF WalkTurns, mine
<1>. QED
  BY <1>8

\* And each of them starts from what the one before it left.
LEMMA WalkTurn ==
  ASSUME NEW start, NEW sys, NEW n \in Nat, NEW f, f = WalkTurns(start, sys, n, f)
  PROVE  WalkRun(start, sys, n, f)
<1>. DEFINE mine(i) == IF i = 0 THEN start ELSE HandleLib(f[i - 1], sys)
<1>1. f = [i \in 0..n |-> mine(i)]
  BY DEF WalkTurns
<1>2. mine(0) = start /\ \A i \in 1..n : mine(i) = HandleLib(f[i - 1], sys)
  OBVIOUS
<1>. HIDE DEF mine
<1>3. \A i \in 0..n : f[i] = mine(i)
  BY <1>1
<1>. QED
  BY <1>2, <1>3 DEF WalkRun

\* After i turns there is less than before, or nothing.
LEMMA WalkEnds ==
  ASSUME NEW start \in Walks, NEW sys \in BOOLEAN, NEW n \in Nat, Pending(start) <= n,
         NEW f, WalkRun(start, sys, n, f)
  PROVE  Turned(start, sys, f[n]) /\ f[n].due = <<>>
<1>. DEFINE Ok(i) == Turned(start, sys, f[i]) /\ (f[i].due = <<>> \/ Pending(f[i]) <= n - i)
            good == {i \in 0..n : Ok(i)}
<1>1. f[0] = start /\ \A i \in 1..n : f[i] = HandleLib(f[i - 1], sys)
  BY DEF WalkRun
<1>2. 0 \in good
  <2>1. Turned(start, sys, start)
    <3>1. start.lists \in ListPairs
      BY DEF Walks
    <3>. QED
      BY <3>1, ExtendedSelf DEF Turned
  <2>2. Pending(start) <= n - 0
    OBVIOUS
  <2>. QED
    BY <1>1, <2>1, <2>2
<1>. HIDE DEF Ok
<1>3. ASSUME NEW i \in 1..n, i - 1 \in good PROVE i \in good
  <2>. DEFINE w == f[i - 1]
              t == f[i]
  <2>1. Turned(start, sys, w) /\ (w.due = <<>> \/ Pending(w) <= n - (i - 1))
    BY <1>3 DEF Ok
  <2>2. t = HandleLib(w, sys)
    BY <1>1
  <2>3. w \in Walks
    BY <2>1 DEF Turned
  <2>. HIDE DEF w, t
  <2>4. /\ Turned(w, sys, t) /\ (w.due = <<>> => t = w)
        /\ w.due # <<>> => Pending(t) < Pending(w)
    BY <2>2, <2>3, HandleTurn
  <2>5. Turned(start, sys, t)
    <3>1. Extended(start.lists, sys, t.lists)
      BY <2>1, <2>4, ExtendedOn DEF Turned
    <3>2. ASSUME NEW c \in ToSet(start.due) PROVE c \in ToSet(t.due) \/ Covered(t.lists, c.lib)
      <4>1. CASE c \in ToSet(w.due)
        BY <4>1, <2>4 DEF Turned
      <4>2. CASE Covered(w.lists, c.lib)
        BY <4>2, <2>4, CoveredOn DEF Turned
      <4>. QED
        BY <2>1, <4>1, <4>2 DEF Turned
    <3>. QED
      BY <2>4, <3>1, <3>2 DEF Turned
  <2>6. t.due = <<>> \/ Pending(t) <= n - i
    <3>1. CASE w.due = <<>>
      BY <3>1, <2>4
    <3>2. CASE w.due # <<>>
      <4>1. Pending(w) \in Nat /\ Pending(t) \in Nat
        <5>1. Len(w.due) \in Nat /\ Len(t.due) \in Nat
          BY <2>3, <2>4 DEF Turned, Walks
        <5>2. Cardinality(Left(w.lists)) \in Nat /\ Cardinality(Left(t.lists)) \in Nat
          BY LeftCount
        <5>. QED
          BY <5>1, <5>2 DEF Pending
      <4>. QED
        BY <4>1, <3>2, <2>1, <2>4
    <3>. QED
      BY <3>1, <3>2
  <2>7. Ok(i)
    BY <2>5, <2>6 DEF Ok, t
  <2>. QED
    BY <2>7
<1>4. Ok(n)
  <2>. HIDE DEF good
  <2>1. \A i \in 0..n : i \in good
    BY <1>2, <1>3, UpTo
  <2>. QED
    BY <2>1 DEF good
<1>. DEFINE w == f[n]
<1>5. Turned(start, sys, w) /\ (w.due = <<>> \/ Pending(w) <= n - n)
  BY <1>4 DEF Ok
<1>. HIDE DEF w
<1>6. w.due = <<>>
  <2>1. w.due \in Seq(LibCalls)
    BY <1>5 DEF Turned, Walks
  <2>2. Cardinality(Left(w.lists)) \in Nat
    BY LeftCount
  <2>3. Len(w.due) \in Nat /\ (Len(w.due) = 0 => w.due = <<>>)
    BY <2>1
  <2>4. Pending(w) = Len(w.due) + Cardinality(Left(w.lists))
    BY DEF Pending
  <2>. QED
    BY <1>5, <2>2, <2>3, <2>4
<1>. QED
  BY <1>5, <1>6 DEF w

\* HandleLibs comes to all its calls.
LEMMA HandlesAll ==
  ASSUME NEW lists \in ListPairs, NEW sys \in BOOLEAN, NEW calls \in Seq(LibCalls)
  PROVE  /\ Extended(lists, sys, HandleLibs(lists, sys, calls))
         /\ \A c \in ToSet(calls) : Covered(HandleLibs(lists, sys, calls), c.lib)
<1>. DEFINE start == [lists |-> lists, due |-> calls]
            all == UNION {{l} \X DOMAIN Needed[l] : l \in Libs}
            n == Len(calls) + Cardinality(all)
<1>1. start \in Walks /\ start.due = calls /\ start.lists = lists
  BY DEF Walks
<1>2. IsFiniteSet(all) /\ Cardinality(all) \in Nat
  <2>1. IsFiniteSet(UNION {Owed(l) : l \in Libs})
    BY OwedFinite
  <2>2. all = UNION {Owed(l) : l \in Libs}
    BY DEF Owed
  <2>. HIDE DEF all
  <2>. QED
    BY <2>1, <2>2, FS_CardinalityType
<1>3. Cardinality(Left(lists)) <= Cardinality(all) /\ Cardinality(Left(lists)) \in Nat
  <2>1. Left(lists) \in SUBSET all
    BY DEF Left, Owed
  <2>. HIDE DEF all
  <2>. QED
    BY <1>2, <2>1, LeftCount, FS_Subset
<1>. DEFINE g == CHOOSE f : f = [i \in 0..(Len(calls) + Cardinality(UNION {{l} \X DOMAIN Needed[l] : l \in Libs})) |->
                                   IF i = 0 THEN [lists |-> lists, due |-> calls] ELSE HandleLib(f[i - 1], sys)]
<1>4. HandleLibs(lists, sys, calls) = g[n].lists
  BY DEF HandleLibs
<1>5. g = CHOOSE f : f = WalkTurns(start, sys, n, f)
  BY DEF WalkTurns
<1>. HIDE DEF g, all, start
<1>6. n \in Nat /\ Pending(start) <= n
  <2>1. Len(calls) \in Nat
    OBVIOUS
  <2>. QED
    BY <1>1, <1>2, <1>3, <2>1 DEF Pending
<1>. HIDE DEF n
<1>7. g = WalkTurns(start, sys, n, g)
  <2>1. \E f : f = WalkTurns(start, sys, n, f)
    BY <1>1, <1>6, WalkRuns
  <2>. QED
    BY <1>5, <2>1
<1>8. WalkRun(start, sys, n, g)
  BY <1>6, <1>7, WalkTurn
<1>9. Turned(start, sys, g[n]) /\ g[n].due = <<>>
  BY <1>1, <1>6, <1>8, WalkEnds
<1>. DEFINE t == g[n]
<1>10. Turned(start, sys, t) /\ t.due = <<>>
  BY <1>9
<1>11. HandleLibs(lists, sys, calls) = t.lists
  BY <1>4
<1>. HIDE DEF t
<1>12. ToSet(t.due) = {}
  BY <1>10 DEF ToSet
<1>. QED
  BY <1>1, <1>10, <1>11, <1>12 DEF Turned

-----------------------------------------------------------------------------
(* Scanning directories. *)

\* NULL names no library.
LEMMA NullIsNoLib == NULL \notin Libs
BY NamesAssumption DEF Stems, Names

\* An entry leads to a library or nowhere.
LEMMA EntryTyped ==
  ASSUME NEW d \in Dirs, NEW n \in FileNames
  PROVE  EntryAt(d, n) \in Libs \cup {NULL}
<1>1. <<d, n>> \in Dirs \X FileNames
  OBVIOUS
<1>2. At[<<d, n>>] \in Libs \cup {NULL}
  BY <1>1, FilesAssumption
<1>. QED
  BY <1>2 DEF EntryAt

\* Nothing of a directory is left out.
LEMMA DirScanned ==
  ASSUME NEW lists \in ListPairs, NEW sys \in BOOLEAN, NEW d \in Dirs
  PROVE  /\ Extended(lists, sys, ScanDir(lists, sys, d))
         /\ \A n \in FileNames : Covered(ScanDir(lists, sys, d), EntryAt(d, n))
<1>. DEFINE order == DirOrder[d]
            call(i) == [lib |-> EntryAt(d, order[i]), level |-> 0]
            calls == [i \in DOMAIN order |-> call(i)]
            after == ScanDir(lists, sys, d)
<1>1. order \in Seq(FileNames) /\ \A n \in FileNames : At[<<d, n>>] # NULL => n \in ToSet(order)
  BY ObjectsAssumption
<1>2. after = HandleLibs(lists, sys, calls)
  BY DEF ScanDir
<1>. HIDE DEF order, after
<1>3. Len(order) \in Nat /\ DOMAIN order = 1..Len(order) /\ \A i \in DOMAIN order : order[i] \in FileNames
  BY <1>1
<1>4. ASSUME NEW i \in DOMAIN order PROVE call(i) \in LibCalls
  <2>1. EntryAt(d, order[i]) \in Called
    BY <1>3, EntryTyped DEF Called
  <2>. QED
    BY <2>1 DEF LibCalls
<1>5. calls \in Seq(LibCalls)
  <2>. HIDE DEF call
  <2>1. calls \in [1..Len(order) -> LibCalls]
    BY <1>3, <1>4
  <2>. QED
    BY <1>3, <2>1
<1>6. \A i \in DOMAIN order : calls[i] = call(i) /\ calls[i] \in ToSet(calls)
  BY DEF ToSet
<1>. HIDE DEF calls
<1>7. Extended(lists, sys, after) /\ \A c \in ToSet(calls) : Covered(after, c.lib)
  BY <1>2, <1>5, HandlesAll
<1>8. ASSUME NEW n \in FileNames PROVE Covered(after, EntryAt(d, n))
  <2>1. CASE EntryAt(d, n) \notin Libs
    BY <2>1 DEF Covered, ShouldPermanentlyIgnore
  <2>2. CASE EntryAt(d, n) \in Libs
    <3>1. At[<<d, n>>] # NULL
      BY <2>2, NullIsNoLib DEF EntryAt
    <3>2. PICK i \in DOMAIN order : order[i] = n
      BY <1>1, <3>1 DEF ToSet
    <3>a. calls[i] \in ToSet(calls) /\ calls[i] = call(i)
      BY <1>6
    <3>b. call(i).lib = EntryAt(d, order[i])
      OBVIOUS
    <3>. HIDE DEF call
    <3>3. calls[i] \in ToSet(calls) /\ calls[i].lib = EntryAt(d, n)
      BY <3>a, <3>b, <3>2
    <3>. QED
      BY <1>7, <3>3
  <2>. QED
    BY <2>1, <2>2
<1>. QED
  BY <1>7, <1>8 DEF after

Scans == [scanned : SUBSET Dirs, lists : ListPairs]

\* The directories that were scanned hold nothing that is left out.
ScannedWhole(a) == \A d \in a.scanned, n \in FileNames : Covered(a.lists, EntryAt(d, n))

\* A path needs no scan any more.
PathDone(a, sys, info) ==
  info.IsUser = sys \/ RealDir[info.Path] = NULL \/ RealDir[info.Path] \in a.scanned

\* One path.
LEMMA ScanTurn ==
  ASSUME NEW a \in Scans, NEW sys \in BOOLEAN, NEW info \in SearchPathInfo, ScannedWhole(a)
  PROVE  /\ ScanPath(a, sys, info) \in Scans /\ ScannedWhole(ScanPath(a, sys, info))
         /\ Extended(a.lists, sys, ScanPath(a, sys, info).lists)
         /\ a.scanned \subseteq ScanPath(a, sys, info).scanned
         /\ PathDone(ScanPath(a, sys, info), sys, info)
<1>. DEFINE d == RealDir[info.Path]
            b == ScanPath(a, sys, info)
            lists == a.lists
            found == ScanDir(lists, sys, d)
<1>1. a.scanned \subseteq Dirs /\ lists \in ListPairs /\ a = [scanned |-> a.scanned, lists |-> lists]
  BY DEF Scans
<1>2. d \in Dirs \cup {NULL}
  <2>1. info.Path \in Paths
    BY DEF SearchPathInfo
  <2>. QED
    BY <2>1, FilesAssumption
<1>3. CASE info.IsUser = sys \/ d = NULL \/ d \in a.scanned
  <2>1. b = a
    BY <1>3 DEF ScanPath, ScanOnce
  <2>2. PathDone(a, sys, info)
    BY <1>3 DEF PathDone
  <2>3. Extended(lists, sys, lists)
    BY <1>1, ExtendedSelf
  <2>. QED
    BY <2>1, <2>2, <2>3
<1>4. CASE ~(info.IsUser = sys \/ d = NULL \/ d \in a.scanned)
  <2>1. b.scanned = a.scanned \cup {d} /\ b.lists = found /\ b = [scanned |-> a.scanned \cup {d}, lists |-> found]
    BY <1>4 DEF ScanPath, ScanOnce
  <2>2. d \in Dirs
    BY <1>2, <1>4
  <2>. HIDE DEF d, b
  <2>3. Extended(lists, sys, found) /\ \A n \in FileNames : Covered(found, EntryAt(d, n))
    BY <1>1, <2>2, DirScanned
  <2>. HIDE DEF found
  <2>4. b \in Scans
    BY <1>1, <2>1, <2>2, <2>3 DEF Scans, Extended
  <2>5. ASSUME NEW e \in b.scanned, NEW n \in FileNames PROVE Covered(b.lists, EntryAt(e, n))
    <3>1. CASE e = d
      BY <2>1, <2>3, <3>1
    <3>2. CASE e \in a.scanned
      <4>1. Covered(lists, EntryAt(e, n))
        BY <3>2 DEF ScannedWhole
      <4>. QED
        BY <4>1, <2>1, <2>3, CoveredOn
    <3>. QED
      BY <2>1, <3>1, <3>2
  <2>6. PathDone(b, sys, info)
    BY <2>1 DEF PathDone, d
  <2>. QED
    BY <2>1, <2>3, <2>4, <2>5, <2>6 DEF ScannedWhole, b
<1>. QED
  BY <1>3, <1>4

\* ScanForLibraries's loop.
ScanTurns(start, sys, n, f) ==
  [i \in 0..n |-> IF i = 0 THEN start ELSE ScanPath(f[i - 1], sys, m_SearchPaths[i])]

\* The loop over the search path can be run.
LEMMA ScanRuns ==
  ASSUME m_SearchPaths \in Seq(SearchPathInfo), NEW sys \in BOOLEAN, NEW start \in Scans, ScannedWhole(start),
         NEW n \in Nat, n = Len(m_SearchPaths)
  PROVE  \E f : f = ScanTurns(start, sys, n, f)
<1>. DEFINE W == {a \in Scans : ScannedWhole(a)}
            step == [p \in (1..n) \X W |-> ScanPath(p[2], sys, m_SearchPaths[p[1]])]
<1>0. \A i \in 1..n : m_SearchPaths[i] \in SearchPathInfo
  OBVIOUS
<1>1. \A i \in 1..n, a \in W : ScanPath(a, sys, m_SearchPaths[i]) \in W
  BY <1>0, ScanTurn
<1>a. start \in W
  OBVIOUS
<1>. HIDE DEF W
<1>2. step \in [(1..n) \X W -> W]
  <2>1. \A p \in (1..n) \X W : ScanPath(p[2], sys, m_SearchPaths[p[1]]) \in W
    BY <1>1
  <2>. QED
    BY <2>1
<1>3. \A i \in 1..n, a \in W : step[<<i, a>>] = ScanPath(a, sys, m_SearchPaths[i])
  <2>1. \A i \in 1..n, a \in W : <<i, a>> \in (1..n) \X W /\ <<i, a>>[2] = a /\ <<i, a>>[1] = i
    OBVIOUS
  <2>. QED
    BY <2>1
<1>. HIDE DEF step
<1>4. PICK h \in [0..n -> W] : Loop(n, start, step, h)
  BY <1>2, <1>a, LoopRuns
<1>. DEFINE turn(i) == IF i = 0 THEN start ELSE step[<<i, h[i - 1]>>]
            mine(i) == IF i = 0 THEN start ELSE ScanPath(h[i - 1], sys, m_SearchPaths[i])
<1>5. h = [i \in 0..n |-> turn(i)]
  BY <1>4 DEF Loop
<1>6. \A i \in 0..n : turn(i) = mine(i)
  BY <1>3
<1>. HIDE DEF turn, mine
<1>7. h = [i \in 0..n |-> mine(i)]
  BY <1>5, <1>6
<1>8. h = ScanTurns(start, sys, n, h)
  BY <1>7 DEF ScanTurns, mine
<1>. QED
  BY <1>8

ScanRun(start, sys, n, f) ==
  f[0] = start /\ \A i \in 1..n : f[i] = ScanPath(f[i - 1], sys, m_SearchPaths[i])

\* And each turn starts from what the one before it left.
LEMMA ScanTurnOf ==
  ASSUME NEW start, NEW sys, NEW n \in Nat, NEW f, f = ScanTurns(start, sys, n, f)
  PROVE  ScanRun(start, sys, n, f)
<1>. DEFINE mine(i) == IF i = 0 THEN start ELSE ScanPath(f[i - 1], sys, m_SearchPaths[i])
<1>1. f = [i \in 0..n |-> mine(i)]
  BY DEF ScanTurns
<1>2. mine(0) = start /\ \A i \in 1..n : mine(i) = ScanPath(f[i - 1], sys, m_SearchPaths[i])
  OBVIOUS
<1>. HIDE DEF mine
<1>3. \A i \in 0..n : f[i] = mine(i)
  BY <1>1
<1>. QED
  BY <1>2, <1>3 DEF ScanRun

\* A scan adds what it finds, and leaves out nothing on the path.
LEMMA ScanFinds ==
  ASSUME m_SearchPaths \in Seq(SearchPathInfo), NEW lists \in ListPairs, NEW sys \in BOOLEAN
  PROVE  /\ Extended(lists, sys, ScanForLibraries(lists, sys))
         /\ \A u \in BOOLEAN : \A l : u # sys /\ l \in OnPath(u) => Covered(ScanForLibraries(lists, sys), l)
<1>. DEFINE start == [scanned |-> {}, lists |-> lists]
            n == Len(m_SearchPaths)
            g == CHOOSE f : f = [i \in 0..Len(m_SearchPaths) |->
                                   IF i = 0 THEN [scanned |-> {}, lists |-> lists]
                                   ELSE ScanPath(f[i - 1], sys, m_SearchPaths[i])]
<1>1. ScanForLibraries(lists, sys) = g[n].lists
  BY DEF ScanForLibraries
<1>2. g = CHOOSE f : f = ScanTurns(start, sys, n, f)
  BY DEF ScanTurns
<1>3. start \in Scans /\ ScannedWhole(start) /\ start.lists = lists
  BY DEF Scans, ScannedWhole
<1>4. n \in Nat /\ n = Len(m_SearchPaths) /\ DOMAIN m_SearchPaths = 1..n /\ \A i \in 1..n : m_SearchPaths[i] \in SearchPathInfo
  OBVIOUS
<1>. HIDE DEF g, start, n
<1>5. g = ScanTurns(start, sys, n, g)
  <2>1. \E f : f = ScanTurns(start, sys, n, f)
    BY <1>3, <1>4, ScanRuns
  <2>. QED
    BY <1>2, <2>1
<1>6. g[0] = start /\ \A i \in 1..n : g[i] = ScanPath(g[i - 1], sys, m_SearchPaths[i])
  <2>1. ScanRun(start, sys, n, g)
    BY <1>4, <1>5, ScanTurnOf
  <2>. QED
    BY <2>1 DEF ScanRun
<1>. DEFINE Ok(i, a) == /\ a \in Scans /\ ScannedWhole(a) /\ Extended(lists, sys, a.lists)
                        /\ \A j \in 1..i : PathDone(a, sys, m_SearchPaths[j])
            good == {i \in 0..n : Ok(i, g[i])}
<1>7. 0 \in good
  <2>1. Extended(lists, sys, lists)
    BY ExtendedSelf
  <2>. QED
    BY <1>3, <1>4, <1>6, <2>1
<1>8. ASSUME NEW i \in 1..n, i - 1 \in good PROVE i \in good
  <2>. DEFINE a == g[i - 1]
              b == g[i]
  <2>1. Ok(i - 1, a)
    BY <1>8
  <2>2. b = ScanPath(a, sys, m_SearchPaths[i]) /\ m_SearchPaths[i] \in SearchPathInfo
    BY <1>4, <1>6
  <2>. HIDE DEF a, b
  <2>3. /\ b \in Scans /\ ScannedWhole(b) /\ Extended(a.lists, sys, b.lists)
        /\ a.scanned \subseteq b.scanned /\ PathDone(b, sys, m_SearchPaths[i])
    BY <2>1, <2>2, ScanTurn
  <2>4. Extended(lists, sys, b.lists)
    BY <2>1, <2>3, ExtendedOn
  <2>5. ASSUME NEW j \in 1..i PROVE PathDone(b, sys, m_SearchPaths[j])
    <3>1. j = i \/ j \in 1..(i - 1)
      BY <1>4
    <3>. QED
      BY <2>1, <2>3, <3>1 DEF PathDone
  <2>6. i \in 0..n
    BY <1>4
  <2>7. Ok(i, b)
    BY <2>3, <2>4, <2>5
  <2>. QED
    BY <2>6, <2>7 DEF b
<1>9. Ok(n, g[n])
  <2>. HIDE DEF Ok
  <2>1. \A i \in 0..n : i \in good
    <3>. HIDE DEF good
    <3>. QED
      BY <1>4, <1>7, <1>8, UpTo
  <2>2. n \in 0..n
    BY <1>4
  <2>. QED
    BY <2>1, <2>2
<1>. DEFINE a == g[n]
<1>10. Ok(n, a) /\ ScanForLibraries(lists, sys) = a.lists
  BY <1>1, <1>9
<1>. HIDE DEF a
<1>11. ASSUME NEW u \in BOOLEAN, u # sys, NEW l \in OnPath(u) PROVE Covered(a.lists, l)
  <2>1. PICK j \in DOMAIN m_SearchPaths, name \in FileNames :
          m_SearchPaths[j].IsUser = u /\ l = EntryAt(RealDir[m_SearchPaths[j].Path], name)
    BY DEF OnPath
  <2>2. PathDone(a, sys, m_SearchPaths[j])
    BY <1>4, <1>10, <2>1
  <2>3. CASE RealDir[m_SearchPaths[j].Path] = NULL
    <3>1. l = NULL
      BY <2>1, <2>3 DEF EntryAt
    <3>. QED
      BY <3>1, NullIsNoLib DEF Covered, ShouldPermanentlyIgnore
  <2>4. CASE RealDir[m_SearchPaths[j].Path] \in a.scanned
    BY <1>10, <2>1, <2>4 DEF ScannedWhole
  <2>. QED
    BY <1>11, <2>1, <2>2, <2>3, <2>4 DEF PathDone
<1>. QED
  BY <1>10, <1>11

-----------------------------------------------------------------------------
(* One search. *)

UserPath   == OnPath(TRUE)
SystemPath == OnPath(FALSE)
ScanUser(lists)   == ScanForLibraries(lists, FALSE)
ScanSystem(lists) == ScanForLibraries(lists, TRUE)
FirstUser(list, s)   == FirstWith(list, s, FALSE)
FirstSystem(list, s) == FirstWith(list, s, TRUE)

\* A library that no search has to offer.
Excused(l) == ShouldPermanentlyIgnore(l) \/ l \in Pie

\* A scan of the user paths and one of the system's.
LEMMA UserScan ==
  ASSUME m_SearchPaths \in Seq(SearchPathInfo), NEW a \in ListPairs, NEW b, b = ScanUser(a)
  PROVE  /\ b \in ListPairs /\ b.system = a.system
         /\ NoDoubles(a) => NoDoubles(b)
         /\ \A l \in Registered(b) : l \in Registered(a) \/ ~isLibraryLoaded(l)
         /\ \A l \in UserPath : Covered(b, l)
<1>1. PICK sys \in BOOLEAN, u \in BOOLEAN : sys = FALSE /\ u = TRUE
  OBVIOUS
<1>2. b = ScanForLibraries(a, sys)
  BY <1>1 DEF ScanUser
<1>3. /\ Extended(a, sys, ScanForLibraries(a, sys))
      /\ \A l : u # sys /\ l \in OnPath(u) => Covered(ScanForLibraries(a, sys), l)
  BY ScanFinds
<1>4. Extended(a, sys, b) /\ \A l : u # sys /\ l \in OnPath(u) => Covered(b, l)
  BY <1>2, <1>3
<1>5. UserPath = OnPath(u)
  BY <1>1 DEF UserPath
<1>. QED
  BY <1>1, <1>4, <1>5 DEF Extended

\* The system's scan leaves the users' list alone.
LEMMA SystemScan ==
  ASSUME m_SearchPaths \in Seq(SearchPathInfo), NEW a \in ListPairs, NEW b, b = ScanSystem(a)
  PROVE  /\ b \in ListPairs /\ b.user = a.user
         /\ NoDoubles(a) => NoDoubles(b)
         /\ \A l \in Registered(b) : l \in Registered(a) \/ ~isLibraryLoaded(l)
         /\ \A l \in SystemPath : Covered(b, l)
<1>1. PICK sys \in BOOLEAN, u \in BOOLEAN : sys = TRUE /\ u = FALSE
  OBVIOUS
<1>2. b = ScanForLibraries(a, sys)
  BY <1>1 DEF ScanSystem
<1>3. /\ Extended(a, sys, ScanForLibraries(a, sys))
      /\ \A l : u # sys /\ l \in OnPath(u) => Covered(ScanForLibraries(a, sys), l)
  BY ScanFinds
<1>4. Extended(a, sys, b) /\ \A l : u # sys /\ l \in OnPath(u) => Covered(b, l)
  BY <1>2, <1>3
<1>5. SystemPath = OnPath(u)
  BY <1>1 DEF SystemPath
<1>. QED
  BY <1>1, <1>4, <1>5 DEF Extended

\* What was returned and is loaded is dropped, and nothing else.
LEMMA Dropping ==
  ASSUME NEW a \in ListPairs, NEW b, b = DropLoaded(a)
  PROVE  /\ b \in ListPairs
         /\ NoDoubles(a) => NoDoubles(b)
         /\ ToSet(b.user) = {l \in ToSet(a.user) : ~(l \in m_QueriedLibraries /\ isLibraryLoaded(l))}
         /\ ToSet(b.system) = {l \in ToSet(a.system) : ~(l \in m_QueriedLibraries /\ isLibraryLoaded(l))}
         /\ a.system = <<>> => b.system = <<>>
<1>. DEFINE K == Libs \ {l \in m_QueriedLibraries : isLibraryLoaded(l)}
            u == Only(a.user, K)
            s == Only(a.system, K)
<1>1. a.user \in Seq(Libs) /\ a.system \in Seq(Libs)
  BY DEF ListPairs
<1>2. b = [user |-> u, system |-> s] /\ b.user = u /\ b.system = s
  BY DEF DropLoaded
<1>3. /\ u \in Seq(Libs) /\ ToSet(u) = ToSet(a.user) \cap K
      /\ Distinct(a.user) => Distinct(u)
  <2>. HIDE DEF K
  <2>. QED
    BY <1>1, OnlyIs
<1>4. /\ s \in Seq(Libs) /\ ToSet(s) = ToSet(a.system) \cap K
      /\ Distinct(a.system) => Distinct(s)
  <2>. HIDE DEF K
  <2>. QED
    BY <1>1, OnlyIs
<1>. HIDE DEF u, s
<1>5. ToSet(a.user) \subseteq Libs /\ ToSet(a.system) \subseteq Libs
  BY <1>1 DEF ToSet
<1>6. b \in ListPairs
  BY <1>2, <1>3, <1>4 DEF ListPairs
<1>7. NoDoubles(a) => NoDoubles(b)
  BY <1>2, <1>3, <1>4 DEF NoDoubles
<1>8. a.system = <<>> => s = <<>>
  <2>1. a.system = <<>> => ToSet(a.system) = {}
    BY DEF ToSet
  <2>2. ToSet(s) = {} => s = <<>>
    BY <1>4 DEF ToSet
  <2>. QED
    BY <1>4, <2>1, <2>2
<1>. QED
  BY <1>2, <1>3, <1>4, <1>5, <1>6, <1>7, <1>8

\* The first library of a list that has a symbol, if one has.
LEMMA FirstWithIs ==
  ASSUME NEW list \in Seq(Libs), NEW s, NEW weak
  PROVE  /\ FirstWith(list, s, weak) = NULL => \A l \in ToSet(list) : ~ContainsSymbol(l, s, weak)
         /\ FirstWith(list, s, weak) # NULL => FirstWith(list, s, weak) \in ToSet(list)
<1>. DEFINE with == {i \in DOMAIN list : ContainsSymbol(list[i], s, weak)}
<1>1. CASE with = {}
  <2>1. FirstWith(list, s, weak) = NULL
    BY <1>1 DEF FirstWith
  <2>. QED
    BY <1>1, <2>1 DEF ToSet
<1>2. CASE with # {}
  <2>1. with \in SUBSET Nat /\ with \subseteq DOMAIN list
    OBVIOUS
  <2>2. FirstWith(list, s, weak) = list[Min(with)]
    BY <1>2 DEF FirstWith
  <2>. HIDE DEF with
  <2>3. Min(with) \in with
    <3>1. \E x \in with : \A y \in with : x <= y
      BY <1>2, <2>1, Least
    <3>. QED
      BY <3>1 DEF Min
  <2>4. list[Min(with)] \in Libs /\ list[Min(with)] \in ToSet(list)
    BY <2>1, <2>3 DEF ToSet
  <2>. QED
    BY <2>2, <2>4, NullIsNoLib
<1>. QED
  BY <1>1, <1>2

\* A library that exports a symbol is found to have it.
LEMMA ExportsFound ==
  ASSUME NEW l \in Libs, NEW s, s \in Dyn[l], NEW weak
  PROVE  ContainsSymbol(l, s, weak)
<1>1. Dyn[l] \subseteq GnuHash[l]
  BY ObjectsAssumption, Zenon
<1>. QED
  BY <1>1 DEF ContainsSymbol, SymbolTable

\* The users' list is searched without the weak symbols.
LEMMA FirstUserIs ==
  ASSUME NEW list \in Seq(Libs), NEW s
  PROVE  /\ FirstUser(list, s) = NULL => \A l \in ToSet(list) : s \notin Dyn[l]
         /\ FirstUser(list, s) # NULL => FirstUser(list, s) \in ToSet(list)
<1>1. PICK weak : weak = FALSE
  OBVIOUS
<1>2. FirstUser(list, s) = FirstWith(list, s, weak)
  BY <1>1 DEF FirstUser
<1>3. ToSet(list) \subseteq Libs
  BY DEF ToSet
<1>. QED
  BY <1>2, <1>3, FirstWithIs, ExportsFound

\* The system's list is searched with them.
LEMMA FirstSystemIs ==
  ASSUME NEW list \in Seq(Libs), NEW s
  PROVE  /\ FirstSystem(list, s) = NULL => \A l \in ToSet(list) : s \notin Dyn[l]
         /\ FirstSystem(list, s) # NULL => FirstSystem(list, s) \in ToSet(list)
<1>1. PICK weak : weak = TRUE
  OBVIOUS
<1>2. FirstSystem(list, s) = FirstWith(list, s, weak)
  BY <1>1 DEF FirstSystem
<1>3. ToSet(list) \subseteq Libs
  BY DEF ToSet
<1>. QED
  BY <1>2, <1>3, FirstWithIs, ExportsFound

-----------------------------------------------------------------------------
(* The inductive invariant.  That a search is complete needs to know that  *)
(* the lists, once filled, hold whatever the path offers, as long as they  *)
(* are fresh; and that the system's list is empty before its scan.         *)

\* A search answers for the whole path.
AnswerRight ==
  ~stale /\ query # NULL =>
    /\ query.answer = NULL =>
         /\ \A l \in UserPath : Excused(l) \/ query.name \notin Dyn[l]
         /\ query.searchSystem => \A l \in SystemPath : Excused(l) \/ query.name \notin Dyn[l]
    /\ query.answer \in ToSet(m_SysLibraries) =>
         \A l \in UserPath : Excused(l) \/ query.name \notin Dyn[l]

ScansInOrder ==
  /\ m_FirstRun => m_FirstRunSysLib
  /\ m_FirstRunSysLib => m_SysLibraries = <<>>

UserFound   == ~stale /\ ~m_FirstRun =>
                 \A l \in UserPath : l \in ToSet(m_Libraries) \/ Excused(l)
SystemFound == ~stale /\ ~m_FirstRunSysLib => \A l \in SystemPath : Covered(Lists, l)

SearchInv ==
  /\ SearchTypeOK /\ BooksInv
  /\ NoDoubles(Lists) /\ ScansInOrder
  /\ UserFound /\ SystemFound /\ AnswerRight

\* Nothing has been scanned or asked.
LEMMA SearchInvInit == SearchInit => SearchInv
<1>. SUFFICES ASSUME SearchInit PROVE SearchInv
  OBVIOUS
<1>1. ManagerInit
  BY DEF SearchInit
<1>2. BooksInv /\ m_SearchPaths \in Seq(SearchPathInfo)
  BY <1>1, InitBooks, InitPaths
<1>3. ManagerTypeOK
  BY <1>2 DEF ManagerTypeOK, BooksInv
<1>4. /\ m_FirstRun = TRUE /\ m_FirstRunSysLib = TRUE
      /\ m_Libraries = <<>> /\ m_SysLibraries = <<>> /\ m_QueriedLibraries = {}
      /\ query = NULL /\ stale = FALSE
  BY DEF SearchInit
<1>5. SearchTypeOK
  <2>1. m_FirstRun \in BOOLEAN /\ m_FirstRunSysLib \in BOOLEAN /\ stale \in BOOLEAN
    BY <1>4
  <2>2. m_Libraries \in Seq(Libs) /\ m_SysLibraries \in Seq(Libs)
    BY <1>4
  <2>3. m_QueriedLibraries \subseteq Libs /\ query \in Query \cup {NULL}
    BY <1>4, Zenon
  <2>. QED
    BY <1>3, <2>1, <2>2, <2>3, Zenon DEF SearchTypeOK
<1>6. NoDoubles(Lists)
  <2>1. Lists.user = <<>> /\ Lists.system = <<>>
    BY <1>4 DEF Lists
  <2>2. Distinct(<<>>) /\ ToSet(<<>>) = {}
    BY DEF Distinct, ToSet
  <2>. QED
    BY <2>1, <2>2 DEF NoDoubles
<1>7. ScansInOrder /\ UserFound /\ SystemFound /\ AnswerRight
  BY <1>4 DEF ScansInOrder, UserFound, SystemFound, AnswerRight
<1>. QED
  BY <1>2, <1>5, <1>6, <1>7 DEF SearchInv

\* What a search works with.
LEMMA SearchFacts ==
  ASSUME SearchInv,
         NEW found, found = DropLoaded(IF m_FirstRun THEN ScanForLibraries(Lists, FALSE) ELSE Lists),
         NEW all, all = IF m_FirstRunSysLib THEN ScanForLibraries(found, TRUE) ELSE found
  PROVE  /\ found \in ListPairs /\ NoDoubles(found) /\ (m_FirstRunSysLib => found.system = <<>>)
         /\ all \in ListPairs /\ NoDoubles(all) /\ all.user = found.user
         /\ ~m_FirstRunSysLib => all = found
         /\ ~stale => \A l \in UserPath : l \in ToSet(found.user) \/ Excused(l)
         /\ ~stale => \A l \in SystemPath : Covered(all, l)
         /\ \A l \in Registered(found) \cup Registered(all) : l \in m_QueriedLibraries => ~isLibraryLoaded(l)
<1>. DEFINE first == IF m_FirstRun THEN ScanUser(Lists) ELSE Lists
<1>1. found = DropLoaded(first)
  BY DEF ScanUser
<1>2. all = IF m_FirstRunSysLib THEN ScanSystem(found) ELSE found
  BY DEF ScanSystem
<1>3. /\ m_SearchPaths \in Seq(SearchPathInfo) /\ Lists \in ListPairs
      /\ Lists.user = m_Libraries /\ Lists.system = m_SysLibraries
      /\ m_FirstRun \in BOOLEAN /\ m_FirstRunSysLib \in BOOLEAN /\ stale \in BOOLEAN
  BY DEF SearchInv, SearchTypeOK, ManagerTypeOK, ListPairs, Lists
<1>4. NoDoubles(Lists) /\ ScansInOrder /\ UserFound /\ SystemFound
  BY DEF SearchInv
<1>5. /\ first \in ListPairs /\ NoDoubles(first) /\ first.system = m_SysLibraries
      /\ m_FirstRun => \A l \in UserPath : Covered(first, l)
      /\ ~m_FirstRun => first = Lists
  <2>1. CASE m_FirstRun
    <3>1. first = ScanUser(Lists)
      BY <2>1
    <3>. HIDE DEF first
    <3>. QED
      BY <2>1, <3>1, <1>3, <1>4, UserScan
  <2>2. CASE ~m_FirstRun
    BY <2>2, <1>3, <1>4
  <2>. QED
    BY <2>1, <2>2
<1>. HIDE DEF first
<1>6. /\ found \in ListPairs /\ NoDoubles(found)
      /\ ToSet(found.user) = {l \in ToSet(first.user) : ~(l \in m_QueriedLibraries /\ isLibraryLoaded(l))}
      /\ ToSet(found.system) = {l \in ToSet(first.system) : ~(l \in m_QueriedLibraries /\ isLibraryLoaded(l))}
      /\ first.system = <<>> => found.system = <<>>
  BY <1>1, <1>5, Dropping
<1>7. m_FirstRunSysLib => first.system = <<>> /\ found.system = <<>>
  BY <1>4, <1>5, <1>6 DEF ScansInOrder
<1>8. ASSUME ~stale, NEW l \in UserPath PROVE l \in ToSet(found.user) \/ Excused(l)
  <2>1. l \in ToSet(first.user) \/ Excused(l)
    <3>1. CASE m_FirstRun
      <4>1. Covered(first, l)
        BY <1>5, <3>1
      <4>2. ToSet(first.system) = {}
        BY <1>4, <1>7, <3>1 DEF ScansInOrder, ToSet
      <4>. QED
        BY <4>1, <4>2 DEF Covered, Registered, Excused
    <3>2. CASE ~m_FirstRun
      BY <1>3, <1>4, <1>5, <1>8, <3>2 DEF UserFound
    <3>. QED
      BY <3>1, <3>2
  <2>2. isLibraryLoaded(l) => Excused(l)
    BY DEF Excused, ShouldPermanentlyIgnore
  <2>. QED
    BY <1>6, <2>1, <2>2
<1>9. \A l \in Registered(found) : l \in m_QueriedLibraries => ~isLibraryLoaded(l)
  BY <1>6 DEF Registered
<1>10. CASE m_FirstRunSysLib
  <2>1. all = ScanSystem(found)
    BY <1>2, <1>10
  <2>2. /\ all \in ListPairs /\ all.user = found.user /\ NoDoubles(all)
        /\ \A l \in Registered(all) : l \in Registered(found) \/ ~isLibraryLoaded(l)
        /\ \A l \in SystemPath : Covered(all, l)
    BY <1>3, <1>6, <2>1, SystemScan
  <2>3. \A l \in Registered(found) \cup Registered(all) : l \in m_QueriedLibraries => ~isLibraryLoaded(l)
    BY <1>9, <2>2
  <2>. QED
    BY <1>6, <1>7, <1>8, <1>10, <2>2, <2>3
<1>11. CASE ~m_FirstRunSysLib
  <2>1. all = found
    BY <1>2, <1>11
  <2>2. first = Lists
    BY <1>3, <1>4, <1>5, <1>11 DEF ScansInOrder
  <2>3. ASSUME ~stale, NEW l \in SystemPath PROVE Covered(all, l)
    <3>1. Covered(Lists, l)
      BY <1>4, <1>11, <2>3 DEF SystemFound
    <3>2. isLibraryLoaded(l) => ShouldPermanentlyIgnore(l)
      BY DEF ShouldPermanentlyIgnore
    <3>. QED
      BY <1>6, <2>1, <2>2, <3>1, <3>2 DEF Covered, Registered
  <2>4. \A l \in Registered(found) \cup Registered(all) : l \in m_QueriedLibraries => ~isLibraryLoaded(l)
    BY <1>9, <2>1
  <2>. QED
    BY <1>6, <1>8, <1>11, <2>1, <2>3, <2>4
<1>. QED
  BY <1>3, <1>10, <1>11

\* What only reads the manager does not change its paths.
LEMMA SameManager ==
  ASSUME UNCHANGED managerVars
  PROVE  /\ UserPath' = UserPath /\ SystemPath' = SystemPath
         /\ \A l : Excused(l)' <=> Excused(l)
         /\ BooksInv => BooksInv'
         /\ ManagerTypeOK => ManagerTypeOK'
<1>1. m_SearchPaths' = m_SearchPaths /\ m_DyLibs' = m_DyLibs /\ m_LoadedLibraries' = m_LoadedLibraries /\ dlrefs' = dlrefs
  BY DEF managerVars
<1>2. UserPath' = UserPath
  BY <1>1 DEF UserPath, OnPath
<1>3. SystemPath' = SystemPath
  BY <1>1 DEF SystemPath, OnPath
<1>4. \A l : Excused(l)' <=> Excused(l)
  BY <1>1 DEF Excused, ShouldPermanentlyIgnore, isLibraryLoaded
<1>5. BooksInv => BooksInv'
  BY <1>1, NextBooks DEF managerVars
<1>6. ManagerTypeOK => ManagerTypeOK'
  BY <1>1 DEF ManagerTypeOK, BooksTypeOK
<1>. QED
  BY <1>2, <1>3, <1>4, <1>5, <1>6

\* A search keeps the invariant, and does not return what it returned before
\* and is loaded.
LEMMA Searching ==
  ASSUME SearchInv, NEW s \in Symbols, NEW sys \in BOOLEAN, searchLibrariesForSymbol(s, sys)
  PROVE  SearchInv' /\ (query'.answer \in m_QueriedLibraries => ~isLibraryLoaded(query'.answer))
<1>. DEFINE found == DropLoaded(IF m_FirstRun THEN ScanForLibraries(Lists, FALSE) ELSE Lists)
            all == IF m_FirstRunSysLib THEN ScanForLibraries(found, TRUE) ELSE found
            user == FirstUser(found.user, s)
            system == FirstSystem(all.system, s)
<1>1. /\ IF user # NULL \/ ~sys
         THEN Answer(s, sys, found, user) /\ m_FirstRunSysLib' = m_FirstRunSysLib
         ELSE Answer(s, sys, all, system) /\ m_FirstRunSysLib' = FALSE
      /\ m_FirstRun' = FALSE /\ UNCHANGED managerVars /\ stale' = stale
  BY DEF searchLibrariesForSymbol, FirstUser, FirstSystem
<1>2. /\ found \in ListPairs /\ NoDoubles(found) /\ (m_FirstRunSysLib => found.system = <<>>)
      /\ all \in ListPairs /\ NoDoubles(all) /\ all.user = found.user
      /\ ~m_FirstRunSysLib => all = found
      /\ ~stale => \A l \in UserPath : l \in ToSet(found.user) \/ Excused(l)
      /\ ~stale => \A l \in SystemPath : Covered(all, l)
      /\ \A l \in Registered(found) \cup Registered(all) : l \in m_QueriedLibraries => ~isLibraryLoaded(l)
  BY SearchFacts
<1>. HIDE DEF found, all
<1>3. /\ found.user \in Seq(Libs) /\ found.system \in Seq(Libs)
      /\ all.user \in Seq(Libs) /\ all.system \in Seq(Libs)
  BY <1>2 DEF ListPairs
<1>4. /\ user = NULL => \A l \in ToSet(found.user) : s \notin Dyn[l]
      /\ user # NULL => user \in ToSet(found.user)
  BY <1>3, FirstUserIs
<1>5. /\ system = NULL => \A l \in ToSet(all.system) : s \notin Dyn[l]
      /\ system # NULL => system \in ToSet(all.system)
  BY <1>3, FirstSystemIs
<1>. HIDE DEF user, system
<1>6. /\ UserPath' = UserPath /\ SystemPath' = SystemPath /\ (\A l : Excused(l)' <=> Excused(l))
      /\ BooksInv' /\ ManagerTypeOK'
  BY <1>1, SameManager DEF SearchInv, SearchTypeOK
<1>7. m_QueriedLibraries \subseteq Libs /\ stale \in BOOLEAN /\ m_FirstRunSysLib \in BOOLEAN
  BY DEF SearchInv, SearchTypeOK
<1>8. user = NULL /\ ~stale => \A l \in UserPath : Excused(l) \/ s \notin Dyn[l]
  BY <1>2, <1>4
<1>9. CASE user # NULL \/ ~sys
  <2>1. /\ m_Libraries' = found.user /\ m_SysLibraries' = found.system
        /\ m_QueriedLibraries' = m_QueriedLibraries \cup ({user} \ {NULL})
        /\ query' = [name |-> s, searchSystem |-> sys, answer |-> user]
        /\ m_FirstRunSysLib' = m_FirstRunSysLib
    BY <1>1, <1>9 DEF Answer
  <2>2. user \in Libs \cup {NULL} /\ (user # NULL => user \in Registered(found))
    BY <1>3, <1>4 DEF ToSet, Registered
  <2>3. SearchTypeOK'
    <3>1. query' \in Query
      BY <2>1, <2>2 DEF Query
    <3>2. m_QueriedLibraries' \subseteq Libs
      BY <1>7, <2>1, <2>2
    <3>. QED
      BY <1>1, <1>3, <1>6, <1>7, <2>1, <3>1, <3>2 DEF SearchTypeOK
  <2>4. Lists'.user = found.user /\ Lists'.system = found.system
    BY <2>1 DEF Lists
  <2>5. NoDoubles(Lists)'
    BY <1>2, <2>4 DEF NoDoubles
  <2>6. ScansInOrder'
    BY <1>1, <1>2, <2>1 DEF ScansInOrder
  <2>7. UserFound'
    BY <1>1, <1>2, <1>6, <2>1 DEF UserFound
  <2>8. SystemFound'
    <3>. SUFFICES ASSUME ~stale, ~m_FirstRunSysLib, NEW l \in SystemPath
                  PROVE  Covered(Lists, l)'
      BY <1>1, <1>6, <2>1 DEF SystemFound
    <3>1. Covered(found, l)
      BY <1>2
    <3>. QED
      BY <1>6, <2>4, <3>1 DEF Covered, Registered, Excused
  <2>9. AnswerRight'
    <3>1. query'.answer = user /\ query'.name = s /\ query'.searchSystem = sys
      BY <2>1
    <3>2. user \in ToSet(found.system) => user = NULL
      BY <1>2, <1>4 DEF NoDoubles
    <3>3. NULL \notin ToSet(found.system)
      BY <1>3, NullIsNoLib DEF ToSet
    <3>4. user = NULL => ~sys
      BY <1>9
    <3>. QED
      BY <1>1, <1>6, <1>8, <2>1, <3>1, <3>2, <3>3, <3>4 DEF AnswerRight
  <2>10. query'.answer \in m_QueriedLibraries => ~isLibraryLoaded(query'.answer)
    BY <1>2, <1>7, <2>1, <2>2, NullIsNoLib
  <2>. QED
    BY <1>6, <2>3, <2>5, <2>6, <2>7, <2>8, <2>9, <2>10 DEF SearchInv
<1>10. CASE ~(user # NULL \/ ~sys)
  <2>1. /\ m_Libraries' = all.user /\ m_SysLibraries' = all.system
        /\ m_QueriedLibraries' = m_QueriedLibraries \cup ({system} \ {NULL})
        /\ query' = [name |-> s, searchSystem |-> sys, answer |-> system]
        /\ m_FirstRunSysLib' = FALSE
    BY <1>1, <1>10 DEF Answer
  <2>2. system \in Libs \cup {NULL} /\ (system # NULL => system \in Registered(all))
    BY <1>3, <1>5 DEF ToSet, Registered
  <2>3. SearchTypeOK'
    <3>1. query' \in Query
      BY <2>1, <2>2 DEF Query
    <3>2. m_QueriedLibraries' \subseteq Libs
      BY <1>7, <2>1, <2>2
    <3>. QED
      BY <1>1, <1>3, <1>6, <1>7, <2>1, <3>1, <3>2 DEF SearchTypeOK
  <2>4. Lists'.user = all.user /\ Lists'.system = all.system
    BY <2>1 DEF Lists
  <2>5. NoDoubles(Lists)'
    BY <1>2, <2>4 DEF NoDoubles
  <2>6. ScansInOrder'
    BY <1>1, <2>1 DEF ScansInOrder
  <2>7. UserFound'
    BY <1>1, <1>2, <1>6, <2>1 DEF UserFound
  <2>8. SystemFound'
    <3>. SUFFICES ASSUME ~stale, NEW l \in SystemPath
                  PROVE  Covered(Lists, l)'
      BY <1>1, <1>6, <2>1 DEF SystemFound
    <3>1. Covered(all, l)
      BY <1>2
    <3>. QED
      BY <1>6, <2>4, <3>1 DEF Covered, Registered, Excused
  <2>9. AnswerRight'
    <3>1. query'.answer = system /\ query'.name = s /\ query'.searchSystem = sys
      BY <2>1
    <3>2. ASSUME ~stale, system = NULL, NEW l \in SystemPath PROVE Excused(l) \/ s \notin Dyn[l]
      <4>1. Covered(all, l)
        BY <1>2, <3>2
      <4>. QED
        BY <1>2, <1>4, <1>5, <1>10, <3>2, <4>1 DEF Covered, Registered, Excused
    <3>. QED
      BY <1>1, <1>6, <1>8, <1>10, <2>1, <3>1, <3>2 DEF AnswerRight
  <2>10. query'.answer \in m_QueriedLibraries => ~isLibraryLoaded(query'.answer)
    BY <1>2, <1>7, <2>1, <2>2, NullIsNoLib
  <2>. QED
    BY <1>6, <2>3, <2>5, <2>6, <2>7, <2>8, <2>9, <2>10 DEF SearchInv
<1>. QED
  BY <1>9, <1>10

-----------------------------------------------------------------------------
(* The manager's own steps. *)

\* A path of one kind adds nothing of the other.
LEMMA OtherPath ==
  ASSUME m_SearchPaths \in Seq(SearchPathInfo), NEW p \in Paths, NEW u \in BOOLEAN, NEW f \in BOOLEAN,
         m_SearchPaths' = WithSearchPath(m_SearchPaths, p, u, f),
         NEW v \in BOOLEAN, v # u
  PROVE  OnPath(v)' \subseteq OnPath(v)
<1>. DEFINE old == m_SearchPaths
            new == m_SearchPaths'
            x == [Path |-> p, IsUser |-> u]
<1>1. new = old \/ new = <<x>> \o old \/ new = Append(old, x)
  BY DEF WithSearchPath
<1>2. x \in SearchPathInfo /\ x.IsUser = u
  BY DEF SearchPathInfo
<1>. HIDE DEF x
<1>3. ASSUME NEW j \in DOMAIN new, new[j].IsUser = v PROVE \E i \in DOMAIN old : old[i] = new[j]
  <2>1. CASE new = old
    BY <2>1
  <2>2. CASE new = <<x>> \o old
    <3>1. <<x>> \in Seq(SearchPathInfo) /\ Len(<<x>>) = 1 /\ <<x>>[1] = x
      BY <1>2
    <3>2. j \in 1..(1 + Len(old)) /\ (j = 1 => new[j] = x) /\ (j # 1 => new[j] = old[j - 1])
      BY <2>2, <3>1, ConcatProperties
    <3>3. j # 1 /\ j - 1 \in DOMAIN old
      BY <1>2, <1>3, <3>2
    <3>. QED
      BY <3>2, <3>3
  <2>3. CASE new = Append(old, x)
    <3>1. j \in 1..(Len(old) + 1) /\ (j = Len(old) + 1 => new[j] = x) /\ (j # Len(old) + 1 => new[j] = old[j])
      BY <1>2, <2>3
    <3>2. j # Len(old) + 1 /\ j \in DOMAIN old
      BY <1>2, <1>3, <3>1
    <3>. QED
      BY <3>1, <3>2
  <2>. QED
    BY <1>1, <2>1, <2>2, <2>3
<1>. HIDE DEF new, old
<1>4. OnPath(v)' = {EntryAt(d, n) : d \in {RealDir[new[i].Path] : i \in {j \in DOMAIN new : new[j].IsUser = v}},
                                    n \in FileNames}
  BY DEF OnPath, new
<1>5. OnPath(v) = {EntryAt(d, n) : d \in {RealDir[old[i].Path] : i \in {j \in DOMAIN old : old[j].IsUser = v}},
                                   n \in FileNames}
  BY DEF OnPath, old
<1>6. ASSUME NEW i \in DOMAIN new, new[i].IsUser = v, NEW n \in FileNames
      PROVE  EntryAt(RealDir[new[i].Path], n) \in OnPath(v)
  <2>1. PICK k \in DOMAIN old : old[k] = new[i]
    BY <1>3, <1>6
  <2>2. RealDir[new[i].Path] \in {RealDir[old[m].Path] : m \in {j \in DOMAIN old : old[j].IsUser = v}}
    BY <1>6, <2>1
  <2>. QED
    BY <1>5, <1>6, <2>2
<1>. QED
  BY <1>4, <1>6

\* A step of the manager keeps the books.
LEMMA ManagerKeeps ==
  ASSUME SearchInv, ManagerNext, m_SearchPaths' \in Seq(SearchPathInfo),
         UNCHANGED dyldVars, query' = NULL, stale' \in BOOLEAN
  PROVE  /\ SearchTypeOK' /\ BooksInv' /\ NoDoubles(Lists)' /\ ScansInOrder' /\ AnswerRight'
<1>1. BooksInv'
  BY NextBooks DEF SearchInv
<1>2. /\ m_FirstRun' = m_FirstRun /\ m_FirstRunSysLib' = m_FirstRunSysLib /\ m_Libraries' = m_Libraries
      /\ m_SysLibraries' = m_SysLibraries /\ m_QueriedLibraries' = m_QueriedLibraries
  BY DEF dyldVars
<1>3. SearchTypeOK'
  <2>1. ManagerTypeOK'
    BY <1>1 DEF ManagerTypeOK, BooksInv
  <2>. QED
    BY <1>2, <2>1 DEF SearchInv, SearchTypeOK
<1>4. NoDoubles(Lists)'
  BY <1>2 DEF SearchInv, NoDoubles, Lists
<1>5. ScansInOrder'
  BY <1>2 DEF SearchInv, ScansInOrder
<1>6. AnswerRight'
  BY DEF AnswerRight
<1>. QED
  BY <1>1, <1>3, <1>4, <1>5, <1>6

\* A path added behind a scan makes the lists stale; one of the other kind does not.
LEMMA AddingSearchPath ==
  ASSUME SearchInv, NEW p \in NewPaths, NEW u \in BOOLEAN, NEW f \in BOOLEAN, AddPath(p, u, f)
  PROVE  SearchInv'
<1>1. /\ m_SearchPaths' = WithSearchPath(m_SearchPaths, p, u, f)
      /\ m_LoadedLibraries' = m_LoadedLibraries
      /\ query' = NULL /\ UNCHANGED dyldVars
  BY DEF AddPath, addSearchPath
<1>2. stale' = (stale \/ (m_SearchPaths' # m_SearchPaths /\ Scanned(u)))
  BY DEF AddPath
<1>3. p \in Paths /\ m_SearchPaths \in Seq(SearchPathInfo) /\ stale \in BOOLEAN
  <2>1. p \in Paths
    BY PathsAssumption, Zenon
  <2>. QED
    BY <2>1 DEF SearchInv, SearchTypeOK, ManagerTypeOK
<1>4. m_SearchPaths' \in Seq(SearchPathInfo)
  BY <1>1, <1>3, PathTyped
<1>5. ManagerNext
  BY DEF AddPath, ManagerNext, AddSearchPath
<1>6. stale' \in BOOLEAN
  BY <1>2
<1>7. SearchTypeOK' /\ BooksInv' /\ NoDoubles(Lists)' /\ ScansInOrder' /\ AnswerRight'
  BY <1>1, <1>4, <1>5, <1>6, ManagerKeeps
<1>8. /\ m_FirstRun' = m_FirstRun /\ m_FirstRunSysLib' = m_FirstRunSysLib /\ m_Libraries' = m_Libraries
      /\ m_SysLibraries' = m_SysLibraries
  BY <1>1 DEF dyldVars
<1>9. \A l : Excused(l)' <=> Excused(l)
  BY <1>1 DEF Excused, ShouldPermanentlyIgnore, isLibraryLoaded
<1>10. ~stale' /\ ~m_FirstRun => UserPath' \subseteq UserPath
  <2>1. CASE m_SearchPaths' = m_SearchPaths
    BY <2>1 DEF UserPath, OnPath
  <2>2. CASE u = FALSE
    <3>1. PICK v \in BOOLEAN : v = TRUE
      OBVIOUS
    <3>2. OnPath(v)' \subseteq OnPath(v)
      BY <1>1, <1>3, <2>2, <3>1, OtherPath
    <3>. QED
      BY <3>1, <3>2 DEF UserPath
  <2>. QED
    BY <1>2, <2>1, <2>2 DEF Scanned
<1>11. ~stale' /\ ~m_FirstRunSysLib => SystemPath' \subseteq SystemPath
  <2>1. CASE m_SearchPaths' = m_SearchPaths
    BY <2>1 DEF SystemPath, OnPath
  <2>2. CASE u = TRUE
    <3>1. PICK v \in BOOLEAN : v = FALSE
      OBVIOUS
    <3>2. OnPath(v)' \subseteq OnPath(v)
      BY <1>1, <1>3, <2>2, <3>1, OtherPath
    <3>. QED
      BY <3>1, <3>2 DEF SystemPath
  <2>. QED
    BY <1>2, <2>1, <2>2 DEF Scanned
<1>12. UserFound'
  BY <1>2, <1>8, <1>9, <1>10 DEF SearchInv, UserFound
<1>13. SystemFound'
  <2>1. \A l : Covered(Lists, l)' <=> Covered(Lists, l)
    BY <1>8, <1>9 DEF Covered, Lists, Registered, Excused
  <2>. QED
    BY <1>2, <1>8, <1>11, <2>1 DEF SearchInv, SystemFound
<1>. QED
  BY <1>7, <1>12, <1>13 DEF SearchInv

\* A load only excuses a library from being offered.
LEMMA LoadingLibrary ==
  ASSUME SearchInv, NEW stem \in Stems, NEW lookup \in BOOLEAN, Load(stem, lookup)
  PROVE  SearchInv'
<1>1. loadLibrary(stem, lookup) /\ query' = NULL /\ UNCHANGED dyldVars /\ stale' = stale
  BY DEF Load
<1>2. m_SearchPaths' = m_SearchPaths /\ m_LoadedLibraries \subseteq m_LoadedLibraries'
  <2>1. ASSUME NEW name, OpenAs(name)
        PROVE  m_SearchPaths' = m_SearchPaths /\ m_LoadedLibraries \subseteq m_LoadedLibraries'
    BY <2>1 DEF OpenAs
  <2>. QED
    BY <1>1, <2>1 DEF loadLibrary
<1>3. ManagerNext
  BY <1>1 DEF ManagerNext, LoadLibrary
<1>4. m_SearchPaths' \in Seq(SearchPathInfo) /\ stale' \in BOOLEAN
  BY <1>1, <1>2 DEF SearchInv, SearchTypeOK, ManagerTypeOK
<1>5. SearchTypeOK' /\ BooksInv' /\ NoDoubles(Lists)' /\ ScansInOrder' /\ AnswerRight'
  BY <1>1, <1>3, <1>4, ManagerKeeps
<1>6. /\ m_FirstRun' = m_FirstRun /\ m_FirstRunSysLib' = m_FirstRunSysLib /\ m_Libraries' = m_Libraries
      /\ m_SysLibraries' = m_SysLibraries
  BY <1>1 DEF dyldVars
<1>7. \A l : Excused(l) => Excused(l)'
  BY <1>2 DEF Excused, ShouldPermanentlyIgnore, isLibraryLoaded
<1>8. UserPath' = UserPath /\ SystemPath' = SystemPath
  BY <1>2 DEF UserPath, SystemPath, OnPath
<1>9. UserFound'
  BY <1>1, <1>6, <1>7, <1>8 DEF SearchInv, UserFound
<1>10. SystemFound'
  <2>1. \A l : Covered(Lists, l) => Covered(Lists, l)'
    BY <1>6, <1>7 DEF Covered, Lists, Registered, Excused
  <2>. QED
    BY <1>1, <1>6, <1>8, <2>1 DEF SearchInv, SystemFound
<1>. QED
  BY <1>5, <1>9, <1>10 DEF SearchInv

\* After an unload the lists may lack what was removed from them.
LEMMA UnloadingLibrary ==
  ASSUME SearchInv, NEW stem \in Stems, Unload(stem)
  PROVE  SearchInv'
<1>1. unloadLibrary(stem) /\ query' = NULL /\ UNCHANGED dyldVars
  BY DEF Unload
<1>2. stale' = (stale \/ ~m_FirstRun)
  BY DEF Unload
<1>3. m_SearchPaths' = m_SearchPaths
  BY <1>1 DEF unloadLibrary
<1>4. ManagerNext
  BY <1>1 DEF ManagerNext, UnloadLibrary
<1>5. m_SearchPaths' \in Seq(SearchPathInfo) /\ stale' \in BOOLEAN
  BY <1>2, <1>3 DEF SearchInv, SearchTypeOK, ManagerTypeOK
<1>6. SearchTypeOK' /\ BooksInv' /\ NoDoubles(Lists)' /\ ScansInOrder' /\ AnswerRight'
  BY <1>1, <1>4, <1>5, ManagerKeeps
<1>7. m_FirstRun' = m_FirstRun /\ m_FirstRunSysLib' = m_FirstRunSysLib
  BY <1>1 DEF dyldVars
<1>8. UserFound' /\ SystemFound'
  BY <1>2, <1>7 DEF SearchInv, ScansInOrder, UserFound, SystemFound
<1>. QED
  BY <1>6, <1>8 DEF SearchInv

\* Every step keeps the invariant.
LEMMA SearchInvStep == SearchInv /\ [SearchNext]_allVars => SearchInv'
<1>. SUFFICES ASSUME SearchInv, [SearchNext]_allVars PROVE SearchInv'
  OBVIOUS
<1>1. CASE UNCHANGED allVars
  <2>1. /\ UNCHANGED managerVars /\ query' = query /\ stale' = stale
        /\ m_FirstRun' = m_FirstRun /\ m_FirstRunSysLib' = m_FirstRunSysLib /\ m_Libraries' = m_Libraries
        /\ m_SysLibraries' = m_SysLibraries /\ m_QueriedLibraries' = m_QueriedLibraries
    BY <1>1 DEF allVars, dyldVars
  <2>2. /\ UserPath' = UserPath /\ SystemPath' = SystemPath /\ (\A l : Excused(l)' <=> Excused(l))
        /\ BooksInv' /\ ManagerTypeOK'
    BY <2>1, SameManager DEF SearchInv, SearchTypeOK
  <2>3. SearchTypeOK'
    BY <2>1, <2>2 DEF SearchInv, SearchTypeOK
  <2>4. \A l : Covered(Lists, l)' <=> Covered(Lists, l)
    BY <2>1, <2>2 DEF Covered, Lists, Registered, Excused
  <2>5. NoDoubles(Lists)' /\ ScansInOrder' /\ UserFound' /\ SystemFound'
    BY <2>1, <2>2, <2>4 DEF SearchInv, NoDoubles, Lists, ScansInOrder, UserFound, SystemFound
  <2>6. AnswerRight'
    BY <2>1, <2>2 DEF SearchInv, AnswerRight
  <2>. QED
    BY <2>2, <2>3, <2>5, <2>6 DEF SearchInv
<1>2. CASE SearchNext
  BY <1>2, AddingSearchPath, LoadingLibrary, UnloadingLibrary, Searching DEF SearchNext
<1>. QED
  BY <1>1, <1>2

\* A list without doubles has as many members as places.
LEMMA DistinctCount ==
  ASSUME NEW S, NEW s \in Seq(S), Distinct(s)
  PROVE  Cardinality(ToSet(s)) = Len(s)
<1>. DEFINE n == Len(s)
            T == ToSet(s)
            f == [i \in 1..n |-> s[i]]
<1>1. n \in Nat /\ DOMAIN s = 1..n
  OBVIOUS
<1>2. f \in Bijection(1..n, T)
  <2>1. f \in [1..n -> T] /\ IsInjective(f)
    BY <1>1 DEF IsInjective, Distinct, ToSet
  <2>2. \A t \in T : \E i \in 1..n : f[i] = t
    BY <1>1 DEF ToSet
  <2>. QED
    BY <2>1, <2>2 DEF Bijection, Injection, Surjection
<1>3. IsFiniteSet(1..n) /\ Cardinality(1..n) = n
  <2>1. IsFiniteSet(1..n) /\ Cardinality(1..n) = IF 1 > n THEN 0 ELSE n - 1 + 1
    BY <1>1, FS_Interval
  <2>. QED
    BY <1>1, <2>1
<1>4. ExistsBijection(1..n, T)
  BY <1>2 DEF ExistsBijection
<1>. HIDE DEF n, T
<1>5. Cardinality(T) = Cardinality(1..n)
  BY <1>3, <1>4, FS_Bijection
<1>. QED
  BY <1>3, <1>5 DEF n, T

\* It implies what a search promises.
LEMMA SearchInvExact == SearchInv => CandidatesExact
<1>. SUFFICES ASSUME SearchInv PROVE CandidatesExact
  OBVIOUS
<1>1. SearchTypeOK /\ NoDoubles(Lists) /\ AnswerRight
  BY DEF SearchInv
<1>2. OneList
  <2>1. /\ Distinct(m_Libraries) /\ Distinct(m_SysLibraries)
        /\ ToSet(m_Libraries) \cap ToSet(m_SysLibraries) = {}
    BY <1>1 DEF NoDoubles, Lists
  <2>2. m_Libraries \in Seq(Libs) /\ m_SysLibraries \in Seq(Libs)
    BY <1>1 DEF SearchTypeOK
  <2>. QED
    BY <2>1, <2>2, DistinctCount DEF OneList
<1>3. /\ \A l \in Offered(TRUE) : l \in UserPath /\ ~Excused(l)
      /\ \A l \in Offered(FALSE) : l \in SystemPath /\ ~Excused(l)
  BY DEF Offered, UserPath, SystemPath, Excused
<1>4. FreshSearchIsComplete
  BY <1>1, <1>3 DEF FreshSearchIsComplete, SearchIsComplete, AnswerRight
<1>5. UserLibrariesFirst
  BY <1>1, <1>3 DEF UserLibrariesFirst, AnswerRight
<1>. QED
  BY <1>1, <1>2, <1>4, <1>5 DEF CandidatesExact

\* It holds throughout.
LEMMA SearchInvHolds == SearchSpec => []SearchInv
BY SearchInvInit, SearchInvStep, PTL DEF SearchSpec

\* Whatever is loaded, unloaded and added to the path between searches: no
\* library is a candidate twice, a search over fresh lists finds whatever the
\* path offers, needed libraries in other directories included or not, and a
\* system library is the answer only when no user library exports the symbol
\* (ScanForLibraries, searchLibrariesForSymbol).
THEOREM SearchCandidatesExact == SearchSpec => []CandidatesExact
<1>1. SearchInv => CandidatesExact
  BY SearchInvExact
<1>. QED
  BY <1>1, SearchInvHolds, PTL

\* A library a client was given and has loaded is not given again while it is
\* loaded (the removal at the head of searchLibrariesForSymbol).
THEOREM SearchNeverOffersTwice == SearchSpec => NeverOfferedTwice
<1>1. ASSUME SearchInv, [SearchNext]_allVars
      PROVE  [(query' # NULL /\ query'.answer \in m_QueriedLibraries)
                => ~isLibraryLoaded(query'.answer)]_allVars
  <2>1. ASSUME NEW p \in NewPaths, NEW u \in BOOLEAN, NEW f \in BOOLEAN, AddPath(p, u, f) PROVE query' = NULL
    BY <2>1 DEF AddPath
  <2>2. ASSUME NEW stem \in Stems, NEW lookup \in BOOLEAN, Load(stem, lookup) PROVE query' = NULL
    BY <2>2 DEF Load
  <2>3. ASSUME NEW stem \in Stems, Unload(stem) PROVE query' = NULL
    BY <2>3 DEF Unload
  <2>4. ASSUME NEW s \in Symbols, NEW sys \in BOOLEAN, searchLibrariesForSymbol(s, sys)
        PROVE  query'.answer \in m_QueriedLibraries => ~isLibraryLoaded(query'.answer)
    BY <1>1, <2>4, Searching
  <2>. QED
    BY <1>1, <2>1, <2>2, <2>3, <2>4 DEF SearchNext
<1>. QED
  BY <1>1, SearchInvHolds, PTL DEF SearchSpec, NeverOfferedTwice
=============================================================================
