---------------------------- MODULE GlibcHandlers ----------------------------
(***************************************************************************)
(* JitGlibcHandlerRegistry (CompatibilityGLIBC.h): the host-side registry  *)
(* for the handlers that jitted code passes to at_quick_exit and           *)
(* pthread_atfork, with the threads that register handlers, fork, call     *)
(* quick_exit and delete interpreters.                                     *)
(*                                                                         *)
(* A critical section that calls out of the registry is several steps and  *)
(* holds the mutex M between them; the others are one step taken when M is *)
(* free.  Handlers run outside M and may register further handlers.        *)
(*                                                                         *)
(* The three vectors are only ever pushed to at the end, erased from, or   *)
(* copied.  So their order is the order of registration, which is that of  *)
(* the entries' ids, and they are modelled as sets of entries.             *)
(***************************************************************************)
EXTENDS Integers

CONSTANTS Threads,
          Owners,           \* the inner interpreters that key the registry
          None,             \* no thread, no owner
          LateRegistration, \* code run by the JIT's deinitialization registers
          MaxRegs           \* bound on the number of registrations

ASSUME BoundsAssumption == MaxRegs \in Nat /\ LateRegistration \in BOOLEAN
ASSUME NoneAssumption   == None \notin Threads \cup Owners

VARIABLES QuickExit, Atfork, ForkSnapshot,  \* sets of entries, in order of id
          QuickExitHookInstalled, AtforkHookInstalled,
          M,           \* the thread that holds the registry's mutex, or None
          atforkLock,  \* the thread that holds glibc's fork lock, or None
          phase,       \* of each interpreter: "up", "flush", "deinit" or "down"
          pc,          \* where each thread is
          regs,        \* history: the quick-exit entries ever registered
          ran,         \* history: how often each quick-exit entry was called
          nextId,
          wildCall,    \* a handler was called after its code was unmapped
          exited,      \* quick_exit has run all hooks
          disturbed    \* history: the promise of CompatibilityGLIBC.h is off

vars == <<QuickExit, Atfork, ForkSnapshot, QuickExitHookInstalled,
          AtforkHookInstalled, M, atforkLock, phase, pc, regs, ran, nextId,
          wildCall, exited, disturbed>>

Ids     == 1..MaxRegs
Entries == [id : Ids, Owner : Owners]

\* at: the step; owner: the interpreter being torn down or whose handler runs;
\* id: the handler called last; pos: the id the fork's loop has come to;
\* why: the loop a called handler returns to; installing: for which owner the
\* thread is inside addAtfork with M held.
Stage(at, owner, why) == [at |-> at, owner |-> owner, id |-> 0, why |-> why,
                          pos |-> 0, installing |-> None]
Idle == Stage("idle", None, "idle")

\* In the fork's loops, and in the handler e that one of the loops calls.
InSnapshot(why, pos)  == [at |-> "fork", owner |-> None, id |-> 0, why |-> why,
                          pos |-> pos, installing |-> None]
Calling(e, why, pos)  == [at |-> "call", owner |-> e.Owner, id |-> e.id, why |-> why,
                          pos |-> pos, installing |-> None]

ThreadStates ==
  [at : {"idle", "take", "call", "in", "drop", "deinit", "snapshot", "fork"},
   owner : Owners \cup {None}, id : 0..MaxRegs,
   why : {"idle", "flush", "exit", "prepare", "parent"}, pos : 0..MaxRegs + 1,
   installing : Owners \cup {None}]

TypeOK ==
  /\ QuickExit \subseteq Entries /\ Atfork \subseteq Entries
  /\ ForkSnapshot \subseteq Entries
  /\ QuickExitHookInstalled \in BOOLEAN /\ AtforkHookInstalled \in BOOLEAN
  /\ M \in Threads \cup {None} /\ atforkLock \in Threads \cup {None}
  /\ phase \in [Owners -> {"up", "flush", "deinit", "down"}]
  /\ pc \in [Threads -> ThreadStates]
  /\ regs \subseteq Entries /\ ran \in [Ids -> Nat] /\ nextId \in 1..MaxRegs + 1
  /\ wildCall \in BOOLEAN /\ exited \in BOOLEAN /\ disturbed \in BOOLEAN

Init ==
  /\ QuickExit = {} /\ Atfork = {} /\ ForkSnapshot = {}
  /\ QuickExitHookInstalled = FALSE /\ AtforkHookInstalled = FALSE
  /\ M = None /\ atforkLock = None
  /\ phase = [o \in Owners |-> "up"]
  /\ pc = [t \in Threads |-> Idle]
  /\ regs = {} /\ ran = [i \in Ids |-> 0] /\ nextId = 1
  /\ wildCall = FALSE /\ exited = FALSE /\ disturbed = FALSE

-----------------------------------------------------------------------------
(* Registration, from jitted code of interpreter o. *)

\* Jitted code of o runs on t: called by the client while o is up, as one of
\* o's handlers, or as a static destructor when o's JIT is deinitialized.
RunsCodeOf(t, o) ==
  /\ ~exited /\ pc[t].installing = None
  /\ \/ pc[t].at = "idle" /\ phase[o] = "up"
     \/ pc[t].at = "in" /\ pc[t].owner = o /\ phase[o] # "down"
     \/ pc[t].at = "deinit" /\ pc[t].owner = o /\ LateRegistration

NewEntry(o) == [id |-> nextId, Owner |-> o]

\* hookOk: ::at_quick_exit, called the first time, accepts the hook.
addQuickExit(t, o, hookOk) ==
  /\ RunsCodeOf(t, o) /\ nextId \in Ids /\ M = None
  /\ IF QuickExitHookInstalled \/ hookOk
     THEN /\ QuickExitHookInstalled' = TRUE
          /\ QuickExit' = QuickExit \cup {NewEntry(o)}
          /\ regs' = regs \cup {NewEntry(o)}
          /\ nextId' = nextId + 1
     ELSE UNCHANGED <<QuickExitHookInstalled, QuickExit, regs, nextId>>
  /\ UNCHANGED <<Atfork, ForkSnapshot, AtforkHookInstalled, M, atforkLock, phase,
                 pc, ran, wildCall, exited>>

\* Faulty variant: pthread_atfork is called for every registration.
addAtforkAlwaysInstalls(t, o) ==
  /\ RunsCodeOf(t, o) /\ nextId \in Ids /\ M = None
  /\ M' = t
  /\ pc' = [pc EXCEPT ![t].installing = o]
  /\ UNCHANGED <<QuickExit, Atfork, ForkSnapshot, QuickExitHookInstalled, nextId,
                 AtforkHookInstalled, atforkLock, phase, regs, ran, wildCall, exited>>

\* addAtfork: with the hook in place the entry is pushed; otherwise M is held
\* across the call of ::pthread_atfork.
addAtfork(t, o) ==
  /\ RunsCodeOf(t, o) /\ nextId \in Ids /\ M = None
  /\ IF AtforkHookInstalled
     THEN /\ Atfork' = Atfork \cup {NewEntry(o)}
          /\ nextId' = nextId + 1
          /\ UNCHANGED <<M, pc>>
     ELSE /\ M' = t
          /\ pc' = [pc EXCEPT ![t].installing = o]
          /\ UNCHANGED <<Atfork, nextId>>
  /\ UNCHANGED <<QuickExit, ForkSnapshot, QuickExitHookInstalled,
                 AtforkHookInstalled, atforkLock, phase, regs, ran, wildCall, exited>>

\* ::pthread_atfork, which needs glibc's fork lock for an instant, and the rest.
InstallAtforkHook(t, hookOk) ==
  /\ ~exited /\ pc[t].installing # None /\ atforkLock = None
  /\ IF hookOk
     THEN /\ AtforkHookInstalled' = TRUE
          /\ Atfork' = Atfork \cup {NewEntry(pc[t].installing)}
     ELSE UNCHANGED <<AtforkHookInstalled, Atfork>>
  /\ nextId' = nextId + 1
  /\ M' = None
  /\ pc' = [pc EXCEPT ![t].installing = None]
  /\ UNCHANGED <<QuickExit, ForkSnapshot, QuickExitHookInstalled, atforkLock,
                 phase, regs, ran, wildCall, exited>>

-----------------------------------------------------------------------------
(* Draining quick-exit handlers: flushOwner and runAllQuickExitHandlers. *)

\* ~Interpreter calls flushOwner.  The client deletes an interpreter only when
\* none of its own calls into it is still running.
BeginTeardown(t, o) ==
  /\ ~exited /\ pc[t] = Idle /\ phase[o] = "up"
  /\ \A u \in Threads : pc[u].installing # o
  /\ phase' = [phase EXCEPT ![o] = "flush"]
  /\ pc' = [pc EXCEPT ![t] = Stage("take", o, "flush")]
  /\ UNCHANGED <<QuickExit, Atfork, ForkSnapshot, QuickExitHookInstalled, M,
                 AtforkHookInstalled, atforkLock, regs, ran, nextId, wildCall, exited>>

\* quick_exit runs the hook, if it was ever installed.
BeginQuickExit(t) ==
  /\ ~exited /\ pc[t] = Idle /\ QuickExitHookInstalled
  /\ \A u \in Threads : pc[u].why # "exit"
  /\ pc' = [pc EXCEPT ![t] = Stage("take", None, "exit")]
  /\ UNCHANGED <<QuickExit, Atfork, ForkSnapshot, QuickExitHookInstalled, M, phase,
                 AtforkHookInstalled, atforkLock, regs, ran, nextId, wildCall, exited>>

\* Faulty variant: the scan stops at the first entry of another owner.
CandidatesUpToMismatch(t) ==
  {e \in QuickExit : pc[t].why = "flush" =>
                       \A f \in QuickExit : f.id >= e.id => f.Owner = pc[t].owner}

\* The entries takeLastQuickExit considers: the owner's, or all of them.
Candidates(t) ==
  {e \in QuickExit : pc[t].why = "flush" => e.Owner = pc[t].owner}

\* Faulty variant: the entry is left in place until its handler has run.
TakeWithoutErase(t) ==
  /\ ~exited /\ pc[t].at = "take" /\ M = None
  /\ \/ \E e \in Candidates(t) :
          /\ \A f \in Candidates(t) : f.id <= e.id
          /\ pc' = [pc EXCEPT ![t] = Calling(e, pc[t].why, 0)]
          /\ UNCHANGED QuickExit
          /\ UNCHANGED exited
     \/ /\ Candidates(t) = {}
        /\ pc' = [pc EXCEPT ![t] = IF pc[t].why = "flush"
                                   THEN Stage("drop", pc[t].owner, "flush") ELSE Idle]
        /\ exited' = (pc[t].why = "exit")
        /\ UNCHANGED QuickExit
  /\ UNCHANGED <<Atfork, ForkSnapshot, QuickExitHookInstalled, M, phase,
                 AtforkHookInstalled, atforkLock, regs, ran, nextId, wildCall>>

\* takeLastQuickExit erases the last candidate under M; the loop then calls
\* it.  Without one, flushOwner goes on to the atfork entries and
\* quick_exit ends the process.
takeLastQuickExit(t) ==
  /\ ~exited /\ pc[t].at = "take" /\ M = None
  /\ \/ \E e \in Candidates(t) :
          /\ \A f \in Candidates(t) : f.id <= e.id
          /\ pc' = [pc EXCEPT ![t] = Calling(e, pc[t].why, 0)]
          /\ QuickExit' = QuickExit \ {e}
          /\ UNCHANGED exited
     \/ /\ Candidates(t) = {}
        /\ pc' = [pc EXCEPT ![t] = IF pc[t].why = "flush"
                                   THEN Stage("drop", pc[t].owner, "flush") ELSE Idle]
        /\ exited' = (pc[t].why = "exit")
        /\ UNCHANGED QuickExit
  /\ UNCHANGED <<Atfork, ForkSnapshot, QuickExitHookInstalled, M, phase,
                 AtforkHookInstalled, atforkLock, regs, ran, nextId, wildCall>>

\* Fn(): its code must still be mapped.
CallHandler(t) ==
  /\ ~exited /\ pc[t].at = "call"
  /\ wildCall' = (wildCall \/ phase[pc[t].owner] = "down")
  /\ ran' = IF pc[t].why \in {"flush", "exit"}
            THEN [ran EXCEPT ![pc[t].id] = @ + 1] ELSE ran
  /\ pc' = [pc EXCEPT ![t].at = "in"]
  /\ UNCHANGED <<QuickExit, Atfork, ForkSnapshot, QuickExitHookInstalled, M, phase,
                 AtforkHookInstalled, atforkLock, regs, nextId, exited>>

\* The handler returns to the loop that called it.
ReturnFromHandler(t) ==
  /\ ~exited /\ pc[t].at = "in" /\ pc[t].installing = None
  /\ pc' = [pc EXCEPT ![t].at = IF pc[t].why \in {"flush", "exit"} THEN "take"
                                ELSE "fork"]
  /\ UNCHANGED <<QuickExit, Atfork, ForkSnapshot, QuickExitHookInstalled, M, phase,
                 AtforkHookInstalled, atforkLock, regs, ran, nextId, wildCall, exited>>

\* Faulty variant: flushOwner goes back to the drain instead of returning.
DropAtforkAndRestart(t) ==
  /\ ~exited /\ pc[t].at = "drop" /\ M = None
  /\ Atfork' = {e \in Atfork : e.Owner # pc[t].owner}
  /\ pc' = [pc EXCEPT ![t].at = "take"]
  /\ UNCHANGED <<QuickExit, ForkSnapshot, QuickExitHookInstalled, M, phase, ran,
                 AtforkHookInstalled, atforkLock, regs, nextId, wildCall, exited>>

\* The end of flushOwner: the owner's atfork entries are erased under M.
DropAtfork(t) ==
  /\ ~exited /\ pc[t].at = "drop" /\ M = None
  /\ Atfork' = {e \in Atfork : e.Owner # pc[t].owner}
  /\ phase' = [phase EXCEPT ![pc[t].owner] = "deinit"]
  /\ pc' = [pc EXCEPT ![t] = Stage("deinit", pc[t].owner, "flush")]
  /\ UNCHANGED <<QuickExit, ForkSnapshot, QuickExitHookInstalled, M, ran,
                 AtforkHookInstalled, atforkLock, regs, nextId, wildCall, exited>>

\* After the destructor's body the members go: the JIT runs its own atexit
\* handlers and static destructors (the "deinit" phase), then its code goes.
Unmap(t) ==
  /\ ~exited /\ pc[t].at = "deinit" /\ pc[t].installing = None
  /\ phase' = [phase EXCEPT ![pc[t].owner] = "down"]
  /\ pc' = [pc EXCEPT ![t] = Idle]
  /\ UNCHANGED <<QuickExit, Atfork, ForkSnapshot, QuickExitHookInstalled, M, ran,
                 AtforkHookInstalled, atforkLock, regs, nextId, wildCall, exited>>

-----------------------------------------------------------------------------
(* fork(). *)

\* glibc takes its fork lock and runs the prepare hook.
BeginFork(t) ==
  /\ ~exited /\ pc[t] = Idle /\ AtforkHookInstalled /\ atforkLock = None
  /\ atforkLock' = t
  /\ pc' = [pc EXCEPT ![t] = Stage("snapshot", None, "prepare")]
  /\ UNCHANGED <<QuickExit, Atfork, ForkSnapshot, QuickExitHookInstalled, M, phase,
                 AtforkHookInstalled, regs, ran, nextId, wildCall, exited>>

\* runAtforkPrepare copies the entries under M; the loop starts past the last one.
runAtforkPrepare(t) ==
  /\ ~exited /\ pc[t].at = "snapshot" /\ M = None
  /\ ForkSnapshot' = Atfork
  /\ pc' = [pc EXCEPT ![t] = InSnapshot("prepare", MaxRegs + 1)]
  /\ UNCHANGED <<QuickExit, Atfork, QuickExitHookInstalled, M, phase, atforkLock,
                 AtforkHookInstalled, regs, ran, nextId, wildCall, exited>>

\* The loops over the snapshot: prepare downwards, parent upwards.
Remaining(t) == {e \in ForkSnapshot : IF pc[t].why = "prepare" THEN e.id < pc[t].pos
                                                              ELSE e.id > pc[t].pos}
NextForkHandler(t) ==
  /\ ~exited /\ pc[t].at = "fork"
  /\ \E e \in Remaining(t) :
       /\ \A f \in Remaining(t) : IF pc[t].why = "prepare" THEN f.id <= e.id
                                                         ELSE f.id >= e.id
       /\ pc' = [pc EXCEPT ![t] = Calling(e, pc[t].why, e.id)]
  /\ UNCHANGED <<QuickExit, Atfork, ForkSnapshot, QuickExitHookInstalled, M, phase,
                 AtforkHookInstalled, atforkLock, regs, ran, nextId, wildCall, exited>>

\* The fork itself.  The child runs its handlers off the same snapshot, alone,
\* on the interpreters as they are at this instant.
Fork(t) ==
  /\ ~exited /\ pc[t].at = "fork" /\ pc[t].why = "prepare" /\ Remaining(t) = {}
  /\ wildCall' = (wildCall \/ \E e \in ForkSnapshot : phase[e.Owner] = "down")
  /\ pc' = [pc EXCEPT ![t] = InSnapshot("parent", 0)]
  /\ UNCHANGED <<QuickExit, Atfork, ForkSnapshot, QuickExitHookInstalled, M, phase,
                 AtforkHookInstalled, atforkLock, regs, ran, nextId, exited>>

\* The parent's handlers are done; glibc drops its lock.
EndFork(t) ==
  /\ ~exited /\ pc[t].at = "fork" /\ pc[t].why = "parent" /\ Remaining(t) = {}
  /\ atforkLock' = None
  /\ pc' = [pc EXCEPT ![t] = Idle]
  /\ UNCHANGED <<QuickExit, Atfork, ForkSnapshot, QuickExitHookInstalled, M, phase,
                 AtforkHookInstalled, regs, ran, nextId, wildCall, exited>>

-----------------------------------------------------------------------------
\* The steps a thread takes on its own inside a call.
Continue(t) ==
  \/ \E hookOk \in BOOLEAN : InstallAtforkHook(t, hookOk)
  \/ takeLastQuickExit(t) \/ CallHandler(t) \/ ReturnFromHandler(t)
  \/ DropAtfork(t) \/ Unmap(t)
  \/ runAtforkPrepare(t) \/ NextForkHandler(t) \/ Fork(t) \/ EndFork(t)

Begin(t) ==
  \/ \E o \in Owners, hookOk \in BOOLEAN : addQuickExit(t, o, hookOk)
  \/ \E o \in Owners : addAtfork(t, o) \/ BeginTeardown(t, o)
  \/ BeginQuickExit(t) \/ BeginFork(t)

\* What the registry does not defend against: a quick_exit or a fork on one
\* thread, which keeps handlers outside M, overlapping a teardown on another;
\* and an entry for an interpreter that has already been flushed.
Overlap == \E t, u \in Threads : pc[t].why = "flush" /\ pc[u].why \in {"exit", "prepare", "parent"}
LateEntry ==
  \E o \in Owners : /\ phase[o] = "deinit"
                    /\ \E e \in (QuickExit' \cup Atfork') \ (QuickExit \cup Atfork) : e.Owner = o
Observe == disturbed' = (disturbed \/ Overlap' \/ LateEntry)

\* The process exits, or nothing is left for it to do.
Done == /\ exited \/ \A t \in Threads : pc[t] = Idle
        /\ UNCHANGED vars

Next == (\E t \in Threads : (Begin(t) \/ Continue(t)) /\ Observe) \/ Done

Spec == Init /\ [][Next]_vars

\* A thread inside a registry call, or inside a handler, is scheduled again;
\* nothing obliges a client to begin anything.
FairSpec == Spec /\ \A t \in Threads : WF_vars(Continue(t) /\ Observe)

-----------------------------------------------------------------------------
(* Properties. *)

\* No handler is called once its interpreter's code is gone
\* (CompatibilityGLIBC.h:76 "no jitted pointer outlives the code it targets"),
\* with registrations, teardowns, forks and quick_exit on any thread, as long
\* as no teardown overlaps a fork or a quick_exit.
NoWildCall == ~disturbed => ~wildCall

\* No registry entry belongs to an interpreter whose code is gone, so that a
\* later fork or quick_exit has nothing stale to call.
NoStaleEntry ==
  ~disturbed => \A e \in QuickExit \cup Atfork : phase[e.Owner] # "down"

\* A quick-exit handler is called at most once, whichever of quick_exit and the
\* teardowns on other threads takes it first.
AtMostOnce == \A e \in regs : ran[e.id] <= 1

\* And it is called: by the time its interpreter is gone or quick_exit ends the
\* process, whichever thread registered it.
ExactlyOnce ==
  ~disturbed => \A e \in regs : exited \/ phase[e.Owner] = "down" => ran[e.id] = 1

\* The life of a handler: as long as no teardown overlaps a fork or a
\* quick_exit of another thread, it is called once and before its code is
\* unmapped, and its entry is gone with its interpreter (runAtExit and
\* runAtfork of CompatibilityGLIBC.h).
HandlersExact == TypeOK /\ NoWildCall /\ NoStaleEntry /\ ExactlyOnce

\* M and glibc's fork lock are never waited for in a circle: a thread that
\* holds M and needs the fork lock never meets one that forks and needs M.
NoLockCycle ==
  \A t, u \in Threads :
    ~(/\ M = t /\ pc[t].installing # None
      /\ atforkLock = u /\ u # t
      /\ pc[u].at = "snapshot")

\* A teardown, a fork or a quick_exit that was begun finishes, or the process
\* exits: flushOwner and the hooks wait for M and for glibc's fork lock, and
\* each handler they call may register another one.
CallsComplete == \A t \in Threads : pc[t] # Idle ~> (pc[t] = Idle \/ exited)
=============================================================================
