------------------------------- MODULE Tracing -------------------------------
(***************************************************************************)
(* Tracing.h and Tracing.cpp: every API call opens a TraceRegion, and the  *)
(* outermost ones are written to a log that is itself a C++ program, the   *)
(* reproducer: it declares a name vN for every pointer a call produced     *)
(* and passes these names to later calls.                                  *)
(*                                                                         *)
(* A line of the log is a declaration of a buffer _outN, a call, the       *)
(* extraction of a name from a buffer (_outN or _retN), or a comment about *)
(* a JitCall.  A call line keeps what the call really did (fx), which is   *)
(* what replaying it would do again.  Printing is left out, also that to   *)
(* stderr.                                                                 *)
(***************************************************************************)
EXTENDS Naturals, Sequences, FiniteSets, SequencesExt

CONSTANTS
    Functions,    \* API functions; two of them are called while a file is written
    GetVersion, GetBuildInfo,
    Pointers,     \* what calls take and return
    Containers,   \* vectors of pointers that callers pass to be filled
    None,         \* nullptr, or no container
    Vectors,      \* what calls return that return a vector
    Fills,        \* what they append to a container
    MaxCalls,     \* bounds: calls that are logged,
    MaxRegions,   \* regions,
    MaxOthers,    \* JitCalls, changes of a container, clears,
    MaxLog,       \* lines of the log,
    MaxDepth,     \* calls inside one another,
    MaxContent    \* and what a container holds

PointerOrNull == Pointers \cup {None}

ASSUME TracingAssumption ==
  /\ {GetVersion, GetBuildInfo} \subseteq Functions /\ None \notin Pointers \cup Containers \cup Nat
  /\ Vectors \cup Fills \subseteq Seq(PointerOrNull)

VARIABLES
    TI,           \* *TheTraceInfo
    enabled,      \* TheTraceInfo # nullptr
    frames,       \* the TraceRegions alive, outermost first
    content,      \* container -> the pointers in it
    touched,      \* the buffers of containers changed by others than logged calls
    jitNames,     \* the names given to what a JitCall returned
    calls,        \* how many calls were logged
    regions,      \* how many regions were started
    others,       \* and how many of the other operations there were
    region,       \* the lines' calls since StartTracing, <<>> outside
    files,        \* what StopTracing has written: [lines, calls] each
    made,         \* the calls logged since the last clear
    reproducer    \* <<[lines, calls, inside]>> when a crash has ended the process

traceVars == <<TI, enabled, frames, content, touched, jitNames, calls, regions, others, region,
               files, made, reproducer>>

-----------------------------------------------------------------------------
(* TraceInfo *)

\* A pointer without a name has the name 0.
NewTraceInfo ==
  [handles |-> [p \in Pointers |-> 0], varCount |-> 0, retCount |-> 0, outCount |-> 0,
   outAliases |-> [c \in Containers |-> None],
   log |-> <<>>, timerStack |-> <<>>, running |-> {}, dumping |-> FALSE,
   inRegion |-> FALSE, regionStart |-> 0, onStdErr |-> FALSE, path |-> FALSE]

lookupHandle(T, p) == IF p = None THEN 0 ELSE T.handles[p]

isNew(T, p) == p # None /\ lookupHandle(T, p) = 0

\* The name of a pointer: a number, the next one for a pointer the tracer has
\* not seen.
getOrRegisterHandle(T, p) ==
  IF isNew(T, p) THEN [T EXCEPT !.varCount = @ + 1, !.handles[p] = T.varCount + 1] ELSE T

\* A bug: every call gets a buffer of its own.
outIndexAlwaysFresh(T, c) == [idx |-> T.outCount, first |-> TRUE]

\* One buffer per container, whoever passes it.
outIndexFor(T, c) ==
  IF T.outAliases[c] # None THEN [idx |-> T.outAliases[c], first |-> FALSE]
  ELSE [idx |-> T.outCount, first |-> TRUE]

appendToLog(T, line) == IF T.dumping THEN T ELSE [T EXCEPT !.log = Append(@, line)]

setLogEntry(T, idx, line) == IF T.dumping THEN T ELSE [T EXCEPT !.log[idx] = line]

\* Only the timer of the innermost call runs.
pushTimer(T, fn) ==
  [T EXCEPT !.timerStack = Append(@, fn),
            !.running = (@ \ (IF T.timerStack = <<>> THEN {} ELSE {Last(T.timerStack)})) \cup {fn}]

popTimer(T) ==
  IF T.timerStack = <<>> THEN T
  ELSE LET rest == Front(T.timerStack)
       IN  [T EXCEPT !.timerStack = rest,
                     !.running = (@ \ {Last(T.timerStack)}) \cup (IF rest = <<>> THEN {} ELSE {Last(rest)})]

\* The region and the dumping flag stay as they are.
clear(T) ==
  [NewTraceInfo EXCEPT !.inRegion = T.inRegion, !.regionStart = T.regionStart,
                       !.onStdErr = T.onStdErr, !.path = T.path, !.dumping = T.dumping]

-----------------------------------------------------------------------------
(* Lines *)

OutDecl(n)         == [k |-> "out", n |-> n]
Element(v, buf, i) == [k |-> "element", v |-> v, buf |-> buf, i |-> i]
Comment(text)      == [k |-> "comment", text |-> text]

NoEffect == [result |-> None, vec |-> <<>>, filled |-> <<>>]

\* uses: the names in the argument list; out: the buffer passed, if any;
\* v: the name the result is given, 0 if none; ret: the _retN, if any.
CallLine(fn, uses, out, done, v, ret, fx) ==
  [k |-> "call", fn |-> fn, uses |-> uses, out |-> out, done |-> done, v |-> v, ret |-> ret, fx |-> fx]

-----------------------------------------------------------------------------
(* TraceRegion *)

Untraced == [traced |-> FALSE]

\* ReproBuffer: the names in an argument list; an unseen pointer is printed as
\* nullptr.
format(T, arg) == {lookupHandle(T, arg)} \ {0}

\* The slot the placeholder will have, after the declaration of a new buffer.
placeholderSlot(T, first) ==
  IF T.dumping THEN 0 ELSE Len(T.log) + IF first THEN 2 ELSE 1

\* What the constructor keeps of a call; inside another one it is not logged.
TraceData(T, fn, arg, c, before) ==
  LET nested == T.timerStack # <<>>
      buffer == ~nested /\ c # None
      first  == buffer /\ outIndexFor(T, c).first
  IN  [traced |-> TRUE, nested |-> nested, fn |-> fn, uses |-> IF nested THEN {} ELSE format(T, arg),
       c |-> c, out |-> IF buffer THEN outIndexFor(T, c).idx ELSE None, first |-> first,
       index |-> IF nested THEN 0 ELSE placeholderSlot(T, first), before |-> before]

\* The constructor: a new buffer is declared, and the line is a placeholder.
EnterRegion(T, r) ==
  LET T1 == IF r.first
            THEN appendToLog([T EXCEPT !.outCount = @ + 1, !.outAliases[r.c] = r.out], OutDecl(r.out))
            ELSE T
      T2 == IF r.nested THEN T1
            ELSE appendToLog(T1, CallLine(r.fn, r.uses, r.out, FALSE, 0, None, NoEffect))
  IN  pushTimer(T2, r.fn)

\* An element of a buffer: one that is new gets a name and a line.
RegisterElement(z, p, buf, i) ==
  IF isNew(z.TI, p)
  THEN [TI |-> getOrRegisterHandle(z.TI, p), lines |-> Append(z.lines, Element(z.TI.varCount + 1, buf, i))]
  ELSE z

\* The elements in turn.
RegisterHandles(T, ps, buf) ==
  LET upTo[i \in 0..Len(ps)] ==
        IF i = 0 THEN [TI |-> T, lines |-> <<>>] ELSE RegisterElement(upTo[i - 1], ps[i], buf, i)
  IN  upTo[Len(ps)]

\* "auto vN = " for a result not seen before.
resultName(T, p) == IF isNew(T, p) THEN T.varCount + 1 ELSE 0

\* The destructor: vector tells whether one was returned, fx what the call did,
\* filled what the OUT container holds now.  The elements of a returned vector
\* get their names first and their lines last.
LeaveRegion(T, r, vector, fx, filled) ==
  LET T1  == popTimer(T)
      ret == IF vector THEN T1.retCount ELSE None
      V   == RegisterHandles(T1, fx.vec, <<"ret", ret>>)
      T2  == IF vector THEN [V.TI EXCEPT !.retCount = @ + 1] ELSE V.TI
      T3  == setLogEntry(getOrRegisterHandle(T2, fx.result), r.index,
                CallLine(r.fn, r.uses, r.out, TRUE, resultName(T2, fx.result), ret, fx))
      O   == RegisterHandles(T3, filled, <<"out", r.out>>)
  IN  IF r.nested THEN T1
      ELSE IF T.dumping THEN O.TI ELSE [O.TI EXCEPT !.log = @ \o O.lines \o V.lines]

-----------------------------------------------------------------------------
(* Files *)

\* A traced call of the tracer's own.
OwnCall(T, fn) ==
  LET r == TraceData(T, fn, None, None, 0) IN LeaveRegion(EnterRegion(T, r), r, FALSE, NoEffect, <<>>)

\* A file is written under DumpScope; its prologue asks for the version and the
\* build, which are traced functions.
Dump(T) ==
  LET D == OwnCall(OwnCall([T EXCEPT !.dumping = TRUE], GetVersion), GetBuildInfo)
  IN  [D EXCEPT !.dumping = FALSE]

\* StopRegion writes the lines from here on.
RegionLines(T) == SubSeq(Dump(T).log, T.regionStart + 1, Len(Dump(T).log))

\* A bug: only the lines of the region.
LinesOfTheRegion(T) == RegionLines(T)

\* The file of a crash holds everything.
writeToFile(T) == Dump(T).log

-----------------------------------------------------------------------------

\* The calls alive that are traced.
TracedFrames == {i \in DOMAIN frames : frames[i].traced}

TracingInit ==
  /\ TI = NewTraceInfo /\ enabled = FALSE /\ frames = <<>>
  /\ content = [c \in Containers |-> <<>>] /\ touched = {} /\ jitNames = {}
  /\ calls = 0 /\ regions = 0 /\ others = 0 /\ region = <<>> /\ files = <<>> /\ made = <<>> /\ reproducer = <<>>

\* CPPINTEROP_LOG is set when the first interpreter is asked for.
InitTracing ==
  /\ ~enabled /\ enabled' = TRUE
  /\ UNCHANGED <<TI, frames, content, touched, jitNames, calls, regions, others, region, files, made, reproducer>>

RegionStart(T) == Len(T.log)

\* One more of the operations MaxOthers bounds.
Other == others < MaxOthers /\ others' = others + 1

\* Without a file the path of the last region stays.
StartTracing(onStdErr, created) ==
  /\ regions < MaxRegions /\ regions' = regions + 1
  /\ enabled' = TRUE
  /\ TI' = [TI EXCEPT !.regionStart = RegionStart(TI), !.inRegion = TRUE, !.onStdErr = onStdErr,
                      !.path = IF onStdErr THEN FALSE ELSE @ \/ created]
  /\ region' = <<>>
  /\ UNCHANGED <<frames, content, touched, jitNames, calls, others, files, made, reproducer>>

StopTracing ==
  /\ enabled /\ TI.inRegion
  /\ LET stopped == [TI EXCEPT !.inRegion = FALSE]
     IN  IF TI.onStdErr \/ ~TI.path THEN TI' = stopped /\ UNCHANGED files
         ELSE /\ TI' = Dump(stopped)
              /\ files' = Append(files, [lines |-> RegionLines(stopped), calls |-> region])
  /\ region' = <<>>
  /\ UNCHANGED <<enabled, frames, content, touched, jitNames, calls, regions, others, made, reproducer>>

\* A call from outside or, while another one runs, from inside it; then the
\* container can only be the one the outer call fills.
EnterCall(fn, arg, c) ==
  /\ Len(frames) < MaxDepth /\ calls < MaxCalls /\ Len(TI.log) < MaxLog
  /\ frames # <<>> /\ c # None => Last(frames).traced /\ Last(frames).c = c
  /\ LET r      == TraceData(TI, fn, arg, c, IF c = None THEN 0 ELSE Len(content[c]))
         logged == enabled /\ ~r.nested
     IN  /\ TI' = IF enabled THEN EnterRegion(TI, r) ELSE TI
         /\ frames' = Append(frames, IF enabled THEN r ELSE Untraced)
         /\ calls' = calls + IF logged THEN 1 ELSE 0
         /\ made' = IF logged THEN Append(made, fn) ELSE made
         /\ region' = IF logged /\ TI.inRegion THEN Append(region, fn) ELSE region
  /\ UNCHANGED <<enabled, content, touched, jitNames, regions, others, files, reproducer>>

\* What a call did to its container since it was entered.
Filled(r, now) == SubSeq(now, r.before + 1, Len(now))

\* The call returns a pointer, a vector or nothing, and may have appended to
\* its container.
ReturnCall(vector, result, vec, new) ==
  /\ frames # <<>>
  /\ LET r   == Last(frames)
         c   == IF r.traced THEN r.c ELSE None
         now == IF c = None THEN <<>> ELSE content[c] \o new
         fx  == [result |-> result, vec |-> vec, filled |-> IF c = None THEN <<>> ELSE Filled(r, now)]
     IN  /\ new # <<>> => c # None
         /\ Len(now) <= MaxContent
         /\ content' = IF c = None THEN content ELSE [content EXCEPT ![c] = now]
         /\ TI' = IF r.traced THEN LeaveRegion(TI, r, vector, fx, now) ELSE TI
         /\ frames' = Front(frames)
  /\ UNCHANGED <<enabled, touched, jitNames, calls, regions, others, region, files, made, reproducer>>

\* make_wrapper, JitCall::Invoke and InvokeDestructor leave comments; self is
\* looked up, not registered.
JitCallInvoke ==
  /\ Other /\ enabled /\ Len(TI.log) < MaxLog
  /\ TI' = appendToLog(TI, Comment("JitCall"))
  /\ UNCHANGED <<enabled, frames, content, touched, jitNames, calls, regions, region, files, made, reproducer>>

\* The pointer a constructor or a call through JitCall returned gets a name,
\* and no line.
JitCallReturn(p) ==
  /\ Other /\ enabled /\ TI' = getOrRegisterHandle(TI, p)
  /\ jitNames' = IF isNew(TI, p) THEN jitNames \cup {TI'.varCount} ELSE jitNames
  /\ UNCHANGED <<enabled, frames, content, touched, calls, regions, region, files, made, reproducer>>

\* The caller changes a container, or another one takes its address.
TouchContainer(c) ==
  /\ Other /\ frames = <<>> /\ content[c] # <<>>
  /\ content' = [content EXCEPT ![c] = <<>>] /\ touched' = touched \cup {outIndexFor(TI, c).idx}
  /\ UNCHANGED <<TI, enabled, frames, jitNames, calls, regions, region, files, made, reproducer>>

\* Between two test cases.
Clear ==
  /\ Other /\ enabled /\ frames = <<>> /\ ~TI.inRegion
  /\ TI' = clear(TI) /\ touched' = {} /\ jitNames' = {} /\ made' = <<>> /\ content' = [c \in Containers |-> <<>>]
  /\ UNCHANGED <<enabled, frames, calls, regions, region, files, reproducer>>

\* A signal: the crash handler saves the reproducer and ends the process.
\* Without tracing, or when no file can be created, nothing is left of the run.
DefaultProcessCrashHandler ==
  /\ enabled
  /\ reproducer' = <<[lines |-> writeToFile(TI), calls |-> made, inside |-> TracedFrames # {}]>>
  /\ TI' = NewTraceInfo /\ enabled' = FALSE /\ frames' = <<>>
  /\ content' = [c \in Containers |-> <<>>] /\ touched' = {} /\ jitNames' = {}
  /\ calls' = 0 /\ regions' = 0 /\ others' = 0 /\ region' = <<>> /\ files' = <<>> /\ made' = <<>>

Alive ==
  \/ InitTracing \/ StopTracing \/ JitCallInvoke \/ Clear \/ DefaultProcessCrashHandler
  \/ \E onStdErr, created \in BOOLEAN : frames = <<>> /\ files = <<>> /\ StartTracing(onStdErr, created)
  \/ \E fn \in Functions \ {GetVersion, GetBuildInfo}, arg \in PointerOrNull, c \in Containers \cup {None} :
        EnterCall(fn, arg, c)
  \/ \E new \in {<<>>} \cup Fills :
        \/ \E p \in PointerOrNull : ReturnCall(FALSE, p, <<>>, new)
        \/ \E vec \in Vectors : ReturnCall(TRUE, None, vec, new)
  \/ \E p \in Pointers : JitCallReturn(p)
  \/ \E c \in Containers : TouchContainer(c)

TracingNext == reproducer = <<>> /\ Alive

TracingSpec == TracingInit /\ [][TracingNext]_traceVars

-----------------------------------------------------------------------------
(* What replaying the log gives: the pointer each name is bound to, and what *)
(* each buffer holds.                                                        *)

With(f, x, v) == [y \in DOMAIN f \cup {x} |-> IF y = x THEN v ELSE f[y]]

At(f, x, default) == IF x \in DOMAIN f THEN f[x] ELSE default

\* What a call adds: the vector it returned, what it appended to its buffer, and
\* the name of its result.
Called(m, line) ==
  LET b1 == IF line.ret = None THEN m.buf ELSE With(m.buf, <<"ret", line.ret>>, line.fx.vec)
      o  == <<"out", line.out>>
  IN  [env |-> IF line.v = 0 THEN m.env ELSE With(m.env, line.v, line.fx.result),
       buf |-> IF line.out = None THEN b1 ELSE With(b1, o, At(b1, o, <<>>) \o line.fx.filled)]

Replayed(m, line) ==
  IF line.k = "out" THEN [m EXCEPT !.buf = With(@, <<"out", line.n>>, <<>>)]
  ELSE IF line.k = "element"
       THEN [m EXCEPT !.env = With(@, line.v, At(At(m.buf, line.buf, <<>>), line.i, None))]
       ELSE IF line.k = "call" THEN Called(m, line) ELSE m

\* After the first n lines.
Replay(log, n) ==
  LET after[i \in 0..n] ==
        IF i = 0 THEN [env |-> <<>>, buf |-> <<>>] ELSE Replayed(after[i - 1], log[i])
  IN  after[n]

DeclaredBy(line) == IF line.k \in {"call", "element"} THEN {line.v} \ {0} ELSE {}
UsedBy(line)     == IF line.k = "call" THEN line.uses ELSE {}
BuffersUsedBy(line) ==
  IF line.k = "call" /\ line.out # None THEN {<<"out", line.out>>}
  ELSE IF line.k = "element" THEN {line.buf} ELSE {}
BuffersDeclaredBy(line) ==
  IF line.k = "out" THEN {<<"out", line.n>>}
  ELSE IF line.k = "call" /\ line.ret # None THEN {<<"ret", line.ret>>} ELSE {}

\* What the first n lines declare.
Declared(log, n)        == UNION {DeclaredBy(log[j]) : j \in 1..n}
BuffersDeclared(log, n) == UNION {BuffersDeclaredBy(log[j]) : j \in 1..n}

AddCall(fns, line) == IF line.k = "call" THEN Append(fns, line.fn) ELSE fns

\* The functions called, in order.
CallsIn(lines) ==
  LET upTo[i \in 0..Len(lines)] ==
        IF i = 0 THEN <<>> ELSE AddCall(upTo[i - 1], lines[i])
  IN  upTo[Len(lines)]

CallLines(lines) == {i \in DOMAIN lines : lines[i].k = "call"}

-----------------------------------------------------------------------------

Effects == [result : PointerOrNull, vec : Seq(PointerOrNull), filled : Seq(PointerOrNull)]

Lines ==
  [k : {"out"}, n : Nat]
    \cup [k : {"element"}, v : Nat, buf : {"out", "ret"} \X Nat, i : Nat]
    \cup [k : {"comment"}, text : {"JitCall"}]
    \cup [k : {"call"}, fn : Functions, uses : SUBSET Nat, out : Nat \cup {None}, done : BOOLEAN, v : Nat,
          ret : Nat \cup {None}, fx : Effects]

TraceInfos ==
  [handles : [Pointers -> Nat], varCount : Nat, retCount : Nat, outCount : Nat,
   outAliases : [Containers -> Nat \cup {None}], log : Seq(Lines), timerStack : Seq(Functions),
   running : SUBSET Functions, dumping : BOOLEAN, inRegion : BOOLEAN, regionStart : Nat,
   onStdErr : BOOLEAN, path : BOOLEAN]

Frames ==
  {Untraced} \cup
  [traced : {TRUE}, nested : BOOLEAN, fn : Functions, uses : SUBSET Nat, c : Containers \cup {None},
   out : Nat \cup {None}, first : BOOLEAN, index : Nat, before : Nat]

\* The types of the tracer's state, whose names and buffers are those given out.
TracingTypeOK ==
  /\ TI \in TraceInfos /\ ~TI.dumping /\ frames \in Seq(Frames)
  /\ \A p \in Pointers : TI.handles[p] \in 0..TI.varCount
  /\ \A c \in Containers : TI.outAliases[c] \in 0..(TI.outCount - 1) \cup {None}
  /\ content \in [Containers -> Seq(PointerOrNull)]

\* The reproducer compiles: a name or a buffer a line mentions is declared by an
\* earlier line, once - but for the names JitCall gives (CppInterOpTypes.h),
\* which have no line.  ~TraceRegion writes names long after the constructor
\* fixed where the call's line stands.
NamesDeclared ==
  \A i \in DOMAIN TI.log :
    /\ UsedBy(TI.log[i]) \subseteq Declared(TI.log, i - 1) \cup jitNames
    /\ BuffersUsedBy(TI.log[i]) \subseteq BuffersDeclared(TI.log, i - 1)
    /\ DeclaredBy(TI.log[i]) \cap Declared(TI.log, i - 1) = {}
    /\ BuffersDeclaredBy(TI.log[i]) \cap BuffersDeclared(TI.log, i - 1) = {}

\* The whole claim of the reproducer, TracingTests.cpp: it compiles.
ReproducerCompiles ==
  \A i \in DOMAIN TI.log : UsedBy(TI.log[i]) \subseteq Declared(TI.log, i - 1)

\* The names read out of a buffer whose container others changed.
StaleNames ==
  UNION {DeclaredBy(TI.log[i]) : i \in {j \in DOMAIN TI.log :
           TI.log[j].k = "element" /\ TI.log[j].buf \in {<<"out", b>> : b \in touched}}}

\* Replaying the log hands every later call the pointers of the original run:
\* the name of a pointer is bound to that pointer, whether it was returned,
\* read out of a returned vector, or out of a container that several calls,
\* nested ones too, filled.
ReplayBindsSame ==
  \A p \in Pointers :
    TI.handles[p] \notin {0} \cup jitNames \cup StaleNames =>
      At(Replay(TI.log, Len(TI.log)).env, TI.handles[p], None) = p

\* A crash inside a call leaves that call in the log: the outermost call alive
\* is there, marked as not returned, with its own arguments, and every other
\* line is of a call that returned.
InProgressRecorded ==
  LET outer == {i \in TracedFrames : ~frames[i].nested}
  IN  /\ {i \in CallLines(TI.log) : ~TI.log[i].done} = {frames[i].index : i \in outer}
      /\ \A i \in outer :
           /\ \A j \in TracedFrames : i <= j
           /\ TI.log[frames[i].index] =
                CallLine(frames[i].fn, frames[i].uses, frames[i].out, FALSE, 0, None, NoEffect)

\* Time is charged to the innermost call alone, also after it returned.
TimersFollowCalls ==
  LET untraced == Len(frames) - Len(TI.timerStack)
  IN  /\ TracedFrames = (untraced + 1)..Len(frames)
      /\ \A i \in TracedFrames : TI.timerStack[i - untraced] = frames[i].fn
      /\ TI.running = IF TracedFrames = {} THEN {} ELSE {Last(frames).fn}

\* At every moment the log is a program that compiles, but for the names
\* JitCall gave, binds every name to the pointer it had, and holds the call in
\* progress, whose time is its own (TraceRegion and TraceInfo of Tracing.h).
LogExact ==
  /\ TracingTypeOK
  /\ NamesDeclared
  /\ ReplayBindsSame
  /\ InProgressRecorded
  /\ TimersFollowCalls

\* The file of a region holds the calls made between StartTracing and
\* StopTracing, in their order, and nothing the writing itself did.
RegionExact == \A i \in DOMAIN files : CallsIn(files[i].lines) = files[i].calls

\* A crash leaves a file with every call since the last clear, also those of
\* finished regions and those made before the region, and if it came inside a
\* call, that call is the last one and the only one that did not return.
CrashReproducer ==
  \A n \in DOMAIN reproducer :
    LET file == reproducer[n]
    IN  /\ CallsIn(file.lines) = file.calls
        /\ \A i \in CallLines(file.lines) :
             file.lines[i].done <=> ~file.inside \/ \E j \in CallLines(file.lines) : j > i

\* The files: a region's holds exactly the calls of the region, the one a
\* crash leaves holds every call up to the one that crashed (writeToFile).
FilesExact == RegionExact /\ CrashReproducer
=============================================================================
