-------------------------------- MODULE Session --------------------------------
(***************************************************************************)
(* One interpreter from its creation on: it is created from a host's       *)
(* arguments, given code to process, declare, evaluate and wrap, libraries *)
(* and include directories, and asked to undo; evaluated values live in    *)
(* boxes of the client.                                                    *)
(***************************************************************************)
EXTENDS Creation, JitModules, Boxes

CONSTANTS Hosts,        \* the circumstances an interpreter may be created in
          Program,      \* [code, globals]
          Libraries,    \* the sets of symbols a library may export
          Directories,  \* include directories a client names
          Existing,     \* those that exist from the start
          Uses(_),      \* bound: what is done with the interpreter of a host, of
                        \* "inputs", "paths" and "boxes"
          MaxSize       \* bound on the live units, added directories and boxes

(* What C++ and its ABI say of a program: a variable comes with its guard   *)
(* in every input or in none, a guard guards one variable and is           *)
(* thread_local if that is; and libraries have no emulated thread_locals.  *)
ASSUME ProgramAssumption ==
  LET globals == Program.globals
      inputs == DOMAIN Program.code
  IN  /\ "internal" \in inputs
      /\ \A c \in inputs : Program.code[c].defines \subseteq DOMAIN globals
      /\ \A v, g \in DOMAIN globals : globals[v].guard = g =>
           /\ \A c \in inputs : v \in Program.code[c].defines <=> g \in Program.code[c].defines
           /\ \A w \in DOMAIN globals : globals[w].guard = g => w = v
           /\ globals[g].guard \notin DOMAIN globals
           /\ globals[v].threadLocal <=> globals[g].threadLocal
      /\ \A symbols \in Libraries :
           symbols \subseteq {s \in DOMAIN globals : ~globals[s].threadLocal}

VARIABLE interp         \* what CreateInterpreter made

vars == <<host, interp, unitVars, pathVars, boxVars>>

Init ==
  /\ host \in Hosts
  /\ interp = NoInterpreter
  /\ Code = Program.code /\ Globals = Program.globals
  /\ ptus = <<>> /\ DedupedWeakTLS = {} /\ exports = {}
  /\ engineMade = FALSE /\ undone = {} /\ misreported = FALSE
  /\ PathsInit(Existing, <<[path |-> "/usr/include", group |-> "System"]>>)
  /\ BoxesInit

\* The passes look at the request for another process, not at what came of it.
InProcess == ~interp.outOfProcess

Running(use) == interp.made /\ use \in Uses(host) /\ UNCHANGED <<host, interp>>

Room == Len(ptus) + Len(asked) + Cardinality({b \in BoxNames : Live(b)}) < MaxSize

\* A C++ interpreter declares a helper namespace as its first input.
Created ==
  /\ ~interp.made
  /\ interp' = CreateInterpreter
  /\ interp'.made
  /\ IF interp'.language # "C"
     THEN Enter("internal", FALSE, ~interp'.outOfProcess)
     ELSE UNCHANGED <<ptus, DedupedWeakTLS, undone>>
  /\ UNCHANGED <<host, Code, Globals, exports, engineMade, misreported, pathVars, boxVars>>

\* The null InterpRef; the embedder gives up.
CreationFails == ~interp.made /\ ~CreateInterpreter.made /\ UNCHANGED vars

Process(code) == Running("inputs") /\ process(code, InProcess) /\ UNCHANGED boxVars
DeclareCode(code, silent) == Running("inputs") /\ Declare(code, silent, InProcess) /\ UNCHANGED boxVars
MakeWrapper(code) == Running("inputs") /\ ParseAndExecute(code, InProcess) /\ UNCHANGED boxVars
GetAddress == Running("inputs") /\ makeEngineOnce /\ UNCHANGED boxVars

Evaluate(code, b, p) ==
  /\ Running("boxes")
  /\ evaluate(code)
  /\ LET kind == classifyByQualType(Code[code].value)
     IN  IF ~Evaluated(code) \/ Code[code].value = "void" THEN MakePlainBox(b, Unspecified)
         ELSE IF kind = "PtrOrObj" THEN MakeValueBox(b, p)
         ELSE MakePlainBox(b, Create(kind))

UndoInputs(n) == Running("inputs") /\ Undo(n) /\ UNCHANGED boxVars
Load(symbols) == Running("inputs") /\ ~(symbols \subseteq exports) /\ LoadLibrary(symbols) /\ UNCHANGED boxVars

OnPaths(A) ==
  /\ Running("paths") /\ A
  /\ UNCHANGED <<unitVars, boxVars>>
OnBoxes(A) ==
  /\ Running("boxes") /\ A
  /\ UNCHANGED <<unitVars, pathVars>>

Codes == DOMAIN Code \ {"internal"}

Next ==
  \/ Created
  \/ CreationFails
  \/ /\ Room
     /\ \E code \in Codes :
          \/ Process(code)
          \/ \E silent \in BOOLEAN : DeclareCode(code, silent)
          \/ MakeWrapper(code)
          \/ \E b \in BoxNames, p \in Payloads : Evaluate(code, b, p)
  \/ Room /\ GetAddress
  \/ \E n \in 1 .. 2 : UndoInputs(n)
  \/ \E symbols \in Libraries : Load(symbols)
  \/ \E dir \in Directories : Room /\ OnPaths(AddIncludePath(dir))
  \/ \E dir \in Directories : OnPaths(MakeDirectory(dir))
  \/ \E b, o \in BoxNames :
       \/ Room /\ OnBoxes(CopyConstruct(b, o))
       \/ OnBoxes(CopyAssign(b, o))
       \/ Room /\ OnBoxes(MoveConstruct(b, o))
       \/ OnBoxes(MoveAssign(b, o))
  \/ \E b \in BoxNames : OnBoxes(Destroy(b))
  \/ \E p \in Payloads : OnBoxes(Delete(p))

Spec == Init /\ [][Next]_vars

-----------------------------------------------------------------------------
(* Properties *)

(* Every variable has its type; a box is of a kind visit() dispatches on,  *)
(* an object, or empty.                                                    *)
TypeOK ==
  /\ interp.made \in BOOLEAN
  /\ \A i \in DOMAIN ptus :
       /\ ptus[i].via \in {"passes", "evaluate"}
       /\ DOMAIN ptus[i].linkage \subseteq DOMAIN Globals
       /\ \A s \in DOMAIN ptus[i].linkage :
            /\ ptus[i].linkage[s] \in {"weak", "available", "external"}
            /\ ptus[i].bound[s][2] \in 0 .. i
  /\ DedupedWeakTLS \subseteq DOMAIN Globals /\ exports \subseteq DOMAIN Globals
  /\ box \in [BoxNames -> BoxValues \cup {Null}]
  /\ rc \in [Payloads -> Nat \cup {Null}] /\ doomed \subseteq Payloads

(* The compiler and the library search agree on the resource directory,    *)
(* and it is the embedder's when the embedder names one: whatever the      *)
(* packager baked in and wherever it stands on the command line.           *)
OneResourceDir ==
  (/\ interp.made
   /\ ResourceDirFlag \notin Range(host.env)
   /\ Wanted \in host.directories \cup {""}
   /\ ResourceDir # "")
     => /\ interp.resourceDir = interp.libraryPaths[1].dir
        /\ ExtractArgument(host.args, ResourceDirFlag) \in {"", interp.resourceDir}

(* The shims that hand out addresses of this process are installed exactly *)
(* for code that runs in it (an interpreter that fell back from another    *)
(* process has none).                                                      *)
ShimsWhereCodeRuns ==
  (interp.made /\ ~FellBack) => interp.glibcShims = ~interp.elsewhere

\* An interpreter is what its arguments ask for: one resource directory for
\* the compiler and the library search, the embedder's if there is one, and
\* the shims of this process exactly where its code runs in it.
CreatedAsAsked == TypeOK /\ OneResourceDir /\ ShimsWhereCodeRuns
================================================================================
