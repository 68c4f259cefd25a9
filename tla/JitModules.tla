------------------------------ MODULE JitModules ------------------------------
(***************************************************************************)
(* The inputs of a session: each piece of code the interpreter parses      *)
(* becomes a partial translation unit with a module, which two passes      *)
(* rewrite before the JIT gets it.  dedupeWeakEmulatedTLS turns a second   *)
(* definition of a weak thread_local into a reference, and                 *)
(* bindProcessWeakGlobals one of a variable the process already exports.   *)
(* Undo takes the last units back.                                         *)
(*                                                                         *)
(* A symbol is looked up in the live units, oldest first, and then in the  *)
(* process, as the JIT does; a second weak definition is dropped.          *)
(***************************************************************************)
EXTENDS IncludePaths

VARIABLES
    Code,           \* name -> [syntax, needs, defines, value]; given with the program
    Globals,        \* symbol -> [threadLocal, constant, guard]; given with the program
    ptus,           \* the live units: [via: whether the passes saw it, linkage, bound, ran, had]
    DedupedWeakTLS, \* thread_locals the JIT was given a definition of
    exports,        \* the symbols dlsym(RTLD_DEFAULT) finds
    engineMade,     \* makeEngineOnce ran, in this process
    undone,         \* history: thread_locals whose definition was taken back or lost
    misreported     \* history: a call answered 0 for code that did not parse and run
                    \* without an error, or something else for code that did

unitVars == <<Code, Globals, ptus, DedupedWeakTLS, exports, engineMade, undone, misreported>>

\* The caller is told the result; clean is how it went.
Tell(result, clean) == misreported' = (misreported \/ ~(result = 0 <=> clean))

-----------------------------------------------------------------------------
(* The passes.  linkage says what a module does with a symbol it came with *)
(* a definition of: "weak" defines it, "available" and "external" only     *)
(* refer to it.                                                            *)

\* An #include needs a searched directory that has the header.
Parses(code) ==
  Code[code].syntax = "ok" /\ (Code[code].needs # {} => Found(Code[code].needs) # "")

Parsed(code) == [s \in Code[code].defines |-> "weak"]

dedupeWeakEmulatedTLS(linkage) ==
  LET tls == {s \in DOMAIN linkage : Globals[s].threadLocal}
  IN  [module  |-> [s \in DOMAIN linkage |->
                      IF s \in tls \cap DedupedWeakTLS THEN "available" ELSE linkage[s]],
       defined |-> DedupedWeakTLS \cup tls]

IsGuard(s) == \E v \in DOMAIN Globals : Globals[v].guard = s

\* A bug: a variable is demoted whether or not the process has its guard.
bindWithoutGuard(linkage) ==
  LET demoted == {s \in DOMAIN linkage : /\ ~Globals[s].threadLocal /\ ~Globals[s].constant
                                         /\ ~IsGuard(s)
                                         /\ s \in exports}
  IN  [s \in DOMAIN linkage |-> IF s \in demoted THEN "external" ELSE linkage[s]]

\* A mutable variable the process has moves there, with its guard or not at all.
bindProcessWeakGlobals(linkage) ==
  LET guardOf(s) == {Globals[s].guard} \cap DOMAIN linkage
      demoted == {s \in DOMAIN linkage : /\ ~Globals[s].threadLocal /\ ~Globals[s].constant
                                         /\ ~IsGuard(s)
                                         /\ s \in exports
                                         /\ guardOf(s) \subseteq exports}
      moved == demoted \cup UNION {guardOf(s) : s \in demoted}
  IN  [s \in DOMAIN linkage |-> IF s \in moved THEN "external" ELSE linkage[s]]

-----------------------------------------------------------------------------
(* Running a module *)

\* Where a symbol of the next unit is: the oldest live unit that defines it, the
\* unit itself, or the process.
Resolve(s, linkage) ==
  LET at == {i \in DOMAIN ptus : /\ ptus[i].ran
                                 /\ s \in DOMAIN ptus[i].linkage
                                 /\ ptus[i].linkage[s] = "weak"}
  IN  IF at # {} THEN <<"unit", CHOOSE i \in at : \A j \in at : i <= j>>
      ELSE IF linkage[s] = "weak" THEN <<"unit", Len(ptus) + 1>>
      ELSE IF s \in exports THEN <<"process", 0>>
      ELSE <<"nowhere", 0>>

\* Execute fails when a reference does not resolve.  had: what the process
\* exported when the second pass ran.
Unit(via, linkage, inProcess) ==
  LET bound == [s \in DOMAIN linkage |-> Resolve(s, linkage)]
  IN  [via |-> via, linkage |-> linkage, bound |-> bound,
       ran |-> \A s \in DOMAIN bound : bound[s][1] # "nowhere",
       had |-> IF inProcess THEN exports \cap DOMAIN linkage ELSE {}]

LostBy(units) ==
  UNION {{s \in DOMAIN units[i].linkage : Globals[s].threadLocal /\ units[i].linkage[s] = "weak"}
           : i \in DOMAIN units}

\* A parse error is reported and leaves no unit, unless diagnostics are suppressed:
\* then what was recovered becomes a unit.
Accepted(code, silent) == Parses(code) \/ silent

\* Parse, the passes, Execute.  inProcess: the second pass applies.
Enter(code, silent, inProcess) ==
  LET first == dedupeWeakEmulatedTLS(Parsed(code))
      unit  == Unit("passes", IF inProcess THEN bindProcessWeakGlobals(first.module)
                               ELSE first.module, inProcess)
  IN  IF Accepted(code, silent)
      THEN /\ ptus' = Append(ptus, unit)
           /\ DedupedWeakTLS' = first.defined
           /\ undone' = IF unit.ran THEN undone ELSE undone \cup LostBy(<<unit>>)
      ELSE UNCHANGED <<ptus, DedupedWeakTLS, undone>>

Ran(code) == Parses(code) /\ Last(ptus').ran

EnterResult(code, silent) ==
  IF Accepted(code, silent) /\ Last(ptus').ran THEN 0 ELSE 1

Keeps == UNCHANGED <<Code, Globals, exports, engineMade, pathVars>>

process(code, inProcess) ==
  /\ Enter(code, FALSE, inProcess)
  /\ Tell(EnterResult(code, FALSE), Ran(code))
  /\ Keeps

\* The error trap counts suppressed errors too.
DeclareAnswer(code, silent) ==
  IF ~Parses(code) THEN 1 ELSE EnterResult(code, silent)

Declare(code, silent, inProcess) ==
  /\ Enter(code, silent, inProcess)
  /\ Tell(DeclareAnswer(code, silent), Ran(code))
  /\ Keeps

\* ParseAndExecute without a value, as compileFunction calls it for a wrapper.
ParseAndExecute(code, inProcess) ==
  /\ Enter(code, FALSE, inProcess)
  /\ Tell(EnterResult(code, FALSE), Ran(code))
  /\ Keeps

\* With a value clang's own ParseAndExecute does it all: no pass sees the module.
Evaluated(code) == Parses(code) /\ Unit("evaluate", Parsed(code), FALSE).ran

evaluate(code) ==
  /\ ptus' = IF Parses(code)
             THEN Append(ptus, Unit("evaluate", Parsed(code), FALSE)) ELSE ptus
  /\ UNCHANGED <<DedupedWeakTLS, undone, misreported>>
  /\ Keeps

\* An empty input makes the engine, for the first interpreter that asks.
makeEngineOnce ==
  /\ ptus' = IF engineMade THEN ptus ELSE Append(ptus, Unit("passes", <<>>, FALSE))
  /\ engineMade' = TRUE
  /\ UNCHANGED <<Code, Globals, DedupedWeakTLS, exports, undone, misreported, pathVars>>

\* All of the last n, or an error.
Undo(n) ==
  /\ IF n \in 1 .. Len(ptus)
     THEN /\ ptus' = SubSeq(ptus, 1, Len(ptus) - n)
          /\ undone' = undone \cup LostBy(SubSeq(ptus, Len(ptus) - n + 1, Len(ptus)))
     ELSE UNCHANGED <<ptus, undone>>
  /\ UNCHANGED <<DedupedWeakTLS, misreported>>
  /\ Keeps

\* LoadLibrary: dlopen with RTLD_GLOBAL.
LoadLibrary(symbols) ==
  /\ exports' = exports \cup symbols
  /\ UNCHANGED <<Code, Globals, ptus, DedupedWeakTLS, engineMade, undone, misreported, pathVars>>

-----------------------------------------------------------------------------
(* Properties *)

ByPasses(i) == ptus[i].via # "evaluate"

\* Symbols an evaluated module defines without the passes having seen it.
Bypassed == {s \in DOMAIN Globals : \E i \in DOMAIN ptus :
               ~ByPasses(i) /\ s \in DOMAIN ptus[i].linkage}

(* A static and its guard are in one place: no unit initialises the copy   *)
(* of the process again, and none reads a copy nobody initialised, however *)
(* libraries that export one or both appear between inputs.                *)
GuardWithData ==
  \A i \in DOMAIN ptus : \A s \in DOMAIN ptus[i].bound :
    LET g == Globals[s].guard IN
    g \in DOMAIN ptus[i].bound => ptus[i].bound[g] = ptus[i].bound[s]

(* All units share one instance of a weak variable.  For a mutable one it  *)
(* is the process's own when the process had it, and its guard, before the *)
(* first of them.                                                          *)
OneInstance ==
  /\ \A i, j \in DOMAIN ptus :
       \A s \in (DOMAIN ptus[i].bound \cap DOMAIN ptus[j].bound) \ Bypassed :
         (ptus[i].ran /\ ptus[j].ran) => ptus[i].bound[s] = ptus[j].bound[s]
  /\ \A i \in DOMAIN ptus : \A s \in DOMAIN ptus[i].bound :
       (/\ ptus[i].bound[s] = <<"unit", i>>
        /\ ~Globals[s].threadLocal /\ ~Globals[s].constant /\ ~IsGuard(s))
         => ~({s} \cup ({Globals[s].guard} \cap DOMAIN ptus[i].linkage) \subseteq ptus[i].had)

(* The JIT is given one definition of a weak thread_local at most: a       *)
(* second one makes ORC corrupt memory when it discards it.                *)
OneThreadLocal ==
  \A i, j \in DOMAIN ptus : \A s \in DOMAIN Globals \ Bypassed :
    (/\ Globals[s].threadLocal /\ i # j
     /\ s \in DOMAIN ptus[i].linkage \cap DOMAIN ptus[j].linkage)
      => ~(ptus[i].linkage[s] = "weak" /\ ptus[j].linkage[s] = "weak")

(* A reference the passes left behind resolves: input that is correct runs *)
(* (unless the unit that defined its thread_local was undone).             *)
DemotedResolves ==
  \A i \in DOMAIN ptus : \A s \in DOMAIN ptus[i].bound :
    ptus[i].bound[s][1] = "nowhere" => s \in undone

(* Process, Declare and the wrapper compiler answer 0 exactly for code     *)
(* that parsed and ran without an error, though a silent parser recovers   *)
(* from errors and reports none.                                           *)
ErrorsAreTold == ~misreported

\* Inputs share what C++ says they share: one instance of each weak variable,
\* together with its guard, one definition of each thread_local, whichever
\* entry point the inputs came by and whatever libraries appeared between
\* them; and each entry point tells its errors.
InputsExact ==
  /\ GuardWithData
  /\ OneInstance
  /\ OneThreadLocal
  /\ DemotedResolves
  /\ ErrorsAreTold
=============================================================================
