------------------------------- MODULE Creation -------------------------------
(***************************************************************************)
(* CreateInterpreter: how the arguments of the packager, of the embedder   *)
(* and of the environment become the interpreter's command line, which     *)
(* resource directory it ends up with, and whether its code runs in this   *)
(* process.                                                                *)
(*                                                                         *)
(* Everything the function reads besides its arguments is one record,      *)
(* host: baked, args, gpu and env are the four lists of arguments;         *)
(* configured is the directory recorded when the library was built;        *)
(* clangSays is what `clang -print-resource-dir` prints; directories are   *)
(* the paths that are directories, underLlvm and underClang those with     *)
(* such a component; runtimes are the places where the out-of-process      *)
(* runtime may be, in the order they are tried; arch and cuda are what the *)
(* GPU probes find; tmpfiles, compilers, device and cudart say whether     *)
(* those can be had.                                                       *)
(***************************************************************************)
EXTENDS Naturals, Sequences, SequencesExt, FiniteSets

VARIABLE host      \* given once, for the life of the process

ResourceDirFlag == "-resource-dir"
OopFlag == "--use-oop-jit"
CudaFlags == {"cuda", "-cuda", "--cuda"}

-----------------------------------------------------------------------------
(* The resource directory *)

\* The word after the first occurrence of a flag that has a word after it.
ExtractArgument(args, flag) ==
  LET at == {i \in 1 .. Len(args) - 1 : args[i] = flag}
  IN  IF at = {} THEN "" ELSE args[(CHOOSE i \in at : \A j \in at : i <= j) + 1]

\* The compiler in the path must print one line, naming the version linked in.
DetectResourceDir ==
  IF Len(host.clangSays) = 1 /\ host.clangSays[1].compatible
  THEN host.clangSays[1].dir ELSE ""

MakeResourcesPath ==
  IF host.configured \in host.directories THEN host.configured ELSE host.derived

AllArgs == host.baked \o host.args

\* A bug: the first resource directory among all arguments.
WantedBakedFirst == ExtractArgument(AllArgs, ResourceDirFlag)

\* The embedder's, else the packager's.
Wanted ==
  IF ExtractArgument(host.args, ResourceDirFlag) # ""
  THEN ExtractArgument(host.args, ResourceDirFlag)
  ELSE ExtractArgument(AllArgs, ResourceDirFlag)

ResourceDir ==
  LET dir == IF Wanted # "" THEN Wanted ELSE MakeResourcesPath
  IN  IF dir \in host.directories THEN dir ELSE DetectResourceDir

-----------------------------------------------------------------------------
(* The command line *)

Detected == IF ResourceDir = "" THEN <<>> ELSE <<ResourceDirFlag, ResourceDir>>

\* A bug: the packager's arguments come after the embedder's.
ArgvBakedLast ==
  Detected \o <<"-std=c++14">> \o host.args \o host.baked \o host.gpu \o host.env

Argv == Detected \o <<"-std=c++14">> \o AllArgs \o host.gpu \o host.env

GpuArgsAccepted == host.gpu = <<>> \/ host.gpu[1] \in CudaFlags

CudaEnabled == \E i \in DOMAIN Argv : Argv[i] \in CudaFlags

\* createClangInterpreter keeps the flags it understands to itself: where the
\* arguments stand that go to clang.
OwnFlags == CudaFlags \cup {"--offload-arch=", "--cuda-path="}

CompilerArgs == {i \in DOMAIN Argv : Argv[i] \notin OwnFlags}

OffloadArch == IF "--offload-arch=" \in Range(Argv) THEN "given" ELSE host.arch
CudaPath == IF "--cuda-path=" \in Range(Argv) THEN "given" ELSE host.cuda

\* What clang makes of the command line: the last -resource-dir is the one it
\* uses, and one without a value is an error.
ClangResourceDir ==
  LET after(i) == {j \in CompilerArgs : i < j}
      at   == {i \in CompilerArgs : Argv[i] = ResourceDirFlag /\ after(i) # {}}
      last == CHOOSE i \in at : \A j \in at : j <= i
  IN  IF at = {} THEN "driver's"
      ELSE Argv[CHOOSE j \in after(last) : \A k \in after(last) : j <= k]

CompilerBuilds ==
  /\ host.compilers
  /\ \A i \in CompilerArgs :
       Argv[i] = ResourceDirFlag => \E j \in CompilerArgs : i < j
  /\ CudaEnabled => host.device

Language ==
  IF CudaEnabled THEN "CUDA" ELSE IF \E i \in CompilerArgs : Argv[i] = "-xc" THEN "C" ELSE "CXX"

-----------------------------------------------------------------------------
(* Where code runs *)

\* Interpreter::create looks at the request alone.
outOfProcess == OopFlag \in Range(Argv)

\* The first place that holds both the runtime and the executor.
configureBundledOOPRuntime ==
  LET complete == {i \in DOMAIN host.runtimes :
                      {"liborc_rt.a", "llvm-jitlink-executor"} \subseteq host.runtimes[i].holds}
  IN  IF complete = {} THEN ""
      ELSE host.runtimes[CHOOSE i \in complete : \A j \in complete : i <= j].place

\* createClangInterpreter falls back; CUDA has no out-of-process executor.
ExecutorElsewhere ==
  outOfProcess /\ configureBundledOOPRuntime # "" /\ ~CudaEnabled

FellBack == outOfProcess /\ ~ExecutorElsewhere

installsGlibcNonsharedSupport == ~outOfProcess

-----------------------------------------------------------------------------
(* The outcome *)

\* initAndGetFileDescriptors overwrites the -1 it stores when tmpfile() fails
\* and hands the null stream to fileno(): undefined, here a failure.
FilesOpen == outOfProcess => host.tmpfiles

createClangInterpreter == CompilerBuilds /\ (CudaEnabled => host.cudart)

Succeeds == GpuArgsAccepted /\ FilesOpen /\ createClangInterpreter

\* A path is a directory and the part of it that is meant.
AddLibrarySearchPaths(dir) ==
  <<[dir |-> dir, part |-> "lib"]>>
    \o (IF dir \in host.underLlvm THEN <<[dir |-> dir, part |-> "above llvm-"]>> ELSE <<>>)
    \o (IF dir \notin host.underClang THEN <<>> ELSE <<[dir |-> dir, part |-> "above clang"]>>)

NoInterpreter == [made |-> FALSE]

CreateInterpreter ==
  IF ~Succeeds THEN NoInterpreter
  ELSE [made         |-> TRUE,
        resourceDir  |-> ClangResourceDir,
        libraryPaths |-> AddLibrarySearchPaths(ResourceDir),
        language     |-> Language,
        device       |-> IF CudaEnabled THEN <<OffloadArch, CudaPath>> ELSE <<>>,
        outOfProcess |-> outOfProcess,
        elsewhere    |-> ExecutorElsewhere,
        glibcShims   |-> installsGlibcNonsharedSupport,
        runtime      |-> IF ExecutorElsewhere THEN configureBundledOOPRuntime ELSE ""]
=============================================================================
