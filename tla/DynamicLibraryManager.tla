------------------------ MODULE DynamicLibraryManager ------------------------
(***************************************************************************)
(* DynamicLibraryManager: the library search path of one interpreter and   *)
(* its two books of open libraries, m_DyLibs (handle to file name) and     *)
(* m_LoadedLibraries (file names), behind LookupLibrary, LoadLibrary,      *)
(* UnloadLibrary and AddSearchPath.                                        *)
(*                                                                         *)
(* A library is identified by its canonical path.  The file system is      *)
(* constant: At gives the shared object a directory entry leads to once    *)
(* every symbolic link is followed, RealDir the directory a spelling       *)
(* leads to.  An alias is an absolute path that reaches a library through  *)
(* a symbolic link.  dlopen returns the same handle however a library is   *)
(* spelled and counts its opens; dlrefs is that count, for this manager.   *)
(***************************************************************************)
EXTENDS Integers, Sequences, SequencesExt

CONSTANTS Libs,        \* shared objects, by canonical path
          NULL,        \* the empty string / the null handle
          Openable,    \* the libraries dlopen accepts
          Aliases,     \* absolute spellings that are not canonical
          Resolves,    \* the library each alias leads to
          Dirs, FileNames,
          At,          \* [Dirs \X FileNames -> Libs \cup {NULL}]
          Paths,       \* directory spellings
          RealDir,     \* [Paths -> Dirs \cup {NULL}]
          Cwd,         \* the working directory
          AddExt,      \* the name with ".so" appended, NULL: no such file
          AddLib,      \* the name with "lib" in front, NULL: it has it, or
                       \* there is no such file
          EnvList,     \* LD_LIBRARY_PATH, "" where two delimiters meet
          DotPath,     \* the spelling "."
          SystemPaths, \* platform::GetSystemLibraryPaths
          NewPaths,    \* bound: the spellings clients add
          MaxOpens     \* bound on the opens of one library

Names == Libs \cup Aliases
Stems == FileNames \cup Names

ASSUME NamesAssumption ==
  /\ NULL \notin Stems /\ Openable \subseteq Libs
  /\ Aliases \cap Libs = {} /\ Resolves \in [Aliases -> Libs]
ASSUME FilesAssumption ==
  /\ FileNames \cap Names = {} /\ Cwd \in Dirs
  /\ At \in [Dirs \X FileNames -> Libs \cup {NULL}]
  /\ RealDir \in [Paths -> Dirs \cup {NULL}]
  /\ AddExt \in [FileNames -> FileNames \cup {NULL}]
  /\ AddLib \in [FileNames -> FileNames \cup {NULL}]
ASSUME PathsAssumption ==
  /\ EnvList \in Seq(Paths \cup {""}) /\ SystemPaths \in Seq(Paths)
  /\ DotPath \in Paths /\ NewPaths \subseteq Paths
ASSUME OpensAssumption == MaxOpens \in Nat

VARIABLES m_SearchPaths,     \* the search path, in order
          m_DyLibs,          \* the name under which a handle was opened
          m_LoadedLibraries, \* the names under which libraries are open
          dlrefs             \* the loader's count of opens minus closes

managerVars == <<m_SearchPaths, m_DyLibs, m_LoadedLibraries, dlrefs>>

SearchPathInfo == [Path : Paths, IsUser : BOOLEAN]

\* The two books and the loader's count.
BooksTypeOK ==
  /\ m_DyLibs \in [Libs -> Names \cup {NULL}]
  /\ m_LoadedLibraries \subseteq Names
  /\ dlrefs \in [Libs -> Nat]

\* Every variable of the manager has its type.
ManagerTypeOK == m_SearchPaths \in Seq(SearchPathInfo) /\ BooksTypeOK

-----------------------------------------------------------------------------
(* Lookup                                                                  *)

Keeping(s, x, kept) == IF x \in kept THEN Append(s, x) ELSE s

\* The members of s that are in kept, in their order.
Only(s, kept) ==
  LET upTo[i \in 0..Len(s)] ==
        IF i = 0 THEN <<>> ELSE Keeping(upTo[i - 1], s[i], kept)
  IN  upTo[Len(s)]

EntryAt(d, n) == IF d = NULL \/ n = NULL THEN NULL ELSE At[<<d, n>>]

isSharedLibrary(d, n) == EntryAt(d, n) # NULL

\* The first spelling in a sequence whose directory has the name.
FirstHit(spellings, n) ==
  LET i == SelectInSeq(spellings, LAMBDA p : isSharedLibrary(RealDir[p], n))
  IN  IF i = 0 THEN NULL ELSE EntryAt(RealDir[spellings[i]], n)

SpellingsOf(infos) == [i \in DOMAIN infos |-> infos[i].Path]

Either(a, b) == IF a # NULL THEN a ELSE b

\* RPATH, then the search path, then RUNPATH: the first directory that has
\* the name wins.
lookupLibInPaths(n, RPath, RunPath) ==
  Either(FirstHit(RPath, n),
         Either(FirstHit(SpellingsOf(m_SearchPaths), n),
                FirstHit(RunPath, n)))

lookupLibMaybeAddExt(n) ==
  IF n = NULL THEN NULL
  ELSE Either(lookupLibInPaths(n, <<>>, <<>>),
              lookupLibInPaths(AddExt[n], <<>>, <<>>))

\* Symbolic links are followed when a path names a file.
normalizePath(name) == IF name \in Aliases THEN Resolves[name] ELSE name

\* An absolute path is never searched for; any other stem is tried in the
\* working directory, along the paths, and along the paths with "lib".
lookupLibrary(stem) ==
  IF stem \in Names THEN normalizePath(stem)
  ELSE Either(EntryAt(Cwd, stem),
       Either(lookupLibMaybeAddExt(stem), lookupLibMaybeAddExt(AddLib[stem])))

\* lookupLibrary with variateLibStem = false, as the dependency scan calls it.
lookupDependency(n, RPath, RunPath) ==
  Either(EntryAt(Cwd, n), lookupLibInPaths(n, RPath, RunPath))

isLibraryLoaded(name) == normalizePath(name) \in m_LoadedLibraries

-----------------------------------------------------------------------------
(* Operations                                                              *)

\* addSearchPath compares spellings; the first entry of a spelling stays.
WithSearchPath(infos, p, isUser, prepend) ==
  IF \E i \in DOMAIN infos : infos[i].Path = p THEN infos
  ELSE IF prepend THEN <<[Path |-> p, IsUser |-> isUser]>> \o infos
                  ELSE Append(infos, [Path |-> p, IsUser |-> isUser])

WithSearchPaths(infos, ps, isUser) ==
  LET upTo[i \in 0..Len(ps)] ==
        IF i = 0 THEN infos ELSE WithSearchPath(upTo[i - 1], ps[i], isUser, FALSE)
  IN  upTo[Len(ps)]

\* The paths of a list as environment variables and RPATH entries have it: the
\* sequence of its components, "" where two delimiters meet, given the
\* directories that exist.  kFailNonExistent returns at the first component
\* that is not one, except the last.
SplitPaths(list, mode, existing) ==
  LET named == Only(list, ToSet(list) \ {""})
      stop  == {i \in 1 .. Len(named) - 1 :
                  mode = "kFailNonExistent" /\ named[i] \notin existing}
      scanned == IF stop = {} THEN named
                 ELSE SubSeq(named, 1, (CHOOSE i \in stop : \A j \in stop : i <= j) - 1)
  IN  IF mode = "kAllowNonExistent" THEN scanned
      ELSE Only(scanned, existing)

\* The directories of the environment that exist now.
EnvPaths == SplitPaths(EnvList, "kPruneNonExistent", {p \in Paths : RealDir[p] # NULL})

\* The constructor: environment, ".", then the system's own paths.
ManagerInit ==
  /\ m_SearchPaths = WithSearchPaths(
                       WithSearchPaths(<<>>, EnvPaths \o <<DotPath>>, TRUE),
                       SystemPaths, FALSE)
  /\ m_DyLibs = [l \in Libs |-> NULL]
  /\ m_LoadedLibraries = {}
  /\ dlrefs = [l \in Libs |-> 0]

addSearchPath(p, isUser, prepend) ==
  /\ m_SearchPaths' = WithSearchPath(m_SearchPaths, p, isUser, prepend)
  /\ UNCHANGED <<m_DyLibs, m_LoadedLibraries, dlrefs>>

\* A faulty loadLibrary that does not look the name up before it opens it.
OpenAsUnchecked(name) ==
  LET lib == normalizePath(name) IN
  /\ lib \in Openable
  /\ dlrefs[lib] < MaxOpens
  /\ dlrefs' = [dlrefs EXCEPT ![lib] = @ + 1]
  /\ IF m_DyLibs[lib] # NULL
     THEN UNCHANGED <<m_DyLibs, m_LoadedLibraries>>
     ELSE /\ m_DyLibs' = [m_DyLibs EXCEPT ![lib] = name]
          /\ m_LoadedLibraries' = m_LoadedLibraries \cup {name}
  /\ UNCHANGED m_SearchPaths

\* DLOpen of a name that is not in m_LoadedLibraries.  A handle that m_DyLibs
\* already has keeps its first name and the new name is not recorded, but the
\* loader has counted the open.
OpenAs(name) ==
  LET lib == normalizePath(name) IN
  /\ name \notin m_LoadedLibraries
  /\ lib \in Openable
  /\ dlrefs[lib] < MaxOpens
  /\ dlrefs' = [dlrefs EXCEPT ![lib] = @ + 1]
  /\ IF m_DyLibs[lib] # NULL
     THEN UNCHANGED <<m_DyLibs, m_LoadedLibraries>>
     ELSE /\ m_DyLibs' = [m_DyLibs EXCEPT ![lib] = name]
          /\ m_LoadedLibraries' = m_LoadedLibraries \cup {name}
  /\ UNCHANGED m_SearchPaths

\* LoadLibrary(stem, lookup): with lookup the canonical name is opened,
\* without it the client's spelling is.  Not found, already loaded and an
\* error of dlopen leave the manager as it was.
loadLibrary(stem, lookup) ==
  IF lookup
  THEN lookupLibrary(stem) \in Libs /\ OpenAs(lookupLibrary(stem))
  ELSE stem \in Names /\ OpenAs(stem)

\* A faulty unload that leaves the name among the loaded ones.
UnloadKeepingName(stem) ==
  LET name == lookupLibrary(stem) IN
  /\ name \in Libs /\ isLibraryLoaded(name)
  /\ \E handle \in Libs :
       /\ m_DyLibs[handle] = name
       /\ dlrefs' = [dlrefs EXCEPT ![handle] = @ - 1]
       /\ m_DyLibs' = [m_DyLibs EXCEPT ![handle] = NULL]
  /\ UNCHANGED <<m_LoadedLibraries, m_SearchPaths>>

\* The handle is the one recorded under the name; BooksAgree says it exists.
unloadLibrary(stem) ==
  LET name == lookupLibrary(stem) IN
  /\ name \in Libs /\ isLibraryLoaded(name)
  /\ \E handle \in Libs :
       /\ m_DyLibs[handle] = name
       /\ dlrefs' = [dlrefs EXCEPT ![handle] = @ - 1]
       /\ m_DyLibs' = [m_DyLibs EXCEPT ![handle] = NULL]
  /\ m_LoadedLibraries' = m_LoadedLibraries \ {name}
  /\ UNCHANGED m_SearchPaths

AddSearchPath == \E p \in NewPaths, u, f \in BOOLEAN : addSearchPath(p, u, f)
LoadLibrary   == \E stem \in Stems, lookup \in BOOLEAN : loadLibrary(stem, lookup)
UnloadLibrary == \E stem \in Stems : unloadLibrary(stem)

ManagerNext == AddSearchPath \/ LoadLibrary \/ UnloadLibrary

ManagerSpec == ManagerInit /\ [][ManagerNext]_managerVars
-----------------------------------------------------------------------------
(* Properties                                                              *)

Recorded == {l \in Libs : m_DyLibs[l] # NULL}

\* The two books describe the same open libraries: m_LoadedLibraries holds
\* exactly the names in m_DyLibs, each name belongs to its own handle, and a
\* recorded handle is open.  unloadLibrary relies on it: a name that is loaded
\* but has no handle makes it close the null handle.
BooksAgree ==
  /\ m_LoadedLibraries = {m_DyLibs[l] : l \in Recorded}
  /\ \A l \in Recorded : normalizePath(m_DyLibs[l]) = l /\ dlrefs[l] >= 1

\* A library that no alias reaches is open exactly once while the manager
\* says it is loaded and not at all otherwise, whatever the order of loads,
\* repeated loads, failed loads and unloads.
LoadsBalanced ==
  \A l \in Libs : (\A a \in Aliases : Resolves[a] # l) =>
    dlrefs[l] = IF isLibraryLoaded(l) THEN 1 ELSE 0

\* isLibraryLoaded tells whether the file is loaded: a library this manager
\* has open is reported as loaded.
LoadedIsReported == \A l \in Libs : dlrefs[l] > 0 => isLibraryLoaded(l)

=============================================================================
