----------------------------- MODULE SymbolSearch -----------------------------
(***************************************************************************)
(* Dyld: which library that is not loaded yet contains a symbol?  It scans *)
(* the user directories of the search path once, before the first search,  *)
(* and the system directories once, before the first search that needs     *)
(* them; the lists it builds are its own from then on.  A library that it  *)
(* returned is dropped from the lists once a later search finds it loaded. *)
(*                                                                         *)
(* The module composes the search with the DynamicLibraryManager it reads: *)
(* paths can be added and libraries loaded and unloaded between searches.  *)
(* A library's Bloom filter and symbol table are built from its file on    *)
(* the first query and never change, so a query is answered from the file. *)
(***************************************************************************)
EXTENDS DynamicLibraryManager

CONSTANTS Symbols,
          Dyn,       \* [Libs -> SUBSET Symbols], exported dynamic symbols
          Symtab,    \* [Libs -> SUBSET Symbols], defined symbols of .symtab
          WeakSyms,  \* [Libs -> SUBSET Symbols], those flagged weak in .symtab
          GnuHash,   \* [Libs -> SUBSET Symbols], .gnu.hash cannot rule out
          DynTab,    \* [Libs -> Seq(DynEntries)], the dynamic table
          Origin,    \* the spelling $origin
          DirPath,   \* [Libs -> Paths], the directory part of a library's path
          DirOrder,  \* [Dirs -> Seq(FileNames)], the order readdir gives
          Unusable   \* unreadable, foreign format, or debug symbols only

DynEntries == [tag : {"DT_NEEDED"}, val : FileNames]
                \cup [tag : {"DT_RPATH", "DT_RUNPATH"}, val : Seq(Paths \cup {Origin, ""})]
                \cup [tag : {"DT_FLAGS_1"}, val : SUBSET {"DF_1_PIE", "DF_1_NOW"}]

ASSUME ObjectsAssumption ==
  /\ \A f \in {Dyn, Symtab, WeakSyms, GnuHash} : f \in [Libs -> SUBSET Symbols]
  /\ \A l \in Libs : Dyn[l] \subseteq GnuHash[l] /\ WeakSyms[l] \subseteq Symtab[l]
  /\ DynTab \in [Libs -> Seq(DynEntries)]
  /\ DirPath \in [Libs -> Paths] /\ Origin \notin Paths
  /\ DirOrder \in [Dirs -> Seq(FileNames)]
  /\ \A d \in Dirs, n \in FileNames : At[<<d, n>>] # NULL => n \in ToSet(DirOrder[d])
  /\ Unusable \subseteq Libs /\ IsFiniteSet(Libs)

VARIABLES m_FirstRun, m_FirstRunSysLib,
          m_Libraries, m_SysLibraries, \* candidates, in scan order
          m_QueriedLibraries,          \* libraries returned to clients
          query,    \* the last search and its answer, or NULL
          stale     \* history: the lists no longer follow the manager

dyldVars == <<m_FirstRun, m_FirstRunSysLib, m_Libraries, m_SysLibraries,
              m_QueriedLibraries>>
allVars  == <<managerVars, dyldVars, query, stale>>

Query == [name : Symbols, searchSystem : BOOLEAN, answer : Libs \cup {NULL}]

\* The manager and the search have their types.
SearchTypeOK ==
  /\ ManagerTypeOK
  /\ m_FirstRun \in BOOLEAN /\ m_FirstRunSysLib \in BOOLEAN
  /\ m_Libraries \in Seq(Libs) /\ m_SysLibraries \in Seq(Libs)
  /\ m_QueriedLibraries \subseteq Libs
  /\ query \in Query \cup {NULL} /\ stale \in BOOLEAN

-----------------------------------------------------------------------------
(* Scanning the directories                                                *)

\* The two lists while a scan extends them; sys says which one it extends.
Lists == [user |-> m_Libraries, system |-> m_SysLibraries]
Registered(lists) == ToSet(lists.user) \cup ToSet(lists.system)
RegisterLib(lists, sys, l) ==
  IF sys THEN [lists EXCEPT !.system = Append(@, l)]
         ELSE [lists EXCEPT !.user = Append(@, l)]

\* What is not in Libs is a file that is no shared library, or a dependency
\* that was not found.  The callback given to initializeDyld ignores nothing.
ShouldPermanentlyIgnore(l) ==
  l \notin Libs \/ isLibraryLoaded(l) \/ l \in Unusable

\* HandleDynTab: the values of a library's entries with the tag, in order.
HandleDynTab(l, tag) ==
  LET entries == Only(DynTab[l], {e \in ToSet(DynTab[l]) : e.tag = tag})
  IN  [i \in DOMAIN entries |-> entries[i].val]

Needed == [l \in Libs |-> HandleDynTab(l, "DT_NEEDED")]
Pie    == {l \in Libs : \E i \in DOMAIN HandleDynTab(l, "DT_FLAGS_1") :
                          "DF_1_PIE" \in HandleDynTab(l, "DT_FLAGS_1")[i]}

\* Every entry of RPATH or RUNPATH is a list of paths.
PathsIn(l, tag) ==
  FoldLeft(LAMBDA acc, list : acc \o SplitPaths(list, "kAllowNonExistent", {}), <<>>,
           HandleDynTab(l, tag))

\* substAll: $origin in front is the directory of the library that has the entry.
substAll(ps, l) == [i \in DOMAIN ps |-> IF ps[i] = Origin THEN DirPath[l] ELSE ps[i]]

RPath   == [l \in Libs |-> substAll(PathsIn(l, "DT_RPATH"), l)]
RunPath == [l \in Libs |-> substAll(PathsIn(l, "DT_RUNPATH"), l)]
AsWritten == [l \in Libs |-> ToSet(PathsIn(l, "DT_RPATH") \o PathsIn(l, "DT_RUNPATH"))]

\* Heuristics H1 and H2: dependencies are skipped when RPATH and RUNPATH, as
\* they are written, name nothing that is not spelled that way in the search
\* path.
SkipsDeps(l) == AsWritten[l] \subseteq ToSet(SpellingsOf(m_SearchPaths))

\* The calls of HandleLib for the dependencies of a library.
Dependencies(l, level) ==
  [i \in DOMAIN Needed[l] |->
     [lib |-> lookupDependency(Needed[l][i], RPath[l], RunPath[l]), level |-> level + 1]]

\* HandleLib: the first of the calls that are due.  A library is registered
\* before its dependencies, which go to the same list and come before the
\* other calls; an executable in a scanned directory is taken out again.
HandleLib(walk, sys) ==
  IF walk.due = <<>> THEN walk
  ELSE LET l     == Head(walk.due).lib
           level == Head(walk.due).level
       IN  IF \/ l \in Registered(walk.lists)
              \/ ShouldPermanentlyIgnore(l)
              \/ level = 0 /\ l \in Pie
           THEN [lists |-> walk.lists, due |-> Tail(walk.due)]
           ELSE [lists |-> RegisterLib(walk.lists, sys, l),
                 due   |-> (IF SkipsDeps(l) THEN <<>> ELSE Dependencies(l, level))
                             \o Tail(walk.due)]

\* A library's dependencies are followed once, when it is registered.
HandleLibs(lists, sys, calls) ==
  LET turns == Len(calls) + Cardinality(UNION {{l} \X DOMAIN Needed[l] : l \in Libs})
      after[i \in 0..turns] ==
        IF i = 0 THEN [lists |-> lists, due |-> calls] ELSE HandleLib(after[i - 1], sys)
  IN  after[turns].lists

ScanDir(lists, sys, d) ==
  HandleLibs(lists, sys, [i \in DOMAIN DirOrder[d] |->
                            [lib |-> EntryAt(d, DirOrder[d][i]), level |-> 0]])

ScanOnce(acc, sys, d) ==
  IF d \in acc.scanned THEN acc
  ELSE [scanned |-> acc.scanned \cup {d}, lists |-> ScanDir(acc.lists, sys, d)]

\* A faulty scan with the kinds of path swapped.
ScanOtherKind(acc, sys, info) ==
  IF info.IsUser # sys \/ RealDir[info.Path] = NULL THEN acc
  ELSE ScanOnce(acc, sys, RealDir[info.Path])

ScanPath(acc, sys, info) ==
  IF info.IsUser = sys \/ RealDir[info.Path] = NULL THEN acc
  ELSE ScanOnce(acc, sys, RealDir[info.Path])

\* The directories of the user or of the system paths, each of them once.
ScanForLibraries(lists, sys) ==
  LET upTo[i \in 0..Len(m_SearchPaths)] ==
        IF i = 0 THEN [scanned |-> {}, lists |-> lists]
                 ELSE ScanPath(upTo[i - 1], sys, m_SearchPaths[i])
  IN  upTo[Len(m_SearchPaths)].lists

-----------------------------------------------------------------------------
(* Searching for a symbol                                                  *)

\* BuildBloomFilter: the names of .symtab without the ignored flags, and all
\* defined dynamic symbols.
SymbolTable(l, ignoreWeak) ==
  Dyn[l] \cup (IF ignoreWeak THEN Symtab[l] \ WeakSyms[l] ELSE Symtab[l])

ContainsSymbol(l, s, ignoreWeak) ==
  s \in GnuHash[l] /\ s \in SymbolTable(l, ignoreWeak)

FirstWith(list, s, ignoreWeak) ==
  LET with == {i \in DOMAIN list : ContainsSymbol(list[i], s, ignoreWeak)}
  IN  IF with = {} THEN NULL ELSE list[Min(with)]

\* The process already resolves the symbol: SearchForAddressOfSymbol.
Resolvable(s) == \E l \in Libs : dlrefs[l] > 0 /\ s \in Dyn[l]

\* A faulty search that keeps libraries it returned and that were loaded.
KeepLoaded(lists) == lists

DropLoaded(lists) ==
  LET loaded == {l \in m_QueriedLibraries : isLibraryLoaded(l)}
  IN  [user   |-> Only(lists.user, Libs \ loaded),
       system |-> Only(lists.system, Libs \ loaded)]

\* The state after a search for s, which answers with lib.
Answer(s, searchSystem, lists, lib) ==
  /\ m_Libraries' = lists.user /\ m_SysLibraries' = lists.system
  /\ m_QueriedLibraries' = m_QueriedLibraries \cup ({lib} \ {NULL})
  /\ query' = [name |-> s, searchSystem |-> searchSystem, answer |-> lib]

\* The assertion at the head of the code is the first conjunct.
searchLibrariesForSymbol(s, searchSystem) ==
  /\ ~Resolvable(s)
  /\ LET lists == DropLoaded(IF m_FirstRun THEN ScanForLibraries(Lists, FALSE)
                                           ELSE Lists)
         user  == FirstWith(lists.user, s, FALSE)
         all   == IF m_FirstRunSysLib THEN ScanForLibraries(lists, TRUE)
                                      ELSE lists
     IN  IF user # NULL \/ ~searchSystem
         THEN /\ Answer(s, searchSystem, lists, user)
              /\ UNCHANGED m_FirstRunSysLib
         ELSE /\ Answer(s, searchSystem, all, FirstWith(all.system, s, TRUE))
              /\ m_FirstRunSysLib' = FALSE
  /\ m_FirstRun' = FALSE
  /\ UNCHANGED <<managerVars, stale>>

-----------------------------------------------------------------------------
(* The search composed with its manager                                    *)

SearchInit ==
  /\ ManagerInit
  /\ m_FirstRun = TRUE /\ m_FirstRunSysLib = TRUE
  /\ m_Libraries = <<>> /\ m_SysLibraries = <<>>
  /\ m_QueriedLibraries = {}
  /\ query = NULL /\ stale = FALSE

Scanned(isUser) == IF isUser THEN ~m_FirstRun ELSE ~m_FirstRunSysLib

\* A path of a kind that has been scanned will not be looked at again.
AddPath(p, isUser, prepend) ==
  /\ addSearchPath(p, isUser, prepend)
  /\ stale' = (stale \/ (m_SearchPaths' # m_SearchPaths /\ Scanned(isUser)))
  /\ query' = NULL /\ UNCHANGED dyldVars

Load(stem, lookup) ==
  loadLibrary(stem, lookup) /\ query' = NULL /\ UNCHANGED <<dyldVars, stale>>

\* A library that was loaded when a scan or a search met it is in no list.
Unload(stem) ==
  /\ unloadLibrary(stem)
  /\ stale' = (stale \/ ~m_FirstRun)
  /\ query' = NULL /\ UNCHANGED dyldVars

SearchNext ==
  \/ \E p \in NewPaths, u, f \in BOOLEAN : AddPath(p, u, f)
  \/ \E stem \in Stems, lookup \in BOOLEAN : Load(stem, lookup)
  \/ \E stem \in Stems : Unload(stem)
  \/ \E s \in Symbols, sys \in BOOLEAN : searchLibrariesForSymbol(s, sys)

SearchSpec == SearchInit /\ [][SearchNext]_allVars

-----------------------------------------------------------------------------
(* Properties                                                              *)

\* The libraries the search path offers: entries of its directories that are
\* not loaded and not ignored.
OnPath(isUser) ==
  {EntryAt(d, n) : d \in {RealDir[m_SearchPaths[i].Path] : i \in
                           {j \in DOMAIN m_SearchPaths :
                              m_SearchPaths[j].IsUser = isUser}},
                   n \in FileNames}
Offered(isUser) ==
  {l \in OnPath(isUser) : ~ShouldPermanentlyIgnore(l) /\ l \notin Pie}

\* A library is a candidate once, in one list: RegisterLib asserts it for a
\* list, and a library in both would be offered again after it was dropped.
OneList ==
  /\ ToSet(m_Libraries) \cap ToSet(m_SysLibraries) = {}
  /\ Cardinality(ToSet(m_Libraries)) = Len(m_Libraries)
  /\ Cardinality(ToSet(m_SysLibraries)) = Len(m_SysLibraries)

\* SearchLibrariesForSymbol scans all libraries on the search path: when it
\* finds none, no library the path offers exports the symbol.
SearchIsComplete ==
  (query # NULL /\ query.answer = NULL) =>
    \A l \in Offered(TRUE) \cup (IF query.searchSystem THEN Offered(FALSE) ELSE {}) :
      query.name \notin Dyn[l]

\* The same, as long as no path of a scanned kind was added and no library
\* was unloaded since the first scan.
FreshSearchIsComplete == ~stale => SearchIsComplete

\* While the lists are fresh a system library is the answer only when no
\* library of the user paths exports the symbol.
UserLibrariesFirst ==
  (~stale /\ query # NULL /\ query.answer \in ToSet(m_SysLibraries)) =>
    \A l \in Offered(TRUE) : query.name \notin Dyn[l]

\* The candidates of a search: every library is in one list at most, user
\* libraries are offered before the system's, and a search made while the
\* lists are fresh finds whatever the paths offer (ScanForLibraries and
\* searchLibrariesForSymbol).
CandidatesExact ==
  /\ SearchTypeOK
  /\ OneList
  /\ FreshSearchIsComplete
  /\ UserLibrariesFirst

\* The answer is a library that is not yet loaded.
AnswerNotLoaded ==
  (query # NULL /\ query.answer # NULL) => ~isLibraryLoaded(query.answer)

\* A library that a client was given and then loaded is not given again while
\* it is loaded.
NeverOfferedTwice ==
  [][(query' # NULL /\ query'.answer \in m_QueriedLibraries)
       => ~isLibraryLoaded(query'.answer)]_allVars

===============================================================================
