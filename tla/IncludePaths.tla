----------------------------- MODULE IncludePaths -----------------------------
(***************************************************************************)
(* The include directories of an interpreter: the entries it records       *)
(* (HeaderSearchOptions::UserEntries) and the directories its preprocessor *)
(* searches (HeaderSearch), which are filled from them once and then grow  *)
(* side by side.  Which directories exist changes underneath.              *)
(***************************************************************************)
EXTENDS Naturals, Sequences, SequencesExt, FiniteSets

VARIABLES
    UserEntries,   \* Seq([path, group])
    SearchDirs,    \* the user directories the preprocessor searches, in order
    onDisk,        \* the directories that exist
    asked          \* history: the paths callers added, at first, and whether each existed

pathVars == <<UserEntries, SearchDirs, onDisk, asked>>

-----------------------------------------------------------------------------
Including(s, x, included) == IF included THEN Append(s, x) ELSE s

\* The members of s at the indices in chosen, in their order.
Chosen(s, chosen) ==
  LET upTo[i \in 0..Len(s)] ==
        IF i = 0 THEN <<>> ELSE Including(upTo[i - 1], s[i], i \in chosen)
  IN  upTo[Len(s)]

PathsOf(entries) == [i \in DOMAIN entries |-> entries[i].path]

\* The directories that entries name and that exist.
Present(entries, dirs) ==
  PathsOf(Chosen(entries, {i \in DOMAIN entries : entries[i].path \in dirs}))

Recorded(path) == \E i \in DOMAIN UserEntries : UserEntries[i].path = path

\* A bug: whatever is asked for is recorded again.
PathsCheckedAll(paths) == paths

\* Paths that are recorded already are left out.
PathsChecked(paths) == Chosen(paths, {i \in DOMAIN paths : ~Recorded(paths[i])})

\* A bug: the first new entry is left to the next call.
NewEntriesLate(entries) == SubSeq(entries, Len(UserEntries) + 2, Len(entries))

\* The entries that are given to the preprocessor: those after the ones there were.
NewEntries(entries) == SubSeq(entries, Len(UserEntries) + 1, Len(entries))

Asked(path) == \E i \in DOMAIN asked : asked[i].path = path

AddIncludePaths(paths) ==
  LET checked == PathsChecked(paths)
      entries == UserEntries \o [i \in DOMAIN checked |-> [path |-> checked[i], group |-> "Angled"]]
      first   == Chosen(paths, {i \in DOMAIN paths : ~Asked(paths[i])})
  IN  /\ UserEntries' = entries
      /\ SearchDirs' = SearchDirs \o Present(NewEntries(entries), onDisk)
      /\ asked' = asked \o [i \in DOMAIN first |-> [path |-> first[i], existed |-> first[i] \in onDisk]]
      /\ UNCHANGED onDisk

AddIncludePath(path) == AddIncludePaths(<<path>>)

\* Somebody makes a directory.
MakeDirectory(path) ==
  /\ path \notin onDisk
  /\ onDisk' = onDisk \cup {path}
  /\ UNCHANGED <<UserEntries, SearchDirs, asked>>

SystemGroups == {"System", "CSystem", "ExternCSystem", "CXXSystem", "ObjCSystem", "ObjCXXSystem"}

FlagOf(group) ==
  CASE group = "After"  -> "-idirafter"
    [] group = "Quoted" -> "-iquote"
    [] group = "Angled" -> "-I"
    [] OTHER            -> "-isystem"

CopyIncludePaths(withSystem, withFlags, resourceDir) ==
  LET listed == Chosen(UserEntries,
                       {i \in DOMAIN UserEntries : withSystem \/ UserEntries[i].group \notin SystemGroups})
      entry(e) == IF withFlags THEN <<FlagOf(e.group), e.path>> ELSE <<e.path>>
  IN  FlattenSeq([i \in DOMAIN listed |-> entry(listed[i])])
        \o (IF withSystem /\ resourceDir # ""
            THEN (IF withFlags THEN <<"-resource-dir">> ELSE <<>>) \o <<resourceDir>> ELSE <<>>)

\* The vector handed to CopyIncludePaths starts with one empty string.
GetIncludePaths(withSystem, withFlags, resourceDir) ==
  <<"">> \o CopyIncludePaths(withSystem, withFlags, resourceDir)

\* Where an #include is found: the first searched directory that has the header.
Found(holders) ==
  LET at == {i \in DOMAIN SearchDirs : SearchDirs[i] \in holders}
  IN  IF at = {} THEN "" ELSE SearchDirs[CHOOSE i \in at : \A j \in at : i <= j]

PathsInit(dirs, given) ==
  /\ UserEntries = given
  /\ SearchDirs = Present(given, dirs)
  /\ onDisk = dirs
  /\ asked = [i \in DOMAIN given |-> [path |-> given[i].path, existed |-> given[i].path \in dirs]]

-----------------------------------------------------------------------------
(* The directories searched are the ones that existed when they were first *)
(* added, once each and in that order: AddIncludePaths keeps the list it   *)
(* records and the list the preprocessor searches in step, over any        *)
(* sequence of additions and whatever appears on disk in between.          *)
SearchedAsAdded ==
  LET first(i) == \A j \in 1 .. i - 1 : asked[j].path # asked[i].path
  IN  SearchDirs = PathsOf(Chosen(asked, {i \in DOMAIN asked : first(i) /\ asked[i].existed}))

\* The members of seq are in all, in the same order.
InOrder(seq, all) ==
  \E f \in [DOMAIN seq -> DOMAIN all] :
    /\ \A i \in DOMAIN seq : all[f[i]] = seq[i]
    /\ \A i, j \in DOMAIN seq : i < j => f[i] < f[j]

OfSystem(path) ==
  \E i \in DOMAIN UserEntries : UserEntries[i].path = path /\ UserEntries[i].group \in SystemGroups

(* GetIncludePaths tells where headers come from: the directories that are *)
(* searched are reported in that order, user directories also without the  *)
(* system's.                                                               *)
SearchedIsReported ==
  LET user == {i \in DOMAIN SearchDirs : ~OfSystem(SearchDirs[i])}
  IN  /\ InOrder(SearchDirs, GetIncludePaths(TRUE, FALSE, ""))
      /\ InOrder(Chosen(SearchDirs, user), GetIncludePaths(FALSE, FALSE, ""))

\* The recorded and the searched include directories stay in step, through
\* any additions and whatever appears on disk (AddIncludePaths,
\* GetIncludePaths).
PathsInStep == SearchedAsAdded /\ SearchedIsReported
=============================================================================
