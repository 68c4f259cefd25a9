------------------------------ MODULE PathCache ------------------------------
(***************************************************************************)
(* cached_realpath and the caches under it.  Every directory on a search   *)
(* path and every file found in one is identified by what it returns, for  *)
(* the life of the process: nothing is ever taken out of a cache.          *)
(*                                                                         *)
(* A path is a sequence of components, absolute or not; the empty relative *)
(* path is the empty string, which is also the answer of a failed call.    *)
(* A file system maps the component sequences that exist to a directory, a *)
(* file, or a symbolic link and its target.                                *)
(***************************************************************************)
EXTENDS Integers, Sequences, SequencesExt

CONSTANTS FileSystems,   \* the file systems the process may live with
          Queries,       \* bound: the paths that are resolved
          WorkDirs,      \* the directories the process changes between
          Home,          \* the home directory's components
          ProcSelfExe,   \* what /proc/self/exe links to; the empty path: no /proc
          SymLoopLevel,  \* 40: how deeply links are followed
          MaxChanges     \* bound on changes to files and working directory

Path(isAbsolute, components) == [abs |-> isAbsolute, items |-> components]
Root      == Path(TRUE, <<>>)
EmptyPath == Path(FALSE, <<>>)

VARIABLES fs,       \* the files as they are now
          cwd,      \* the working directory, a sequence of components
          caches,   \* the function-local statics, see NoCaches
          answers,  \* history: what each query was answered, EmptyPath or a path
          changes   \* history: how often files or working directory changed

pathVars == <<fs, cwd, caches, answers, changes>>

NoCaches == [real |-> <<>>, lstat |-> <<>>, readlink |-> <<>>, current |-> EmptyPath]

-----------------------------------------------------------------------------
(* The kernel.                                                             *)

\* Where the kernel gets from directory cur along the items, following at most
\* links symbolic links; the last one only when told to.  EmptyPath: nowhere.
RECURSIVE Walk(_, _, _, _)
Walk(cur, items, links, follow) ==
  LET rest == Tail(items)
      here == Append(cur, Head(items))
  IN  CASE items = <<>> -> Path(TRUE, cur)
        [] items # <<>> /\ cur \in DOMAIN fs /\ fs[cur].kind # "dir" -> EmptyPath
        [] items # <<>> /\ Head(items) = "." -> Walk(cur, rest, links, follow)
        [] items # <<>> /\ Head(items) = ".." ->
             Walk(IF cur = <<>> THEN cur ELSE Front(cur), rest, links, follow)
        [] OTHER ->
             IF here \notin DOMAIN fs THEN EmptyPath
             ELSE IF fs[here].kind = "link" /\ (rest # <<>> \/ follow)
             THEN IF links = 0 THEN EmptyPath
                  ELSE Walk(IF fs[here].to.abs THEN <<>> ELSE cur,
                            fs[here].to.items \o rest, links - 1, follow)
             ELSE Walk(here, rest, links, follow)

From(path) == IF path.abs THEN <<>> ELSE cwd

\* realpath(3).
RealPath(path) ==
  IF path = EmptyPath THEN EmptyPath ELSE Walk(From(path), path.items, SymLoopLevel - 1, TRUE)

Inode(path) == LET p == Walk(From(path), path.items, SymLoopLevel, FALSE)
               IN  IF path = EmptyPath \/ p = EmptyPath THEN [kind |-> "none"]
                   ELSE IF p = Root THEN [kind |-> "dir"] ELSE fs[p.items]

-----------------------------------------------------------------------------
(* cached_realpath.                                                        *)

\* insert() keeps an entry that is there.
Insert(map, key, value) == map @@ (key :> value)

\* The caches after lstat of a path; a failure is kept as well.
WithLstat(c, path) == [c EXCEPT !.lstat = Insert(@, path, Inode(path).kind)]

\* The caches after readlink; a failure is not kept.
WithReadlink(c, path) ==
  IF Inode(path).kind = "link" THEN [c EXCEPT !.readlink = Insert(@, path, Inode(path).to)] ELSE c

LinkIn(c, path) == IF path \in DOMAIN c.readlink THEN c.readlink[path] ELSE EmptyPath

\* The ".." of a path that is still text: without a separator nothing is cut.
Up(path) ==
  CASE path.items = <<>> -> Root
    [] path.items # <<>> /\ (path.abs \/ Len(path.items) > 1) -> [path EXCEPT !.items = Front(@)]
    [] OTHER -> path

Below(path, item) == [path EXCEPT !.items = Append(@, item)]

\* The working directory is read once per process.
WithCurrent(c) == IF c.current = EmptyPath THEN [c EXCEPT !.current = Path(TRUE, cwd)] ELSE c

IsTilde(path) == path.items # <<>> /\ ~path.abs /\ Head(path.items) = "~"

\* The components that are walked: those of the home or working directory come
\* in front of a relative path's own.
Items(c, path, baseIsReal) ==
  IF path.abs \/ baseIsReal THEN path.items
  ELSE (IF IsTilde(path) THEN Home ELSE WithCurrent(c).current.items) \o path.items

\* A bug: the components of a link's target are put after the link.
StartAtLink(path, base) == base

Start(path, base) == IF path.abs THEN Root ELSE base

\* The caches and the answer after a call.  The base of a relative path is the
\* directory of the link that is being followed, or EmptyPath at the top.
RECURSIVE cached_realpath(_, _, _, _, _)
cached_realpath(c, path, base, baseIsReal, symlooplevel) ==
  IF path = EmptyPath \/ symlooplevel = 0 THEN [c |-> c, result |-> EmptyPath]
  ELSE IF path.abs /\ path \in DOMAIN c.real THEN [c |-> c, result |-> c.real[path]]
  ELSE
    LET step(acc, item) ==
          LET here   == Below(acc.result, item)
              stat   == WithLstat(acc.c, here)
              linked == WithReadlink(stat, here)
              target == LinkIn(linked, here)
              inner  == cached_realpath(linked, target,
                          IF target.abs THEN EmptyPath ELSE acc.result, TRUE, symlooplevel - 1)
          IN  CASE acc.failed \/ item = "." -> acc
                [] ~acc.failed /\ item = ".." -> [acc EXCEPT !.result = Up(@)]
                [] ~acc.failed /\ item \notin {".", ".."} ->
                     IF stat.lstat[here] = "link" THEN [acc EXCEPT !.c = inner.c, !.result = inner.result]
                     ELSE IF stat.lstat[here] = "none"
                          THEN [c |-> stat, result |-> EmptyPath, failed |-> TRUE]
                          ELSE [acc EXCEPT !.c = stat, !.result = here]
        before == IF path.abs \/ baseIsReal \/ IsTilde(path) THEN c ELSE WithCurrent(c)
        end == FoldLeft(step,
                 [c |-> before, result |-> IF baseIsReal THEN Start(path, base) ELSE Root, failed |-> FALSE],
                 Items(c, path, baseIsReal))
    IN  [c |-> [end.c EXCEPT !.real = Insert(@, path, end.result)], result |-> end.result]

Call(c, path) == cached_realpath(c, path, EmptyPath, FALSE, SymLoopLevel)

-----------------------------------------------------------------------------
(* The process.                                                            *)

CacheInit ==
  /\ fs \in FileSystems /\ cwd \in WorkDirs
  /\ caches = NoCaches
  /\ answers = <<>>
  /\ changes = 0

\* ScanForLibraries resolves a search path or a directory entry.
Resolve(q) ==
  LET r == Call(caches, q)
  IN  /\ caches' = r.c
      /\ answers' = Insert(answers, q, r.result)
      /\ UNCHANGED <<fs, cwd, changes>>

\* getSymbolLocation, with the file name dladdr gives: when that cannot be
\* resolved, the executable.
Location(c, q) ==
  LET r == Call(c, q) IN IF r.result = EmptyPath THEN Call(r.c, ProcSelfExe) ELSE r

getSymbolLocation(q) ==
  /\ caches' = Location(caches, q).c
  /\ answers' = Insert(answers, q, Call(caches, q).result)
  /\ UNCHANGED <<fs, cwd, changes>>

\* Somebody changes the files, or the process its directory.
Change ==
  /\ changes < MaxChanges /\ changes' = changes + 1
  /\ \/ fs' \in FileSystems /\ UNCHANGED cwd
     \/ cwd' \in WorkDirs /\ UNCHANGED fs
  /\ UNCHANGED <<caches, answers>>

CacheNext == Change \/ \E q \in Queries : Resolve(q) \/ getSymbolLocation(q)

CacheSpec == CacheInit /\ [][CacheNext]_pathVars

-----------------------------------------------------------------------------
(* What must hold.                                                         *)

\* The caches hold paths and the kinds of files, and the working directory
\* that was read is one the process had.
CacheTypeOK ==
  /\ \A p \in DOMAIN caches.lstat : caches.lstat[p] \in {"none", "dir", "file", "link"}
  /\ DOMAIN caches.readlink \subseteq DOMAIN caches.lstat
  /\ caches.current \in {EmptyPath} \cup {Path(TRUE, d) : d \in WorkDirs}
  /\ DOMAIN answers \subseteq Queries /\ changes \in 0..MaxChanges

\* The text of a path without its ".".
Squeezed(path) == [path EXCEPT !.items = SelectSeq(@, LAMBDA i : i # ".")]

\* Every directory on the way exists and is one, up to one that is missing.
PlainlyMissing(path) ==
  \E i \in DOMAIN path.items :
    /\ Inode([path EXCEPT !.items = SubSeq(@, 1, i)]).kind = "none"
    /\ \A j \in 1..(i - 1) : Inode([path EXCEPT !.items = SubSeq(@, 1, j)]).kind = "dir"

\* While the files are as they were, a path that realpath(3) resolves over
\* fewer links than the limit is resolved to the same file, and one with a
\* missing component to nothing, whatever was resolved before; the location of
\* a symbol falls back to the executable.
ResolvesAsRealpath ==
  changes = 0 =>
    \A q \in {p \in Queries : ~IsTilde(p)} :
      /\ RealPath(q) # EmptyPath => Call(caches, q).result = RealPath(q)
      /\ PlainlyMissing(q) => /\ Call(caches, q).result = EmptyPath
                             /\ Location(caches, q).result = RealPath(ProcSelfExe)

\* What was answered once is answered for ever, to every spelling of the path
\* that differs in "." components only, whatever happens to the files: the
\* libraries of a search never change identity between two scans.
AnswersStick ==
  \A q \in DOMAIN answers, r \in Queries :
    Squeezed(q) = Squeezed(r) => Call(caches, r).result = answers[q]

\* A path leads where realpath(3) says while the files are as they were,
\* whatever was asked before, and never later to another place
\* (cached_realpath and the caches below it).
PathsExact == CacheTypeOK /\ ResolvesAsRealpath /\ AnswersStick
=============================================================================
