--------------------------- MODULE MCLibraryFiles ---------------------------
(***************************************************************************)
(* Instances of the three parts a search for libraries stands on: the      *)
(* manager's search path and books, the path cache, and the symbol filters *)
(* of one library file.  They share no state, so one behaviour exercises   *)
(* one of them, and the others keep still.                                 *)
(*                                                                         *)
(* The manager: a user directory, a system directory, a directory clients  *)
(* add later, and one linked from two spellings.                           *)
(* The path cache: a tree with links to directories and to files and a     *)
(* loop, which may become another tree.  No other chain of links is longer *)
(* than SymLoopLevel.                                                      *)
(* The filters: lists of up to eight symbols, enough for a second word of  *)
(* the table, over one-byte and two-byte names with the real hash at a     *)
(* narrow width; files without a .gnu.hash section, of 64 and of 32 bits.  *)
(***************************************************************************)
EXTENDS DynamicLibraryManager, PathCache, ElfObject, TLC

CONSTANTS libfoo,  \* /user/libfoo.so
          libbar,  \* /system/libbar.so, linked from /added/foo.so
          newbar,  \* /added/libbar.so
          nodeps,  \* /system/nodeps.so, which dlopen refuses
          link,    \* an absolute path that links to /user/libfoo.so
          HashWidth,  \* bound: bits of the hash
          MaxList     \* bound on the length of a symbol list

MCDirs  == {"user", "system", "added", "work"}
MCPaths == {"/user", ".", "/system", "/added", "/added/.", "/gone"}
MCRealDir == ("/user" :> "user") @@ ("." :> "work") @@ ("/system" :> "system")
             @@ ("/added" :> "added") @@ ("/added/." :> "added")
             @@ ("/gone" :> NULL)

MCFileNames == {"foo", "libfoo", "foo.so", "libfoo.so",
                "bar", "libbar", "libbar.so", "nodeps.so"}
MCAddExt == [n \in MCFileNames |->
               CASE n = "foo" -> "foo.so" [] n = "libfoo" -> "libfoo.so"
                 [] n = "libbar" -> "libbar.so"
                 [] OTHER -> NULL]
MCAddLib == [n \in MCFileNames |->
               CASE n = "foo" -> "libfoo" [] n = "foo.so" -> "libfoo.so"
                 [] n = "bar" -> "libbar"
                 [] OTHER -> NULL]
MCAt == [e \in MCDirs \X MCFileNames |->
           CASE e = <<"user", "libfoo.so">>   -> libfoo
             [] e = <<"system", "libbar.so">> -> libbar
             [] e = <<"added", "foo.so">>     -> libbar
             [] e = <<"added", "libbar.so">>  -> newbar
             [] e = <<"work", "bar">>         -> newbar
             [] e = <<"system", "nodeps.so">> -> nodeps
             [] OTHER -> NULL]
MCEnvList     == <<"", "/gone", "/user", "">>
MCSystemPaths == <<"/gone", "/system", "/user">>
MCNewPaths    == {"/added", "/added/.", "/user"}
MCLinks       == link :> libfoo

Dir  == [kind |-> "dir"]
File == [kind |-> "file"]
LinkTo(abs, components) == [kind |-> "link", to |-> Path(abs, components)]

Tree == <<"lib">> :> Dir @@ <<"lib", "1">> :> Dir @@ <<"lib", "1", "a.so">> :> File
     @@ <<"lib", "2">> :> LinkTo(FALSE, <<"1">>) @@ <<"lib", "3">> :> LinkTo(TRUE, <<"lib", "2">>)
     @@ <<"lib", "1", "b.so">> :> LinkTo(FALSE, <<"..", "1", ".", "a.so">>)
     @@ <<"exe">> :> File
     @@ <<"loop">> :> LinkTo(TRUE, <<"pool">>) @@ <<"pool">> :> LinkTo(FALSE, <<"loop">>)
\* An upgrade: a.so is now a link, and /lib/2 a directory of its own.
Later == <<"lib", "1", "c.so">> :> File
      @@ <<"lib", "2">> :> Dir @@ <<"lib", "2", "a.so">> :> File
      @@ <<"lib", "1", "a.so">> :> LinkTo(FALSE, <<"c.so">>) @@ Tree
MCFileSystems == {Tree, Later}
MCQueries == {Path(TRUE, <<"lib", "3", "b.so">>), Path(TRUE, <<"lib", "1", "c.so">>),
              Path(FALSE, <<".", "..", "1", ".", "a.so">>), Path(FALSE, <<"..", "1", "a.so">>),
              Path(TRUE, <<"loop", "lib">>), Path(FALSE, <<"~", "a.so">>)}
MCWorkDirs    == {<<"lib", "1">>, <<>>}
MCHome        == <<"lib">>
MCProcSelfExe == Path(TRUE, <<"exe">>)

MCSymbols == {<<97>>, <<98, 97>>, <<102, 99>>}
MCHash    == [s \in MCSymbols |-> GNUHash(s, HashWidth)]
\* Every list of up to three, and every longer one up to its order.
MCObjects == UNION {[1..n -> MCSymbols] : n \in 0..3}
  \cup {[i \in 1..(a + b + c) |-> IF i <= a THEN <<97>> ELSE IF i <= a + b THEN <<98, 97>> ELSE <<102, 99>>] :
          <<a, b, c>> \in {t \in (0..MaxList) \X (0..MaxList) \X (0..MaxList) : t[1] + t[2] + t[3] <= MaxList}}
Section(b, words, shift) == [bits |-> b, maskWords |-> words, shift2 |-> shift]
MCSections == {NoSection, Section(64, 2, 6), Section(32, 2, 5)}

-----------------------------------------------------------------------------
VARIABLE part   \* which of the three a behaviour exercises

FilesInit ==
  /\ part \in {"manager", "cache", "file"}
  /\ ManagerInit /\ CacheInit /\ ElfInit
  /\ part # "cache" => fs = Tree /\ cwd = <<>>
  /\ part # "file" => symbols = <<>> /\ section = NoSection

FilesNext ==
  /\ UNCHANGED part
  /\ \/ part = "manager" /\ ManagerNext /\ UNCHANGED <<pathVars, elfVars>>
     \/ part = "cache" /\ CacheNext /\ UNCHANGED <<managerVars, elfVars>>
     \/ part = "file" /\ ElfNext /\ UNCHANGED <<managerVars, pathVars>>

FilesSpec == FilesInit /\ [][FilesNext]_<<part, managerVars, pathVars, elfVars>>
=============================================================================
