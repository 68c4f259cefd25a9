---------------------------- MODULE MCSymbolSearch ----------------------------
(* A search path with a user directory whose library needs one from a        *)
(* private RPATH, a system directory that links back to it and whose library *)
(* needs one from a directory clients may add later.                         *)
EXTENDS SymbolSearch

CONSTANTS liba,    \* /user/liba.so, RPATH /private, needs libdep.so
          libdep,  \* /private/libdep.so, linked from /system
          libsys,  \* /system/libsys.so, RUNPATH $origin:/added, needs libnew.so
          libnew,  \* /added/libnew.so
          debug,   \* /system/debug.so, debug symbols only
          tool     \* /user/tool, a position independent executable

MCLibs == {liba, libdep, libsys, libnew, debug, tool}
MCDirs == {"user", "private", "system", "added"}
MCFileNames == {"liba.so", "libdep.so", "libsys.so", "libnew.so",
                "debug.so", "tool"}
MCPaths == {"/user", "/user/.", ".", "/private", "/system", "/added", "/gone"}
MCRealDir == ("/user" :> "user") @@ ("/user/." :> "user") @@ ("." :> "user")
             @@ ("/private" :> "private") @@ ("/system" :> "system")
             @@ ("/added" :> "added") @@ ("/gone" :> NULL)
MCAt == [e \in MCDirs \X MCFileNames |->
           CASE e = <<"user", "liba.so">>      -> liba
             [] e = <<"user", "tool">>         -> tool
             [] e = <<"private", "libdep.so">> -> libdep
             [] e = <<"system", "libdep.so">>  -> libdep
             [] e = <<"system", "libsys.so">>  -> libsys
             [] e = <<"system", "liba.so">>    -> liba
             [] e = <<"system", "debug.so">>   -> debug
             [] e = <<"added", "libnew.so">>   -> libnew
             [] OTHER -> NULL]
MCNoVariant == [n \in MCFileNames |-> NULL]
MCNoLinks   == <<>>
MCEnvList     == <<"", "/gone", "/user">>
MCSystemPaths == <<"/system", "/gone", "/user">>
MCNewPaths    == {"/added"}

\* f: a user and a system library export it; g: the dependency exports it;
\* h: hidden in liba, exported by libnew; w: weak in libsys, defined nowhere
\* else.
MCSymbols == {"f", "g", "h", "w"}
MCDyn == [l \in MCLibs |->
            CASE l = liba -> {"f"} [] l = libdep -> {"g"} [] l = libsys -> {"f"}
              [] l = libnew -> {"h"} [] OTHER -> {"w"}]
MCSymtab == [l \in MCLibs |->
               CASE l = liba -> {"f", "h"} [] l = libsys -> {"f", "w"}
                 [] OTHER -> MCDyn[l]]
MCWeakSyms == [l \in MCLibs |-> IF l = libsys THEN {"w"} ELSE {}]
\* No library has a .gnu.hash section.
MCGnuHash  == [l \in MCLibs |-> MCSymbols]
MCDynTab   == [l \in MCLibs |->
                CASE l = liba -> <<[tag |-> "DT_NEEDED", val |-> "libdep.so"],
                                   [tag |-> "DT_RPATH", val |-> <<"/private", "">>]>>
                  [] l = libsys -> <<[tag |-> "DT_RUNPATH", val |-> <<"$origin", "/added">>],
                                     [tag |-> "DT_NEEDED", val |-> "libnew.so"]>>
                  [] l = tool -> <<[tag |-> "DT_FLAGS_1", val |-> {"DF_1_PIE", "DF_1_NOW"}]>>
                  [] OTHER -> <<>>]
MCDirPath  == [l \in MCLibs |->
                CASE l \in {liba, tool} -> "/user" [] l = libdep -> "/private"
                  [] l = libnew -> "/added" [] OTHER -> "/system"]
MCDirOrder == ("user" :> <<"tool", "liba.so">>) @@ ("private" :> <<"libdep.so">>)
              @@ ("system" :> <<"libdep.so", "debug.so", "libsys.so", "liba.so">>)
              @@ ("added" :> <<"libnew.so">>)
===============================================================================
