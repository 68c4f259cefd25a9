------------------------------ MODULE MCSession ------------------------------
(* A header with a static, a thread_local and a constant, used from several    *)
(* inputs, and the ways an interpreter may be created.                         *)
EXTENDS Session, TLC

\* v has a guard gv; t is a thread_local, k a constant.
MCGlobals ==
  [s \in {"v", "gv", "t", "k"} |->
     [threadLocal |-> s = "t", constant |-> s = "k", guard |-> IF s = "v" THEN "gv" ELSE ""]]

code(syntax, needs, defines, value) ==
  [syntax |-> syntax, needs |-> needs, defines |-> defines, value |-> value]

MCProgram ==
  [globals |-> MCGlobals,
   code |->
     [c \in {"internal", "useV", "useT", "broken", "include", "object"} |->
        CASE c = "internal" -> code("ok", {}, {}, "void")
          [] c = "useV"     -> code("ok", {}, {"v", "gv"}, "void")
          [] c = "useT"     -> code("ok", {}, {"t"}, "Char_U")
          [] c = "broken"   -> code("error", {}, {"t"}, "void")
          [] c = "include"  -> code("ok", {"/b"}, {"k"}, "void")
          [] c = "object"   -> code("ok", {}, {}, "class")]]

MCLibraries == {{"v"}, {"v", "gv"}}

\* The plain case, and what differs from it.
Plain ==
  [baked |-> <<>>, args |-> <<>>, gpu |-> <<>>, env |-> <<>>,
   configured |-> "/llvm-22/clang/22", derived |-> "/build/clang/22",
   clangSays |-> <<[dir |-> "/usr/clang/22", compatible |-> TRUE]>>,
   directories |-> {"/llvm-22/clang/22", "/usr/clang/22", "/mine", "/packager"},
   underLlvm |-> {"/llvm-22/clang/22"}, underClang |-> {"/llvm-22/clang/22", "/usr/clang/22"},
   runtimes |-> <<[place |-> "env", holds |-> {"liborc_rt.a"}],
                  [place |-> "own", holds |-> {"liborc_rt.a", "llvm-jitlink-executor"}],
                  [place |-> "install", holds |-> {"liborc_rt.a", "llvm-jitlink-executor"}]>>,
   arch |-> "sm_80", cuda |-> "/usr/local/cuda",
   tmpfiles |-> TRUE, compilers |-> TRUE, device |-> TRUE, cudart |-> TRUE]

Resource(dir) == <<ResourceDirFlag, dir>>

MCHosts ==
  {[Plain EXCEPT !.baked = b, !.args = a, !.env = e] :
      b \in {<<>>, Resource("/packager")},
      a \in {<<>>, Resource("/mine"), Resource("/nowhere"), <<OopFlag>>, <<"-xc">>},
      e \in {<<>>, Resource("/usr/clang/22")}}
  \cup {[Plain EXCEPT !.configured = "/gone", !.clangSays = says] :
          says \in {<<>>, Plain.clangSays, <<[dir |-> "/usr/clang/21", compatible |-> FALSE]>>}}
  \cup {[Plain EXCEPT !.args = <<OopFlag>>, !.runtimes = <<>>],
        [Plain EXCEPT !.args = <<OopFlag>>, !.tmpfiles = FALSE],
        [Plain EXCEPT !.args = <<ResourceDirFlag>>],
        [Plain EXCEPT !.gpu = <<"sm_80">>],
        [Plain EXCEPT !.gpu = <<"--cuda", "--offload-arch=">>],
        [Plain EXCEPT !.gpu = <<"--cuda">>, !.args = <<OopFlag>>],
        [Plain EXCEPT !.gpu = <<"--cuda">>, !.cudart = FALSE]}

\* Boxes in this process, paths in one, and inputs in another process.
MCUses(h) ==
  CASE h = Plain                                              -> {"inputs", "boxes"}
    [] h = [Plain EXCEPT !.baked = Resource("/packager")]     -> {"inputs", "paths"}
    [] h = [Plain EXCEPT !.args = <<OopFlag>>]                -> {"inputs"}
    [] OTHER                                                  -> {}

MCSymmetry == Permutations(BoxNames) \cup Permutations(Payloads)
==============================================================================
