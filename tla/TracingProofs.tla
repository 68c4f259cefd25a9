---------------------------- MODULE TracingProofs ----------------------------
(***************************************************************************)
(* Proofs about the tracer: the log is at every moment a program that      *)
(* replays what was done, and the files hold the calls they should, for    *)
(* any functions, pointers, containers and bounds, whatever is called,     *)
(* nested, returned, cleared or crashes.                                   *)
(*                                                                         *)
(* Three functions of a log are defined by recursion: the names it binds   *)
(* and the buffers it fills when replayed (Replay), the calls it makes     *)
(* (CallsIn), and the lines that name the elements of a vector             *)
(* (RegisterHandles).  Each is first shown to have its turns, and then     *)
(* what one line more, or a line in the place of another, changes of it.   *)
(* The invariant, TracingInv, comes after that, and then the actions.      *)
(***************************************************************************)
EXTENDS Tracing, SequenceTheorems, NaturalsInduction, WellFoundedInduction, TLAPS

-----------------------------------------------------------------------------
(* Loops, and the calls of a log.                                          *)

\* A set of naturals that is not empty has a least member.
LEMMA LeastOf == ASSUME NEW S \in SUBSET Nat, S # {} PROVE \E x \in S : \A y \in S : x <= y
<1>1. IsWellFoundedOn({ss \in Nat \X Nat : ss[1] < ss[2]}, Nat)
  BY NatLessThanWellFounded DEF OpToRel
<1>2. PICK x \in S : \A y \in S : <<y, x>> \notin {ss \in Nat \X Nat : ss[1] < ss[2]}
  BY <1>1, WFMin
<1>3. ASSUME NEW y \in S PROVE x <= y
  <2>1. <<y, x>> \in Nat \X Nat /\ <<y, x>>[1] = y /\ <<y, x>>[2] = x
    OBVIOUS
  <2>2. ~ (y < x)
    BY <1>2, <2>1
  <2>. QED
    BY <2>2
<1>. QED
  BY <1>3

\* Induction up to n: a set with 0 and the successors of its members.
LEMMA UpTo ==
  ASSUME NEW n \in Nat, NEW S, 0 \in S, \A i \in 1..n : i - 1 \in S => i \in S
  PROVE  \A i \in 0..n : i \in S
<1>. DEFINE missing == {i \in 0..n : i \notin S}
<1>. SUFFICES ASSUME missing # {} PROVE FALSE
  OBVIOUS
<1>1. missing \in SUBSET Nat
  OBVIOUS
<1>2. PICK i \in missing : \A j \in missing : i <= j
  BY <1>1, LeastOf
<1>3. i \in 1..n /\ i \notin S /\ i - 1 \in S
  BY <1>2
<1>. QED
  BY <1>3

\* What a loop of n turns goes through.
Loop(n, start, step, f) == f = [i \in 0..n |-> IF i = 0 THEN start ELSE step[<<i, f[i - 1]>>]]

\* It can be run.
LEMMA LoopRuns ==
  ASSUME NEW n \in Nat, NEW S, NEW start \in S, NEW step \in [(1..n) \X S -> S]
  PROVE  \E f \in [0..n -> S] : Loop(n, start, step, f)
<1>. DEFINE Runs(m, f) == f[0] = start /\ \A i \in 1..m : f[i] = step[<<i, f[i - 1]>>]
            done == {m \in 0..n : \E f \in [0..m -> S] : Runs(m, f)}
<1>1. 0 \in done
  <2>. DEFINE f == [i \in 0..0 |-> start]
  <2>1. f \in [0..0 -> S] /\ Runs(0, f)
    OBVIOUS
  <2>. HIDE DEF f
  <2>2. \E h \in [0..0 -> S] : Runs(0, h)
    BY <2>1
  <2>. HIDE DEF Runs
  <2>. QED
    BY <2>2
<1>2. ASSUME NEW m \in 1..n, m - 1 \in done PROVE m \in done
  <2>1. PICK f \in [0..(m - 1) -> S] : Runs(m - 1, f)
    BY <1>2
  <2>2. step[<<m, f[m - 1]>>] \in S
    OBVIOUS
  <2>. DEFINE g == [i \in 0..m |-> IF i < m THEN f[i] ELSE step[<<m, f[m - 1]>>]]
  <2>3. g \in [0..m -> S]
    BY <2>2
  <2>4. g[0] = f[0] /\ g[m] = step[<<m, f[m - 1]>>] /\ g[m - 1] = f[m - 1]
    OBVIOUS
  <2>5. ASSUME NEW i \in 1..m, i # m PROVE g[i] = f[i] /\ g[i - 1] = f[i - 1] /\ i \in 1..(m - 1)
    BY <2>5
  <2>6. Runs(m, g)
    BY <2>1, <2>4, <2>5
  <2>. HIDE DEF g
  <2>7. \E h \in [0..m -> S] : Runs(m, h)
    BY <2>3, <2>6
  <2>. HIDE DEF Runs
  <2>. QED
    BY <2>7
<1>. HIDE DEF done
<1>3. n \in done
  BY <1>1, <1>2, UpTo
<1>4. PICK f \in [0..n -> S] : Runs(n, f)
  BY <1>3 DEF done
<1>5. ASSUME NEW i \in 0..n PROVE f[i] = IF i = 0 THEN start ELSE step[<<i, f[i - 1]>>]
  BY <1>4
<1>6. f = [i \in 0..n |-> IF i = 0 THEN start ELSE step[<<i, f[i - 1]>>]]
  BY <1>5
<1>7. Loop(n, start, step, f)
  BY <1>6 DEF Loop
<1>. QED
  BY <1>7

-----------------------------------------------------------------------------
(* The calls of a log. *)

\* CallsIn runs its loop.
CallsTurns(lines, f) ==
  [i \in 0..Len(lines) |-> IF i = 0 THEN <<>> ELSE AddCall(f[i - 1], lines[i])]

\* Its turns.
LEMMA CallsTurn ==
  ASSUME NEW lines, NEW n \in Nat, n = Len(lines), NEW f, f = CallsTurns(lines, f)
  PROVE  /\ f = [i \in 0..n |-> f[i]] /\ f[0] = <<>>
         /\ \A i \in 1..n : f[i] = AddCall(f[i - 1], lines[i])
<1>. DEFINE turn(i) == IF i = 0 THEN <<>>
                       ELSE AddCall(f[i - 1], lines[i])
<1>1. f = [i \in 0..n |-> turn(i)]
  BY DEF CallsTurns
<1>2. turn(0) = <<>>
  OBVIOUS
<1>3. \A i \in 1..n : turn(i) = AddCall(f[i - 1], lines[i])
  OBVIOUS
<1>. HIDE DEF turn
<1>4. \A i \in 0..n : f[i] = turn(i)
  BY <1>1
<1>5. f = [i \in 0..n |-> f[i]]
  BY <1>1
<1>. QED
  BY <1>2, <1>3, <1>4, <1>5

\* The calls of a log are found turn by turn.
LEMMA CallsInRuns ==
  ASSUME NEW lines \in Seq(Lines)
  PROVE  \E f \in [0..Len(lines) -> Seq(Functions)] : f = CallsTurns(lines, f) /\ CallsIn(lines) = f[Len(lines)]
<1>. DEFINE n == Len(lines)
            step == [z \in (1..n) \X Seq(Functions) |->
                       AddCall(z[2], lines[z[1]])]
<1>1. ASSUME NEW l \in Lines, NEW s \in Seq(Functions) PROVE AddCall(s, l) \in Seq(Functions)
  BY DEF Lines, AddCall
<1>2. step \in [(1..n) \X Seq(Functions) -> Seq(Functions)]
  BY <1>1
<1>3. n \in Nat /\ <<>> \in Seq(Functions)
  OBVIOUS
<1>. HIDE DEF n
<1>4. PICK f \in [0..n -> Seq(Functions)] : Loop(n, <<>>, step, f)
  <2>. HIDE DEF step
  <2>. QED
    BY <1>2, <1>3, LoopRuns
<1>5. \A i \in 1..n : f[i] = AddCall(f[i - 1], lines[i])
  <2>. TAKE i \in 1..n
  <2>1. f[i] = step[<<i, f[i - 1]>>]
    <3>. HIDE DEF step
    <3>. QED
      BY <1>3, <1>4 DEF Loop
  <2>2. f[i - 1] \in Seq(Functions)
    BY <1>3
  <2>. QED
    BY <2>1, <2>2
<1>6. f = CallsTurns(lines, f)
  <2>. DEFINE turn(i) == IF i = 0 THEN <<>>
                         ELSE AddCall(f[i - 1], lines[i])
  <2>1. f[0] = <<>>
    <3>. HIDE DEF step
    <3>. QED
      BY <1>3, <1>4 DEF Loop
  <2>2. \A i \in 0..n : f[i] = turn(i)
    BY <1>3, <1>5, <2>1
  <2>. HIDE DEF turn
  <2>3. f = [i \in 0..n |-> turn(i)]
    BY <2>2
  <2>. QED
    BY <2>3 DEF CallsTurns, turn, n
<1>. DEFINE g == CHOOSE h : h = [i \in 0..Len(lines) |->
                                   IF i = 0 THEN <<>>
                                   ELSE AddCall(h[i - 1], lines[i])]
<1>7. CallsIn(lines) = g[Len(lines)]
  BY DEF CallsIn
<1>8. g = CallsTurns(lines, g)
  BY <1>6 DEF CallsTurns
<1>9. g \in [0..n -> Seq(Functions)] /\ \A i \in 0..n : g[i] = f[i]
  <2>. HIDE DEF g
  <2>. DEFINE same == {i \in 0..n : g[i] = f[i]}
  <2>0. /\ g = [i \in 0..n |-> g[i]] /\ g[0] = <<>> /\ f[0] = <<>>
        /\ \A i \in 1..n : g[i] = AddCall(g[i - 1], lines[i])
    BY <1>3, <1>6, <1>8, CallsTurn DEF n
  <2>1. 0 \in same
    BY <1>3, <2>0
  <2>2. ASSUME NEW i \in 1..n, i - 1 \in same PROVE i \in same
    <3>1. g[i] = AddCall(g[i - 1], lines[i]) /\ f[i] = AddCall(f[i - 1], lines[i]) /\ g[i - 1] = f[i - 1]
      BY <2>2, <2>0, <1>5
    <3>. QED
      BY <3>1
  <2>. HIDE DEF same
  <2>3. \A i \in 0..n : i \in same
    BY <1>3, <2>1, <2>2, UpTo
  <2>4. \A i \in 0..n : g[i] = f[i]
    BY <2>3 DEF same
  <2>. QED
    BY <2>0, <2>4
<1>10. Len(lines) \in 0..n /\ n = Len(lines)
  BY <1>3 DEF n
<1>. HIDE DEF g
<1>. QED
  BY <1>7, <1>8, <1>9, <1>10

\* A line that is a call adds its function.
LEMMA CallsInAppend ==
  ASSUME NEW lines \in Seq(Lines), NEW line \in Lines
  PROVE  /\ CallsIn(<<>>) = <<>>
         /\ CallsIn(Append(lines, line)) = AddCall(CallsIn(lines), line)
<1>. DEFINE more == Append(lines, line)
            n == Len(lines)
<1>1. more \in Seq(Lines) /\ Len(more) = n + 1 /\ more[n + 1] = line /\ n \in Nat /\ \A i \in 1..n : more[i] = lines[i]
  OBVIOUS
<1>. HIDE DEF more
<1>2. PICK f \in [0..n -> Seq(Functions)] : f = CallsTurns(lines, f) /\ CallsIn(lines) = f[n]
  BY CallsInRuns
<1>3. PICK g \in [0..(n + 1) -> Seq(Functions)] : g = CallsTurns(more, g) /\ CallsIn(more) = g[n + 1]
  BY <1>1, CallsInRuns
<1>a. /\ f[0] = <<>>
      /\ \A i \in 1..n : f[i] = AddCall(f[i - 1], lines[i])
  BY <1>1, <1>2, CallsTurn
<1>b. /\ g[0] = <<>>
      /\ \A i \in 1..(n + 1) : g[i] = AddCall(g[i - 1], more[i])
  <2>1. n + 1 \in Nat /\ n + 1 = Len(more)
    BY <1>1
  <2>. HIDE DEF n
  <2>. QED
    BY <2>1, <1>3, CallsTurn
<1>. HIDE DEF n
<1>4. \A i \in 0..n : f[i] = g[i]
  <2>. DEFINE same == {i \in 0..n : f[i] = g[i]}
  <2>1. 0 \in same
    BY <1>1, <1>a, <1>b
  <2>2. ASSUME NEW i \in 1..n, i - 1 \in same PROVE i \in same
    BY <2>2, <1>1, <1>a, <1>b
  <2>. HIDE DEF same
  <2>3. \A i \in 0..n : i \in same
    BY <1>1, <2>1, <2>2, UpTo
  <2>. QED
    BY <2>3 DEF same
<1>5. g[n + 1] = AddCall(g[n], line)
  BY <1>1, <1>b
<1>6. CallsIn(more) = AddCall(CallsIn(lines), line)
  BY <1>1, <1>2, <1>3, <1>4, <1>5
<1>7. CallsIn(<<>>) = <<>>
  <2>1. PICK e \in [0..Len(<<>>) -> Seq(Functions)] : e = CallsTurns(<<>>, e) /\ CallsIn(<<>>) = e[Len(<<>>)]
    BY CallsInRuns
  <2>2. Len(<<>>) = 0
    OBVIOUS
  <2>3. e[0] = <<>>
    BY <2>1, <2>2 DEF CallsTurns
  <2>. QED
    BY <2>1, <2>2, <2>3
<1>. QED
  BY <1>6, <1>7 DEF more

\* More has the lines of lines, some changed but to calls of the same functions,
\* and others that are not calls after them.
SameCalls(lines, more) ==
  /\ lines \in Seq(Lines) /\ more \in Seq(Lines) /\ Len(lines) <= Len(more)
  /\ \A i \in 1..Len(lines) : more[i].k = lines[i].k /\ (lines[i].k = "call" => more[i].fn = lines[i].fn)
  /\ \A i \in 1..Len(more) : i > Len(lines) => more[i].k # "call"

\* These calls are the same.
LEMMA CallsInSame ==
  ASSUME NEW lines, NEW more, SameCalls(lines, more)
  PROVE  CallsIn(more) = CallsIn(lines)
<1>. DEFINE n == Len(lines)
            m == Len(more)
<1>1. /\ lines \in Seq(Lines) /\ more \in Seq(Lines) /\ n \in Nat /\ m \in Nat /\ n <= m
      /\ \A i \in 1..n : more[i].k = lines[i].k /\ (lines[i].k = "call" => more[i].fn = lines[i].fn)
      /\ \A i \in 1..m : i > n => more[i].k # "call"
  BY DEF SameCalls
<1>2. PICK f \in [0..n -> Seq(Functions)] : f = CallsTurns(lines, f) /\ CallsIn(lines) = f[n]
  BY <1>1, CallsInRuns
<1>3. PICK g \in [0..m -> Seq(Functions)] : g = CallsTurns(more, g) /\ CallsIn(more) = g[m]
  BY <1>1, CallsInRuns
<1>4. f[0] = <<>> /\ \A i \in 1..n : f[i] = AddCall(f[i - 1], lines[i])
  BY <1>1, <1>2, CallsTurn
<1>5. g[0] = <<>> /\ \A i \in 1..m : g[i] = AddCall(g[i - 1], more[i])
  BY <1>1, <1>3, CallsTurn
<1>. HIDE DEF n, m
<1>. DEFINE same == {i \in 0..m : g[i] = f[IF i <= n THEN i ELSE n]}
<1>6. 0 \in same
  BY <1>1, <1>4, <1>5
<1>7. ASSUME NEW i \in 1..m, i - 1 \in same PROVE i \in same
  <2>1. CASE i <= n
    <3>1. i \in 1..n /\ g[i - 1] = f[i - 1]
      BY <2>1, <1>1, <1>7
    <3>2. AddCall(g[i - 1], more[i]) = AddCall(f[i - 1], lines[i])
      BY <1>1, <3>1 DEF AddCall
    <3>. QED
      BY <2>1, <3>1, <3>2, <1>4, <1>5
  <2>2. CASE i > n
    <3>1. g[i - 1] = f[n] /\ AddCall(g[i - 1], more[i]) = g[i - 1]
      BY <2>2, <1>1, <1>7 DEF AddCall
    <3>. QED
      BY <2>2, <3>1, <1>1, <1>5
  <2>. QED
    BY <1>1, <2>1, <2>2
<1>. HIDE DEF same
<1>8. m \in same
  <2>1. m \in Nat
    BY <1>1
  <2>2. \A i \in 0..m : i \in same
    BY <1>6, <1>7, <2>1, UpTo
  <2>. QED
    BY <2>1, <2>2
<1>. QED
  BY <1>1, <1>2, <1>3, <1>8 DEF same

-----------------------------------------------------------------------------
(* Replaying a log.                                                        *)

\* The functions on a part of D.
Partial(D, R) == UNION {[E -> R] : E \in SUBSET D}

\* What a replay has in memory.
Memories == [env : Partial(Nat, PointerOrNull), buf : Partial({"out", "ret"} \X Nat, Seq(PointerOrNull))]

\* Before the first line.
Blank == [env |-> <<>>, buf |-> <<>>]

\* A value more.
LEMMA WithMore ==
  ASSUME NEW D, NEW R, NEW f \in Partial(D, R), NEW x \in D, NEW v \in R
  PROVE  With(f, x, v) \in Partial(D, R)
<1>1. PICK E \in SUBSET D : f \in [E -> R]
  BY DEF Partial
<1>2. With(f, x, v) \in [E \cup {x} -> R]
  BY <1>1 DEF With
<1>. QED
  BY <1>2 DEF Partial

\* A value is one of the function's or the default.
LEMMA AtOf ==
  ASSUME NEW D, NEW R, NEW f \in Partial(D, R), NEW x, NEW d \in R
  PROVE  At(f, x, d) \in R
BY DEF Partial, At

\* What is read after a value more.
LEMMA AtWith ==
  ASSUME NEW f, NEW x, NEW v, NEW y, NEW d
  PROVE  At(With(f, x, v), y, d) = IF y = x THEN v ELSE At(f, y, d)
BY DEF At, With

\* An element of a sequence of pointers, None beyond its end.
LEMMA AtSeq ==
  ASSUME NEW s \in Seq(PointerOrNull), NEW i
  PROVE  At(s, i, None) \in PointerOrNull
BY DEF At, PointerOrNull

\* The fields of a line.
LEMMA LineFields ==
  ASSUME NEW line \in Lines
  PROVE  /\ line.k \in {"out", "element", "comment", "call"}
         /\ line.k = "out" => line.n \in Nat
         /\ line.k = "element" => line.v \in Nat /\ line.buf \in {"out", "ret"} \X Nat /\ line.i \in Nat
         /\ line.k = "call" =>
              /\ line.fn \in Functions /\ line.uses \in SUBSET Nat /\ line.out \in Nat \cup {None}
              /\ line.done \in BOOLEAN /\ line.v \in Nat /\ line.ret \in Nat \cup {None} /\ line.fx \in Effects
BY DEF Lines

\* What calls do to the memory is typed.
LEMMA CalledType ==
  ASSUME NEW m \in Memories, NEW line \in Lines, line.k = "call"
  PROVE  Called(m, line) \in Memories
<1>. DEFINE B == {"out", "ret"} \X Nat
            S == Seq(PointerOrNull)
            b1 == IF line.ret = None THEN m.buf ELSE With(m.buf, <<"ret", line.ret>>, line.fx.vec)
            o  == <<"out", line.out>>
            e  == IF line.v = 0 THEN m.env ELSE With(m.env, line.v, line.fx.result)
            b2 == IF line.out = None THEN b1 ELSE With(b1, o, At(b1, o, <<>>) \o line.fx.filled)
<1>1. /\ line.out \in Nat \cup {None} /\ line.v \in Nat /\ line.ret \in Nat \cup {None}
      /\ line.fx.result \in PointerOrNull /\ line.fx.vec \in S /\ line.fx.filled \in S
  BY LineFields DEF Effects
<1>2. m.env \in Partial(Nat, PointerOrNull) /\ m.buf \in Partial(B, S)
  BY DEF Memories
<1>. HIDE DEF S
<1>3. e \in Partial(Nat, PointerOrNull)
  BY <1>1, <1>2, WithMore
<1>4. b1 \in Partial(B, S)
  <2>1. CASE line.ret = None
    BY <2>1, <1>2
  <2>2. CASE line.ret # None
    <3>1. <<"ret", line.ret>> \in B
      BY <2>2, <1>1
    <3>. HIDE DEF B
    <3>. QED
      BY <2>2, <3>1, <1>1, <1>2, WithMore
  <2>. QED
    BY <2>1, <2>2
<1>5. b2 \in Partial(B, S)
  <2>1. CASE line.out = None
    BY <2>1, <1>4
  <2>2. CASE line.out # None
    <3>1. o \in B
      BY <2>2, <1>1
    <3>. HIDE DEF B, b1, o
    <3>2. <<>> \in S
      BY DEF S
    <3>3. At(b1, o, <<>>) \in S
      BY <1>4, <3>2, AtOf
    <3>4. At(b1, o, <<>>) \o line.fx.filled \in S
      BY <1>1, <3>3 DEF S
    <3>. QED
      BY <2>2, <3>1, <3>4, <1>4, WithMore
  <2>. QED
    BY <2>1, <2>2
<1>6. Called(m, line) = [env |-> e, buf |-> b2]
  BY DEF Called
<1>. HIDE DEF e, b2
<1>. QED
  BY <1>3, <1>5, <1>6 DEF Memories, S

\* So is what any line does.
LEMMA ReplayedType ==
  ASSUME NEW m \in Memories, NEW line \in Lines
  PROVE  Replayed(m, line) \in Memories
<1>. DEFINE B == {"out", "ret"} \X Nat
            S == Seq(PointerOrNull)
<1>1. /\ m.env \in Partial(Nat, PointerOrNull) /\ m.buf \in Partial(B, S)
      /\ m = [env |-> m.env, buf |-> m.buf]
  BY DEF Memories
<1>2. <<>> \in S
  OBVIOUS
<1>3. CASE line.k = "out"
  <2>1. <<"out", line.n>> \in B
    BY <1>3, LineFields
  <2>. HIDE DEF B, S
  <2>. DEFINE b == With(m.buf, <<"out", line.n>>, <<>>)
  <2>2. b \in Partial(B, S)
    BY <1>1, <1>2, <2>1, WithMore
  <2>3. Replayed(m, line) = [env |-> m.env, buf |-> b]
    BY <1>3, <1>1 DEF Replayed
  <2>. HIDE DEF b
  <2>. QED
    BY <1>1, <2>2, <2>3 DEF Memories, B, S
<1>4. CASE line.k = "element"
  <2>. DEFINE s == At(m.buf, line.buf, <<>>)
              e == With(m.env, line.v, At(s, line.i, None))
  <2>1. line.v \in Nat
    BY <1>4, LineFields
  <2>2. s \in S
    <3>. HIDE DEF B, S
    <3>. QED
      BY <1>1, <1>2, AtOf
  <2>3. At(s, line.i, None) \in PointerOrNull
    <3>. HIDE DEF s
    <3>. QED
      BY <2>2, AtSeq
  <2>4. e \in Partial(Nat, PointerOrNull)
    <3>. HIDE DEF s
    <3>. QED
      BY <1>1, <2>1, <2>3, WithMore
  <2>5. Replayed(m, line) = [env |-> e, buf |-> m.buf]
    BY <1>4, <1>1 DEF Replayed
  <2>. HIDE DEF e
  <2>. QED
    BY <1>1, <2>4, <2>5 DEF Memories
<1>5. CASE line.k = "call"
  BY <1>5, CalledType DEF Replayed
<1>6. CASE line.k = "comment"
  BY <1>6 DEF Replayed
<1>. QED
  BY <1>3, <1>4, <1>5, <1>6, LineFields

\* Replay runs its loop.
ReplayTurns(log, n, f) == [i \in 0..n |-> IF i = 0 THEN Blank ELSE Replayed(f[i - 1], log[i])]

\* Its turns.
LEMMA ReplayTurn ==
  ASSUME NEW log, NEW n \in Nat, NEW f, f = ReplayTurns(log, n, f)
  PROVE  /\ f = [i \in 0..n |-> f[i]] /\ f[0] = Blank
         /\ \A i \in 1..n : f[i] = Replayed(f[i - 1], log[i])
<1>1. f = [i \in 0..n |-> IF i = 0 THEN Blank ELSE Replayed(f[i - 1], log[i])]
  BY DEF ReplayTurns
<1>2. \A i \in 0..n : f[i] = IF i = 0 THEN Blank ELSE Replayed(f[i - 1], log[i])
  BY <1>1
<1>3. f = [i \in 0..n |-> f[i]]
  BY <1>1
<1>4. f[0] = Blank
  BY <1>2
<1>5. \A i \in 1..n : f[i] = Replayed(f[i - 1], log[i])
  BY <1>2
<1>. QED
  BY <1>3, <1>4, <1>5

\* A log can be replayed.
LEMMA ReplayRuns ==
  ASSUME NEW log \in Seq(Lines), NEW n \in 0..Len(log)
  PROVE  \E f \in [0..n -> Memories] : f = ReplayTurns(log, n, f) /\ Replay(log, n) = f[n]
<1>. DEFINE step == [z \in (1..n) \X Memories |-> Replayed(z[2], log[z[1]])]
<1>1. \A i \in 1..n : log[i] \in Lines
  OBVIOUS
<1>2. step \in [(1..n) \X Memories -> Memories]
  BY <1>1, ReplayedType
<1>3. n \in Nat /\ Blank \in Memories
  <2>1. <<>> \in [{} -> PointerOrNull] /\ <<>> \in [{} -> Seq(PointerOrNull)]
    OBVIOUS
  <2>2. <<>> \in Partial(Nat, PointerOrNull) /\ <<>> \in Partial({"out", "ret"} \X Nat, Seq(PointerOrNull))
    BY <2>1 DEF Partial
  <2>. QED
    BY <2>2 DEF Blank, Memories
<1>4. PICK f \in [0..n -> Memories] : Loop(n, Blank, step, f)
  <2>. HIDE DEF step
  <2>. QED
    BY <1>2, <1>3, LoopRuns
<1>5. \A i \in 1..n : f[i] = Replayed(f[i - 1], log[i])
  <2>. TAKE i \in 1..n
  <2>1. f[i] = step[<<i, f[i - 1]>>]
    <3>. HIDE DEF step
    <3>. QED
      BY <1>3, <1>4 DEF Loop
  <2>2. f[i - 1] \in Memories
    BY <1>3
  <2>. QED
    BY <2>1, <2>2
<1>6. f = ReplayTurns(log, n, f)
  <2>1. f[0] = Blank
    <3>. HIDE DEF step
    <3>. QED
      BY <1>3, <1>4 DEF Loop
  <2>2. \A i \in 0..n : f[i] = IF i = 0 THEN Blank ELSE Replayed(f[i - 1], log[i])
    BY <1>3, <1>5, <2>1
  <2>3. f = [i \in 0..n |-> IF i = 0 THEN Blank ELSE Replayed(f[i - 1], log[i])]
    BY <2>2
  <2>. QED
    BY <2>3 DEF ReplayTurns
<1>. DEFINE g == CHOOSE h : h = [i \in 0..n |->
                                   IF i = 0 THEN [env |-> <<>>, buf |-> <<>>] ELSE Replayed(h[i - 1], log[i])]
<1>7. Replay(log, n) = g[n]
  BY DEF Replay
<1>8. g = ReplayTurns(log, n, g)
  BY <1>6 DEF ReplayTurns, Blank
<1>9. g \in [0..n -> Memories]
  <2>. HIDE DEF g
  <2>0. /\ g = [i \in 0..n |-> g[i]] /\ g[0] = Blank /\ f[0] = Blank
        /\ \A i \in 1..n : g[i] = Replayed(g[i - 1], log[i])
    BY <1>3, <1>6, <1>8, ReplayTurn
  <2>. DEFINE same == {i \in 0..n : g[i] = f[i]}
  <2>1. 0 \in same
    BY <1>3, <2>0
  <2>2. ASSUME NEW i \in 1..n, i - 1 \in same PROVE i \in same
    <3>1. /\ g[i] = Replayed(g[i - 1], log[i]) /\ f[i] = Replayed(f[i - 1], log[i])
          /\ g[i - 1] = f[i - 1]
      BY <2>2, <2>0, <1>5
    <3>. QED
      BY <3>1
  <2>. HIDE DEF same
  <2>3. \A i \in 0..n : i \in same
    BY <1>3, <2>1, <2>2, UpTo
  <2>4. \A i \in 0..n : g[i] = f[i]
    BY <2>3 DEF same
  <2>. QED
    BY <2>0, <2>4
<1>. HIDE DEF g
<1>. QED
  BY <1>7, <1>8, <1>9

\* Logs that begin alike are replayed alike.
LEMMA ReplayAlike ==
  ASSUME NEW log \in Seq(Lines), NEW more \in Seq(Lines), NEW n \in 0..Len(log), NEW m \in n..Len(more),
         \A i \in 1..n : more[i] = log[i],
         NEW f, f = ReplayTurns(more, m, f)
  PROVE  Replay(log, n) = f[n]
<1>1. n \in Nat /\ m \in Nat
  OBVIOUS
<1>2. PICK g \in [0..n -> Memories] : g = ReplayTurns(log, n, g) /\ Replay(log, n) = g[n]
  BY ReplayRuns
<1>3. g[0] = Blank /\ \A i \in 1..n : g[i] = Replayed(g[i - 1], log[i])
  BY <1>1, <1>2, ReplayTurn
<1>4. f[0] = Blank /\ \A i \in 1..m : f[i] = Replayed(f[i - 1], more[i])
  BY <1>1, ReplayTurn
<1>. DEFINE same == {i \in 0..n : g[i] = f[i]}
<1>5. 0 \in same
  BY <1>1, <1>3, <1>4
<1>6. ASSUME NEW i \in 1..n, i - 1 \in same PROVE i \in same
  <2>1. /\ g[i] = Replayed(g[i - 1], log[i]) /\ f[i] = Replayed(f[i - 1], more[i]) /\ more[i] = log[i]
        /\ g[i - 1] = f[i - 1]
    BY <1>6, <1>3, <1>4, <1>1
  <2>. QED
    BY <2>1
<1>. HIDE DEF same
<1>7. \A i \in 0..n : i \in same
  BY <1>1, <1>5, <1>6, UpTo
<1>. QED
  BY <1>1, <1>2, <1>7 DEF same

\* The memory after a line is what the line makes of the memory before it.
LEMMA ReplayStep ==
  ASSUME NEW log \in Seq(Lines), NEW n \in 0..Len(log)
  PROVE  /\ Replay(log, n) \in Memories
         /\ Replay(log, 0) = Blank
         /\ n # 0 => Replay(log, n) = Replayed(Replay(log, n - 1), log[n])
<1>1. PICK f \in [0..n -> Memories] : f = ReplayTurns(log, n, f) /\ Replay(log, n) = f[n]
  BY ReplayRuns
<1>2. n \in Nat /\ 0 \in 0..Len(log) /\ n \in n..Len(log) /\ n \in 0..Len(log)
  OBVIOUS
<1>3. f[0] = Blank /\ \A i \in 1..n : f[i] = Replayed(f[i - 1], log[i])
  BY <1>1, <1>2, ReplayTurn
<1>4. Replay(log, 0) = f[0]
  BY <1>1, <1>2, ReplayAlike
<1>5. n # 0 => Replay(log, n - 1) = f[n - 1]
  BY <1>1, <1>2, ReplayAlike
<1>. QED
  BY <1>1, <1>2, <1>3, <1>4, <1>5

\* The same lines give the same memory.
LEMMA ReplaySame ==
  ASSUME NEW log \in Seq(Lines), NEW more \in Seq(Lines), NEW n \in 0..Len(log), n <= Len(more),
         \A i \in 1..n : more[i] = log[i]
  PROVE  Replay(more, n) = Replay(log, n)
<1>1. n \in 0..Len(more) /\ n \in n..Len(more)
  OBVIOUS
<1>2. PICK f \in [0..n -> Memories] : f = ReplayTurns(more, n, f) /\ Replay(more, n) = f[n]
  BY <1>1, ReplayRuns
<1>. QED
  BY <1>1, <1>2, ReplayAlike

-----------------------------------------------------------------------------
(* What replaying a log shows.                                             *)

\* The pointer a name is bound to, and what a buffer holds.
EnvOf(m, v) == At(m.env, v, None)
BufOf(m, o) == At(m.buf, o, <<>>)
EnvAt(log, v) == EnvOf(Replay(log, Len(log)), v)
BufAt(log, o) == BufOf(Replay(log, Len(log)), o)

\* What a line changes of this.
LineShows(m, line, after) ==
  /\ \A v : EnvOf(after, v) =
       IF line.k = "element" /\ v = line.v THEN At(BufOf(m, line.buf), line.i, None)
       ELSE IF line.k = "call" /\ line.v # 0 /\ v = line.v THEN line.fx.result
       ELSE EnvOf(m, v)
  /\ \A o : BufOf(after, o) =
       IF line.k = "out" /\ o = <<"out", line.n>> THEN <<>>
       ELSE IF line.k = "call" /\ line.out # None /\ o = <<"out", line.out>> THEN BufOf(m, o) \o line.fx.filled
       ELSE IF line.k = "call" /\ line.ret # None /\ o = <<"ret", line.ret>> THEN line.fx.vec
       ELSE BufOf(m, o)

\* Every line shows this.
LEMMA ReplayedShows ==
  ASSUME NEW m \in Memories, NEW line \in Lines
  PROVE  LineShows(m, line, Replayed(m, line))
<1>. DEFINE after == Replayed(m, line)
<1>1. m = [env |-> m.env, buf |-> m.buf]
  BY DEF Memories
<1>2. line.k \in {"out", "element", "comment", "call"}
  BY LineFields
<1>3. CASE line.k = "out"
  <2>1. after.env = m.env /\ after.buf = With(m.buf, <<"out", line.n>>, <<>>)
    BY <1>1, <1>3 DEF Replayed
  <2>. HIDE DEF after
  <2>2. \A v : EnvOf(after, v) = EnvOf(m, v)
    BY <2>1 DEF EnvOf
  <2>3. \A o : BufOf(after, o) = IF o = <<"out", line.n>> THEN <<>> ELSE BufOf(m, o)
    BY <2>1, AtWith DEF BufOf
  <2>. QED
    BY <2>2, <2>3, <1>3 DEF LineShows, after
<1>4. CASE line.k = "element"
  <2>1. after.env = With(m.env, line.v, At(BufOf(m, line.buf), line.i, None)) /\ after.buf = m.buf
    BY <1>1, <1>4 DEF Replayed, BufOf
  <2>. HIDE DEF after
  <2>2. \A v : EnvOf(after, v) = IF v = line.v THEN At(BufOf(m, line.buf), line.i, None) ELSE EnvOf(m, v)
    BY <2>1, AtWith DEF EnvOf
  <2>3. \A o : BufOf(after, o) = BufOf(m, o)
    BY <2>1 DEF BufOf
  <2>. QED
    BY <2>2, <2>3, <1>4 DEF LineShows, after
<1>5. CASE line.k = "comment"
  <2>1. after = m
    BY <1>5 DEF Replayed
  <2>. HIDE DEF after
  <2>. QED
    BY <2>1, <1>5 DEF LineShows, after
<1>6. CASE line.k = "call"
  <2>. DEFINE b1 == IF line.ret = None THEN m.buf ELSE With(m.buf, <<"ret", line.ret>>, line.fx.vec)
              r  == <<"ret", line.ret>>
              o1 == <<"out", line.out>>
  <2>1. /\ after.env = IF line.v = 0 THEN m.env ELSE With(m.env, line.v, line.fx.result)
        /\ after.buf = IF line.out = None THEN b1 ELSE With(b1, o1, At(b1, o1, <<>>) \o line.fx.filled)
    BY <1>6 DEF Replayed, Called
  <2>2. \A v : EnvOf(after, v) = IF line.v # 0 /\ v = line.v THEN line.fx.result ELSE EnvOf(m, v)
    <3>. HIDE DEF after
    <3>. QED
      BY <2>1, AtWith DEF EnvOf
  <2>3. o1 # r
    OBVIOUS
  <2>4. \A o : At(b1, o, <<>>) = IF line.ret # None /\ o = r THEN line.fx.vec ELSE BufOf(m, o)
    BY AtWith DEF BufOf
  <2>. HIDE DEF after, b1, o1, r
  <2>5. At(b1, o1, <<>>) = BufOf(m, o1)
    BY <2>3, <2>4
  <2>6. \A o : BufOf(after, o) = IF line.out # None /\ o = o1 THEN BufOf(m, o1) \o line.fx.filled
                                 ELSE At(b1, o, <<>>)
    BY <2>1, <2>5, AtWith DEF BufOf
  <2>7. \A o : BufOf(after, o) = IF line.out # None /\ o = o1 THEN BufOf(m, o) \o line.fx.filled
                                 ELSE IF line.ret # None /\ o = r THEN line.fx.vec ELSE BufOf(m, o)
    BY <2>4, <2>6
  <2>. QED
    BY <2>2, <2>7, <1>6 DEF LineShows, after, o1, r
<1>. QED
  BY <1>2, <1>3, <1>4, <1>5, <1>6

\* The buffers hold sequences of pointers.
LEMMA BufType ==
  ASSUME NEW log \in Seq(Lines), NEW o
  PROVE  BufAt(log, o) \in Seq(PointerOrNull)
<1>1. Len(log) \in 0..Len(log)
  OBVIOUS
<1>2. Replay(log, Len(log)) \in Memories
  BY <1>1, ReplayStep
<1>3. Replay(log, Len(log)).buf \in Partial({"out", "ret"} \X Nat, Seq(PointerOrNull)) /\ <<>> \in Seq(PointerOrNull)
  BY <1>2 DEF Memories
<1>4. At(Replay(log, Len(log)).buf, o, <<>>) \in Seq(PointerOrNull)
  BY <1>3, AtOf
<1>. QED
  BY <1>4 DEF BufAt, BufOf

\* A line more.
LEMMA AppendShows ==
  ASSUME NEW log \in Seq(Lines), NEW line \in Lines
  PROVE  LineShows(Replay(log, Len(log)), line, Replay(Append(log, line), Len(Append(log, line))))
<1>. DEFINE more == Append(log, line)
            n == Len(log)
<1>1. more \in Seq(Lines) /\ Len(more) = n + 1 /\ more[n + 1] = line /\ n \in Nat /\ \A i \in 1..n : more[i] = log[i]
  OBVIOUS
<1>. HIDE DEF more
<1>2. Replay(more, n) = Replay(log, n)
  <2>1. n \in 0..Len(log) /\ n <= Len(more)
    BY <1>1
  <2>. QED
    BY <1>1, <2>1, ReplaySame
<1>3. Replay(more, n + 1) = Replayed(Replay(more, n), line)
  <2>1. n + 1 \in 0..Len(more) /\ n + 1 # 0 /\ (n + 1) - 1 = n
    BY <1>1
  <2>. QED
    BY <1>1, <2>1, ReplayStep
<1>4. Replay(log, n) \in Memories
  <2>1. n \in 0..Len(log)
    BY <1>1
  <2>. QED
    BY <2>1, ReplayStep
<1>. QED
  BY <1>1, <1>2, <1>3, <1>4, ReplayedShows DEF more

\* Lines that name the elements of a buffer, from v + 1 on.
ElementLines(lines, v, buf) ==
  /\ lines \in Seq(Lines) /\ v \in Nat
  /\ \A j \in 1..Len(lines) : lines[j].k = "element" /\ lines[j].buf = buf /\ lines[j].v = v + j

\* What a log shows with such lines at its end.
ElementsShow(log, lines, v, buf, more) ==
  /\ \A j \in 1..Len(lines) : EnvAt(more, v + j) = At(BufAt(log, buf), lines[j].i, None)
  /\ \A w : w \notin (v + 1)..(v + Len(lines)) => EnvAt(more, w) = EnvAt(log, w)
  /\ \A o : BufAt(more, o) = BufAt(log, o)

\* Names of elements are bound to the elements, and nothing else changes.
LEMMA ElementsShown ==
  ASSUME NEW log \in Seq(Lines), NEW lines, NEW v, NEW buf, ElementLines(lines, v, buf)
  PROVE  ElementsShow(log, lines, v, buf, log \o lines)
<1>. DEFINE more == log \o lines
            n == Len(log)
            k == Len(lines)
            m == Replay(log, n)
            M(j) == Replay(more, n + j)
            Shown(j) ==
              /\ \A h \in 1..j : EnvOf(M(j), v + h) = At(BufOf(m, buf), lines[h].i, None)
              /\ \A w : w \notin (v + 1)..(v + j) => EnvOf(M(j), w) = EnvOf(m, w)
              /\ \A o : BufOf(M(j), o) = BufOf(m, o)
            good == {j \in 0..k : Shown(j)}
<1>1. /\ lines \in Seq(Lines) /\ v \in Nat /\ n \in Nat /\ k \in Nat
      /\ \A j \in 1..k : lines[j].k = "element" /\ lines[j].buf = buf /\ lines[j].v = v + j
  BY DEF ElementLines
<1>2. /\ more \in Seq(Lines) /\ Len(more) = n + k
      /\ \A i \in 1..n : more[i] = log[i]
      /\ \A j \in 1..k : more[n + j] = lines[j]
  BY <1>1
<1>. HIDE DEF more, n, k
<1>3. M(0) = m
  <2>1. n \in 0..Len(log) /\ n <= Len(more) /\ n + 0 = n
    BY <1>1, <1>2 DEF n
  <2>. QED
    BY <1>2, <2>1, ReplaySame
<1>4. 0 \in good
  <2>1. 0 \in 0..k /\ 1..0 = {} /\ (v + 1)..(v + 0) = {}
    BY <1>1
  <2>. HIDE DEF M, m
  <2>. QED
    BY <1>3, <2>1
<1>5. ASSUME NEW j \in 1..k, j - 1 \in good PROVE j \in good
  <2>1. M(j - 1) \in Memories /\ M(j) = Replayed(M(j - 1), lines[j]) /\ lines[j] \in Lines
    <3>1. /\ n + j \in 0..Len(more) /\ n + (j - 1) \in 0..Len(more) /\ n + j # 0 /\ (n + j) - 1 = n + (j - 1)
          /\ more[n + j] = lines[j] /\ lines[j] \in Lines
      BY <1>1, <1>2 DEF k
    <3>. QED
      BY <3>1, <1>2, ReplayStep
  <2>2. LineShows(M(j - 1), lines[j], M(j))
    <3>. HIDE DEF M
    <3>. QED
      BY <2>1, ReplayedShows
  <2>3. Shown(j - 1)
    BY <1>5
  <2>. HIDE DEF M, m
  <2>4. lines[j].k = "element" /\ lines[j].buf = buf /\ lines[j].v = v + j
    BY <1>1
  <2>5. \A o : BufOf(M(j), o) = BufOf(m, o)
    BY <2>2, <2>3, <2>4 DEF LineShows
  <2>6. \A w : EnvOf(M(j), w) = IF w = v + j THEN At(BufOf(m, buf), lines[j].i, None) ELSE EnvOf(M(j - 1), w)
    BY <2>2, <2>3, <2>4 DEF LineShows
  <2>7. \A w : w \notin (v + 1)..(v + j) => w # v + j /\ w \notin (v + 1)..(v + (j - 1))
    BY <1>1
  <2>8. \A w : w \notin (v + 1)..(v + j) => EnvOf(M(j), w) = EnvOf(m, w)
    BY <2>3, <2>6, <2>7
  <2>9. ASSUME NEW h \in 1..j PROVE EnvOf(M(j), v + h) = At(BufOf(m, buf), lines[h].i, None)
    <3>1. CASE h = j
      BY <3>1, <2>6
    <3>2. CASE h # j
      <4>1. h \in 1..(j - 1) /\ v + h # v + j
        BY <3>2, <1>1
      <4>. QED
        BY <4>1, <2>3, <2>6
    <3>. QED
      BY <3>1, <3>2
  <2>. QED
    BY <2>5, <2>8, <2>9
<1>. HIDE DEF good
<1>6. k \in good
  BY <1>1, <1>4, <1>5, UpTo
<1>7. Shown(k)
  BY <1>6 DEF good
<1>8. M(k) = Replay(more, Len(more))
  BY <1>2
<1>. HIDE DEF M, m
<1>. QED
  BY <1>7, <1>8 DEF ElementsShow, EnvAt, BufAt, m, n, k, more

\* A call that has not returned, after which the log has only comments.
OpenAt(log, ix) ==
  /\ ix \in 1..Len(log)
  /\ log[ix].k = "call" /\ ~log[ix].done /\ log[ix].v = 0 /\ log[ix].ret = None /\ log[ix].fx = NoEffect
  /\ \A i \in 1..Len(log) : i > ix => log[i].k = "comment"

\* What the log shows when it has returned.
CloseShows(log, line, more) ==
  /\ \A v : EnvAt(more, v) = IF line.v # 0 /\ v = line.v THEN line.fx.result ELSE EnvAt(log, v)
  /\ \A o : BufAt(more, o) =
       IF line.out # None /\ o = <<"out", line.out>> THEN BufAt(log, o) \o line.fx.filled
       ELSE IF line.ret # None /\ o = <<"ret", line.ret>> THEN line.fx.vec
       ELSE BufAt(log, o)

\* Comments show nothing.
LEMMA CommentsShown ==
  ASSUME NEW log \in Seq(Lines), NEW ix \in 1..Len(log),
         \A i \in 1..Len(log) : i > ix => log[i].k = "comment"
  PROVE  Replay(log, Len(log)) = Replay(log, ix)
<1>. DEFINE n == Len(log)
            good == {i \in 0..n : i >= ix => Replay(log, i) = Replay(log, ix)}
<1>1. n \in Nat /\ ix \in 1..n
  OBVIOUS
<1>2. ASSUME NEW i \in 1..n PROVE Replay(log, i) = Replayed(Replay(log, i - 1), log[i])
  BY ReplayStep
<1>. HIDE DEF n
<1>3. 0 \in good
  BY <1>1
<1>4. ASSUME NEW i \in 1..n, i - 1 \in good PROVE i \in good
  <2>1. CASE i <= ix
    BY <2>1, <1>1
  <2>2. CASE i > ix
    <3>1. log[i].k = "comment" /\ Replay(log, i - 1) = Replay(log, ix)
      BY <2>2, <1>1, <1>4 DEF n
    <3>2. Replay(log, i) = Replay(log, i - 1)
      BY <3>1, <1>2 DEF Replayed
    <3>. QED
      BY <3>1, <3>2
  <2>. QED
    BY <1>1, <2>1, <2>2
<1>. HIDE DEF good
<1>5. n \in Nat /\ n \in 0..n /\ ix <= n
  BY <1>1
<1>6. \A i \in 0..n : i \in good
  BY <1>3, <1>4, <1>5, UpTo
<1>7. Replay(log, n) = Replay(log, ix)
  BY <1>5, <1>6 DEF good
<1>. QED
  BY <1>7 DEF n

\* A call that returns: its line takes the place of the open one.
LEMMA CloseShown ==
  ASSUME NEW log \in Seq(Lines), NEW ix, OpenAt(log, ix), NEW line \in Lines, line.k = "call",
         line.out = log[ix].out
  PROVE  CloseShows(log, line, [log EXCEPT ![ix] = line])
<1>. DEFINE more == [log EXCEPT ![ix] = line]
            n == Len(log)
            m == Replay(log, ix - 1)
            after == Replay(log, ix)
            closed == Replay(more, ix)
<1>1. /\ ix \in 1..n /\ n \in Nat
      /\ log[ix].k = "call" /\ log[ix].v = 0 /\ log[ix].ret = None /\ log[ix].fx = NoEffect
      /\ \A i \in 1..n : i > ix => log[i].k = "comment"
  BY DEF OpenAt
<1>2. /\ more \in Seq(Lines) /\ Len(more) = n /\ more[ix] = line
      /\ \A i \in 1..n : i # ix => more[i] = log[i]
  BY <1>1, ExceptSeq
<1>. HIDE DEF more, n
<1>3. ix \in 0..Len(log) /\ ix \in 1..Len(log) /\ ix \in 0..Len(more) /\ ix \in 1..Len(more) /\ ix # 0
      /\ ix - 1 \in 0..Len(log) /\ ix - 1 <= Len(more)
  BY <1>1, <1>2 DEF n
<1>4. Replay(more, ix - 1) = m
  <2>1. \A i \in 1..(ix - 1) : more[i] = log[i]
    BY <1>1, <1>2
  <2>. QED
    BY <1>2, <1>3, <2>1, ReplaySame
<1>5. m \in Memories /\ after = Replayed(m, log[ix]) /\ closed = Replayed(m, line) /\ log[ix] \in Lines
  <2>1. log[ix] \in Lines
    BY <1>3
  <2>. QED
    BY <1>2, <1>3, <1>4, <2>1, ReplayStep
<1>6. Replay(log, Len(log)) = after /\ Replay(more, Len(more)) = closed
  <2>1. \A i \in 1..Len(more) : i > ix => more[i].k = "comment"
    BY <1>1, <1>2
  <2>2. \A i \in 1..Len(log) : i > ix => log[i].k = "comment"
    BY <1>1 DEF n
  <2>. QED
    BY <1>2, <1>3, <2>1, <2>2, CommentsShown
<1>. HIDE DEF m, after, closed
<1>7. LineShows(m, log[ix], after) /\ LineShows(m, line, closed)
  BY <1>5, ReplayedShows
<1>8. /\ \A v : EnvOf(after, v) = EnvOf(m, v)
      /\ \A o : BufOf(after, o) = BufOf(m, o)
  <2>1. \A v : EnvOf(after, v) = EnvOf(m, v)
    BY <1>1, <1>7 DEF LineShows
  <2>2. ASSUME NEW o PROVE BufOf(after, o) = BufOf(m, o)
    <3>1. BufOf(m, o) \in Seq(PointerOrNull)
      <4>1. m.buf \in Partial({"out", "ret"} \X Nat, Seq(PointerOrNull)) /\ <<>> \in Seq(PointerOrNull)
        BY <1>5 DEF Memories
      <4>. QED
        BY <4>1, AtOf DEF BufOf
    <3>2. log[ix].fx.filled = <<>>
      BY <1>1 DEF NoEffect
    <3>3. BufOf(m, o) \o log[ix].fx.filled = BufOf(m, o)
      BY <3>1, <3>2, ConcatEmptySeq
    <3>. QED
      BY <3>3, <1>1, <1>7 DEF LineShows
  <2>. QED
    BY <2>1, <2>2
<1>9. /\ \A v : EnvOf(closed, v) = IF line.v # 0 /\ v = line.v THEN line.fx.result ELSE EnvOf(after, v)
      /\ \A o : BufOf(closed, o) =
           IF line.out # None /\ o = <<"out", line.out>> THEN BufOf(after, o) \o line.fx.filled
           ELSE IF line.ret # None /\ o = <<"ret", line.ret>> THEN line.fx.vec
           ELSE BufOf(after, o)
  BY <1>7, <1>8 DEF LineShows
<1>. QED
  BY <1>6, <1>9 DEF CloseShows, EnvAt, BufAt, more

-----------------------------------------------------------------------------
(* The names a log declares.                                               *)

\* A line mentions what is declared and declares what is not.
NamedLine(line, D, B, J) ==
  /\ UsedBy(line) \subseteq D \cup J
  /\ BuffersUsedBy(line) \subseteq B
  /\ DeclaredBy(line) \cap D = {}
  /\ BuffersDeclaredBy(line) \cap B = {}

\* Every line of a log does.
WellNamed(log, J) ==
  \A i \in 1..Len(log) : NamedLine(log[i], Declared(log, i - 1), BuffersDeclared(log, i - 1), J)

\* What is declared after all lines.
AllDeclared(log) == Declared(log, Len(log))
AllBuffers(log) == BuffersDeclared(log, Len(log))

\* The same lines declare the same.
LEMMA DeclaredSame ==
  ASSUME NEW log, NEW more, NEW n \in Nat, \A i \in 1..n : more[i] = log[i]
  PROVE  Declared(more, n) = Declared(log, n) /\ BuffersDeclared(more, n) = BuffersDeclared(log, n)
BY DEF Declared, BuffersDeclared

\* One line more declares what it declares.
LEMMA DeclaredNext ==
  ASSUME NEW log, NEW n \in Nat
  PROVE  /\ Declared(log, n + 1) = Declared(log, n) \cup DeclaredBy(log[n + 1])
         /\ BuffersDeclared(log, n + 1) = BuffersDeclared(log, n) \cup BuffersDeclaredBy(log[n + 1])
<1>1. 1..(n + 1) = (1..n) \cup {n + 1}
  OBVIOUS
<1>. HIDE <1>1
<1>2. \A x : x \in Declared(log, n + 1) <=> x \in Declared(log, n) \cup DeclaredBy(log[n + 1])
  BY <1>1 DEF Declared
<1>3. \A x : x \in BuffersDeclared(log, n + 1) <=> x \in BuffersDeclared(log, n) \cup BuffersDeclaredBy(log[n + 1])
  BY <1>1 DEF BuffersDeclared
<1>. QED
  BY <1>2, <1>3

\* Fewer lines declare less.
LEMMA DeclaredGrows ==
  ASSUME NEW log, NEW n \in Nat, NEW m \in 0..n
  PROVE  Declared(log, m) \subseteq Declared(log, n) /\ BuffersDeclared(log, m) \subseteq BuffersDeclared(log, n)
<1>1. 1..m \subseteq 1..n
  OBVIOUS
<1>. QED
  BY <1>1 DEF Declared, BuffersDeclared

\* A line that is named well at the end of a log.
LEMMA AppendNamed ==
  ASSUME NEW log \in Seq(Lines), NEW line \in Lines, NEW J, WellNamed(log, J),
         NamedLine(line, AllDeclared(log), AllBuffers(log), J)
  PROVE  /\ WellNamed(Append(log, line), J)
         /\ AllDeclared(Append(log, line)) = AllDeclared(log) \cup DeclaredBy(line)
         /\ AllBuffers(Append(log, line)) = AllBuffers(log) \cup BuffersDeclaredBy(line)
<1>. DEFINE more == Append(log, line)
            n == Len(log)
<1>1. Len(more) = n + 1 /\ more[n + 1] = line /\ n \in Nat /\ \A i \in 1..n : more[i] = log[i]
  OBVIOUS
<1>. HIDE DEF more, n
<1>2. Declared(more, n) = AllDeclared(log) /\ BuffersDeclared(more, n) = AllBuffers(log)
  BY <1>1, DeclaredSame DEF AllDeclared, AllBuffers, n
<1>3. /\ AllDeclared(more) = AllDeclared(log) \cup DeclaredBy(line)
      /\ AllBuffers(more) = AllBuffers(log) \cup BuffersDeclaredBy(line)
  BY <1>1, <1>2, DeclaredNext DEF AllDeclared, AllBuffers
<1>4. ASSUME NEW i \in 1..(n + 1)
      PROVE  NamedLine(more[i], Declared(more, i - 1), BuffersDeclared(more, i - 1), J)
  <2>1. CASE i = n + 1
    <3>1. more[i] = line /\ i - 1 = n
      BY <2>1, <1>1
    <3>. QED
      BY <3>1, <1>2
  <2>2. CASE i # n + 1
    <3>1. i \in 1..Len(log) /\ more[i] = log[i] /\ i - 1 \in Nat /\ \A j \in 1..(i - 1) : more[j] = log[j]
      BY <2>2, <1>1 DEF n
    <3>2. Declared(more, i - 1) = Declared(log, i - 1) /\ BuffersDeclared(more, i - 1) = BuffersDeclared(log, i - 1)
      BY <3>1, DeclaredSame
    <3>. QED
      BY <3>1, <3>2 DEF WellNamed
  <2>. QED
    BY <2>1, <2>2
<1>. QED
  BY <1>1, <1>3, <1>4 DEF WellNamed, more

\* Names of the elements of a buffer.
LEMMA ElementsNamed ==
  ASSUME NEW log \in Seq(Lines), NEW lines, NEW v, NEW buf, NEW J, ElementLines(lines, v, buf), WellNamed(log, J),
         lines = <<>> \/ buf \in AllBuffers(log),
         \A w \in AllDeclared(log) : w \notin (v + 1)..(v + Len(lines))
  PROVE  /\ WellNamed(log \o lines, J)
         /\ AllDeclared(log \o lines) = AllDeclared(log) \cup (v + 1)..(v + Len(lines))
         /\ AllBuffers(log \o lines) = AllBuffers(log)
<1>. DEFINE more == log \o lines
            n == Len(log)
            k == Len(lines)
<1>1. /\ lines \in Seq(Lines) /\ v \in Nat /\ n \in Nat /\ k \in Nat
      /\ \A j \in 1..k : lines[j].k = "element" /\ lines[j].buf = buf /\ lines[j].v = v + j
  BY DEF ElementLines
<1>2. /\ Len(more) = n + k
      /\ \A i \in 1..n : more[i] = log[i]
      /\ \A j \in 1..k : more[n + j] = lines[j]
      /\ lines = <<>> => k = 0
  BY <1>1
<1>. HIDE DEF more, n, k
<1>3. ASSUME NEW j \in 1..k
      PROVE  /\ DeclaredBy(lines[j]) = {v + j} /\ BuffersDeclaredBy(lines[j]) = {}
             /\ UsedBy(lines[j]) = {} /\ BuffersUsedBy(lines[j]) = {buf}
  <2>1. lines[j].k = "element" /\ lines[j].buf = buf /\ lines[j].v = v + j /\ v + j # 0
    BY <1>1
  <2>. QED
    BY <2>1 DEF DeclaredBy, BuffersDeclaredBy, UsedBy, BuffersUsedBy
<1>. DEFINE Right(j) == /\ Declared(more, n + j) = AllDeclared(log) \cup (v + 1)..(v + j)
                        /\ BuffersDeclared(more, n + j) = AllBuffers(log)
            good == {j \in 0..k : Right(j)}
<1>4. 0 \in good
  <2>1. Declared(more, n) = AllDeclared(log) /\ BuffersDeclared(more, n) = AllBuffers(log)
    BY <1>1, <1>2, DeclaredSame DEF AllDeclared, AllBuffers, n
  <2>2. n + 0 = n /\ (v + 1)..(v + 0) = {} /\ 0 \in 0..k
    BY <1>1
  <2>. QED
    BY <2>1, <2>2
<1>5. ASSUME NEW j \in 1..k, j - 1 \in good PROVE j \in good
  <2>1. Right(j - 1)
    BY <1>5
  <2>. DEFINE p == n + (j - 1)
  <2>2. p \in Nat /\ p + 1 = n + j /\ more[n + j] = lines[j]
    BY <1>1, <1>2
  <2>3. (v + 1)..(v + j) = ((v + 1)..(v + (j - 1))) \cup {v + j}
    BY <1>1
  <2>4. Declared(more, p) = AllDeclared(log) \cup (v + 1)..(v + (j - 1)) /\ BuffersDeclared(more, p) = AllBuffers(log)
    BY <2>1
  <2>. HIDE DEF p
  <2>5. /\ Declared(more, n + j) = Declared(more, p) \cup DeclaredBy(lines[j])
        /\ BuffersDeclared(more, n + j) = BuffersDeclared(more, p) \cup BuffersDeclaredBy(lines[j])
    BY <2>2, DeclaredNext
  <2>6. Right(j)
    BY <2>3, <2>4, <2>5, <1>3
  <2>. QED
    BY <2>6
<1>. HIDE DEF good
<1>6. \A j \in 0..k : j \in good
  BY <1>1, <1>4, <1>5, UpTo
<1>7. \A j \in 0..k : Right(j)
  BY <1>6 DEF good
<1>8. /\ AllDeclared(more) = AllDeclared(log) \cup (v + 1)..(v + k)
      /\ AllBuffers(more) = AllBuffers(log)
  <2>1. k \in 0..k
    BY <1>1
  <2>. QED
    BY <2>1, <1>2, <1>7 DEF AllDeclared, AllBuffers
<1>9. ASSUME NEW i \in 1..(n + k)
      PROVE  NamedLine(more[i], Declared(more, i - 1), BuffersDeclared(more, i - 1), J)
  <2>1. CASE i > n
    <3>. DEFINE j == i - n
    <3>1. j \in 1..k /\ j - 1 \in 0..k /\ i = n + j /\ n + (j - 1) = i - 1 /\ more[i] = lines[j]
      <4>1. j \in 1..k /\ i = n + j
        BY <2>1, <1>1
      <4>. QED
        BY <4>1, <1>1, <1>2
    <3>. HIDE DEF j
    <3>2. Declared(more, i - 1) = AllDeclared(log) \cup (v + 1)..(v + (j - 1)) /\ BuffersDeclared(more, i - 1) = AllBuffers(log)
      BY <3>1, <1>7
    <3>3. v + j \notin AllDeclared(log) /\ v + j \notin (v + 1)..(v + (j - 1))
      <4>1. v + j \in (v + 1)..(v + k) /\ v + j \notin (v + 1)..(v + (j - 1))
        BY <3>1, <1>1
      <4>. QED
        BY <4>1 DEF k
    <3>4. buf \in AllBuffers(log)
      BY <3>1, <1>1, <1>2
    <3>. QED
      BY <3>1, <3>2, <3>3, <3>4, <1>3 DEF NamedLine
  <2>2. CASE ~ (i > n)
    <3>1. i \in 1..Len(log) /\ more[i] = log[i] /\ i - 1 \in Nat /\ \A j \in 1..(i - 1) : more[j] = log[j]
      BY <2>2, <1>1, <1>2 DEF n
    <3>2. Declared(more, i - 1) = Declared(log, i - 1) /\ BuffersDeclared(more, i - 1) = BuffersDeclared(log, i - 1)
      BY <3>1, DeclaredSame
    <3>. QED
      BY <3>1, <3>2 DEF WellNamed
  <2>. QED
    BY <2>1, <2>2
<1>. QED
  BY <1>2, <1>8, <1>9 DEF WellNamed, more, k

\* A call that returns: the names it declares are new.
LEMMA CloseNamed ==
  ASSUME NEW log \in Seq(Lines), NEW ix, NEW J, OpenAt(log, ix), WellNamed(log, J),
         NEW line \in Lines, line.k = "call", line.out = log[ix].out, line.uses = log[ix].uses,
         line.v \notin AllDeclared(log), line.ret = None \/ <<"ret", line.ret>> \notin AllBuffers(log)
  PROVE  /\ WellNamed([log EXCEPT ![ix] = line], J)
         /\ AllDeclared([log EXCEPT ![ix] = line]) = AllDeclared(log) \cup DeclaredBy(line)
         /\ AllBuffers([log EXCEPT ![ix] = line]) = AllBuffers(log) \cup BuffersDeclaredBy(line)
<1>. DEFINE more == [log EXCEPT ![ix] = line]
            n == Len(log)
<1>1. /\ ix \in 1..n /\ n \in Nat
      /\ log[ix].k = "call" /\ log[ix].v = 0 /\ log[ix].ret = None
      /\ \A i \in 1..n : i > ix => log[i].k = "comment"
  BY DEF OpenAt
<1>2. /\ Len(more) = n /\ more[ix] = line
      /\ \A i \in 1..n : i # ix => more[i] = log[i]
  BY <1>1, ExceptSeq
<1>. HIDE DEF more
<1>3. DeclaredBy(log[ix]) = {} /\ BuffersDeclaredBy(log[ix]) = {}
  BY <1>1 DEF DeclaredBy, BuffersDeclaredBy
<1>4. /\ UsedBy(line) = UsedBy(log[ix]) /\ BuffersUsedBy(line) = BuffersUsedBy(log[ix])
      /\ DeclaredBy(line) = {line.v} \ {0}
      /\ BuffersDeclaredBy(line) = IF line.ret # None THEN {<<"ret", line.ret>>} ELSE {}
  BY <1>1 DEF UsedBy, BuffersUsedBy, DeclaredBy, BuffersDeclaredBy
<1>5. ASSUME NEW l, l \in ix..n
      PROVE  /\ Declared(more, l) = Declared(log, l) \cup DeclaredBy(line)
             /\ BuffersDeclared(more, l) = BuffersDeclared(log, l) \cup BuffersDeclaredBy(line)
  <2>1. ix \in 1..l /\ \A j \in 1..l : j \in 1..n /\ (j # ix => more[j] = log[j])
    BY <1>1, <1>2, <1>5
  <2>2. \A x : x \in Declared(more, l) <=> x \in Declared(log, l) \cup DeclaredBy(line)
    BY <2>1, <1>2, <1>3 DEF Declared
  <2>3. \A x : x \in BuffersDeclared(more, l) <=> x \in BuffersDeclared(log, l) \cup BuffersDeclaredBy(line)
    BY <2>1, <1>2, <1>3 DEF BuffersDeclared
  <2>. QED
    BY <2>2, <2>3
<1>6. /\ AllDeclared(more) = AllDeclared(log) \cup DeclaredBy(line)
      /\ AllBuffers(more) = AllBuffers(log) \cup BuffersDeclaredBy(line)
  BY <1>1, <1>2, <1>5 DEF AllDeclared, AllBuffers
<1>7. ASSUME NEW i \in 1..n
      PROVE  NamedLine(more[i], Declared(more, i - 1), BuffersDeclared(more, i - 1), J)
  <2>0. NamedLine(log[i], Declared(log, i - 1), BuffersDeclared(log, i - 1), J)
    BY DEF WellNamed
  <2>1. CASE i > ix
    <3>1. more[i] = log[i] /\ log[i].k = "comment"
      BY <2>1, <1>1, <1>2
    <3>2. UsedBy(log[i]) = {} /\ BuffersUsedBy(log[i]) = {} /\ DeclaredBy(log[i]) = {} /\ BuffersDeclaredBy(log[i]) = {}
      BY <3>1 DEF UsedBy, BuffersUsedBy, DeclaredBy, BuffersDeclaredBy
    <3>. QED
      BY <3>1, <3>2 DEF NamedLine
  <2>2. CASE ~ (i > ix)
    <3>1. i - 1 \in Nat /\ i - 1 \in 0..n /\ \A j \in 1..(i - 1) : more[j] = log[j]
      BY <2>2, <1>1, <1>2
    <3>2. Declared(more, i - 1) = Declared(log, i - 1) /\ BuffersDeclared(more, i - 1) = BuffersDeclared(log, i - 1)
      BY <3>1, DeclaredSame
    <3>3. Declared(log, i - 1) \subseteq AllDeclared(log) /\ BuffersDeclared(log, i - 1) \subseteq AllBuffers(log)
      BY <3>1, <1>1, DeclaredGrows DEF AllDeclared, AllBuffers
    <3>4. CASE i = ix
      <4>1. more[i] = line /\ DeclaredBy(line) \cap AllDeclared(log) = {} /\ BuffersDeclaredBy(line) \cap AllBuffers(log) = {}
        BY <3>4, <1>2, <1>4
      <4>. QED
        BY <4>1, <3>2, <3>3, <3>4, <2>0, <1>4 DEF NamedLine
    <3>5. CASE i # ix
      BY <3>5, <3>2, <2>0, <1>2
    <3>. QED
      BY <3>4, <3>5
  <2>. QED
    BY <2>1, <2>2
<1>. QED
  BY <1>2, <1>6, <1>7 DEF WellNamed, more

\* More names come from JitCalls.
LEMMA MoreJitNames ==
  ASSUME NEW log, NEW J, NEW K, J \subseteq K, WellNamed(log, J)
  PROVE  WellNamed(log, K)
BY DEF WellNamed, NamedLine

\* The names read out of the buffers in t.
StaleIn(log, t) ==
  UNION {DeclaredBy(log[i]) : i \in {j \in 1..Len(log) : log[j].k = "element" /\ log[j].buf \in {<<"out", b>> : b \in t}}}

\* They stay while the elements' lines stay.
LEMMA StaleGrows ==
  ASSUME NEW log, NEW more, NEW t, NEW u, t \subseteq u,
         Len(log) \in Nat, Len(more) \in Nat, Len(log) <= Len(more),
         \A i \in 1..Len(log) : log[i].k = "element" => more[i] = log[i]
  PROVE  StaleIn(log, t) \subseteq StaleIn(more, u)
<1>1. 1..Len(log) \subseteq 1..Len(more)
  OBVIOUS
<1>. QED
  BY <1>1 DEF StaleIn

-----------------------------------------------------------------------------
(* The names that registering pointers gives.                              *)

\* The names given out are numbered.
HandlesFit(T) ==
  /\ T \in TraceInfos
  /\ \A p \in Pointers : T.handles[p] \in 0..T.varCount

\* What registering elements does: new names, each with a line that reads the
\* element it is the name of.
Registered(T, ps, buf, z) ==
  /\ HandlesFit(z.TI)
  /\ z.TI = [T EXCEPT !.handles = z.TI.handles, !.varCount = z.TI.varCount]
  /\ ElementLines(z.lines, T.varCount, buf)
  /\ z.TI.varCount = T.varCount + Len(z.lines)
  /\ \A p \in Pointers : T.handles[p] # 0 => z.TI.handles[p] = T.handles[p]
  /\ \A p \in Pointers : T.handles[p] = 0 /\ z.TI.handles[p] # 0 =>
       \E j \in 1..Len(z.lines) :
         z.TI.handles[p] = T.varCount + j /\ z.lines[j].i \in 1..Len(ps) /\ ps[z.lines[j].i] = p

\* The fields of a TraceInfo.
LEMMA InfoFields ==
  ASSUME NEW T \in TraceInfos
  PROVE  /\ T.handles \in [Pointers -> Nat] /\ T.varCount \in Nat /\ T.retCount \in Nat /\ T.outCount \in Nat
         /\ T.outAliases \in [Containers -> Nat \cup {None}]
         /\ T.log \in Seq(Lines) /\ T.timerStack \in Seq(Functions) /\ T.running \in SUBSET Functions
         /\ T.dumping \in BOOLEAN /\ T.inRegion \in BOOLEAN /\ T.regionStart \in Nat
         /\ T.onStdErr \in BOOLEAN /\ T.path \in BOOLEAN
BY DEF TraceInfos

\* A TraceInfo is its fields.
LEMMA InfoIs ==
  ASSUME NEW T \in TraceInfos
  PROVE  T = [handles |-> T.handles, varCount |-> T.varCount, retCount |-> T.retCount, outCount |-> T.outCount,
              outAliases |-> T.outAliases, log |-> T.log, timerStack |-> T.timerStack, running |-> T.running,
              dumping |-> T.dumping, inRegion |-> T.inRegion, regionStart |-> T.regionStart,
              onStdErr |-> T.onStdErr, path |-> T.path]
BY DEF TraceInfos

\* What a name for a pointer changes.
HandleMade(T, p, U) ==
  /\ HandlesFit(U)
  /\ U = [T EXCEPT !.handles = U.handles, !.varCount = U.varCount]
  /\ isNew(T, p) =>
       /\ p \in Pointers /\ T.handles[p] = 0
       /\ U.varCount = T.varCount + 1
       /\ \A q \in Pointers : U.handles[q] = IF q = p THEN T.varCount + 1 ELSE T.handles[q]
  /\ ~isNew(T, p) => U = T

\* A name for a pointer.
LEMMA HandleGiven ==
  ASSUME NEW T, HandlesFit(T), NEW p \in PointerOrNull
  PROVE  HandleMade(T, p, getOrRegisterHandle(T, p))
<1>1. /\ T \in TraceInfos /\ T.handles \in [Pointers -> Nat] /\ T.varCount \in Nat
      /\ \A q \in Pointers : T.handles[q] \in 0..T.varCount
  BY InfoFields DEF HandlesFit
<1>2. CASE isNew(T, p)
  <2>1. p \in Pointers /\ T.handles[p] = 0
    BY <1>2 DEF isNew, lookupHandle, PointerOrNull
  <2>. DEFINE H == [T.handles EXCEPT ![p] = T.varCount + 1]
              U == [T EXCEPT !.varCount = T.varCount + 1, !.handles = H]
  <2>2. getOrRegisterHandle(T, p) = U
    BY <1>2 DEF getOrRegisterHandle
  <2>3. H \in [Pointers -> Nat] /\ \A q \in Pointers : H[q] = IF q = p THEN T.varCount + 1 ELSE T.handles[q]
    BY <1>1, <2>1
  <2>. HIDE DEF H
  <2>4. U \in TraceInfos /\ U.handles = H /\ U.varCount = T.varCount + 1
    <3>. DEFINE n == T.varCount + 1
                W == [T EXCEPT !.varCount = n]
    <3>1. n \in Nat
      BY <1>1
    <3>. HIDE DEF n
    <3>2. W \in TraceInfos /\ W.varCount = n
      BY <1>1, <3>1 DEF TraceInfos
    <3>3. U = [W EXCEPT !.handles = H]
      BY DEF n
    <3>. HIDE DEF W, U
    <3>. QED
      BY <3>2, <3>3, <2>3 DEF TraceInfos, n
  <2>5. U = [T EXCEPT !.handles = U.handles, !.varCount = U.varCount]
    <3>1. U.handles = H /\ U.varCount = T.varCount + 1
      BY <2>4
    <3>. QED
      BY <3>1, <1>1 DEF TraceInfos
  <2>. HIDE DEF U
  <2>6. \A q \in Pointers : U.handles[q] \in 0..U.varCount
    BY <1>1, <2>1, <2>3, <2>4
  <2>. QED
    BY <1>2, <2>1, <2>2, <2>3, <2>4, <2>5, <2>6 DEF HandlesFit, HandleMade
<1>3. CASE ~isNew(T, p)
  <2>1. getOrRegisterHandle(T, p) = T
    BY <1>3 DEF getOrRegisterHandle
  <2>2. T = [T EXCEPT !.handles = T.handles, !.varCount = T.varCount]
    BY <1>1 DEF TraceInfos
  <2>. QED
    BY <2>1, <2>2, <1>3 DEF HandleMade
<1>. QED
  BY <1>2, <1>3

\* An element more.
LEMMA ElementRegistered ==
  ASSUME NEW T, HandlesFit(T), NEW ps \in Seq(PointerOrNull), NEW buf \in {"out", "ret"} \X Nat,
         NEW z, Registered(T, ps, buf, z), NEW i \in 1..Len(ps)
  PROVE  Registered(T, ps, buf, RegisterElement(z, ps[i], buf, i))
<1>. DEFINE U == z.TI
            p == ps[i]
            V == getOrRegisterHandle(U, p)
            n == Len(z.lines)
            line == Element(U.varCount + 1, buf, i)
            more == Append(z.lines, line)
<1>1. /\ HandlesFit(U)
      /\ U = [T EXCEPT !.handles = U.handles, !.varCount = U.varCount]
      /\ U.varCount = T.varCount + n
      /\ \A q \in Pointers : T.handles[q] # 0 => U.handles[q] = T.handles[q]
      /\ \A q \in Pointers : T.handles[q] = 0 /\ U.handles[q] # 0 =>
           \E j \in 1..n : U.handles[q] = T.varCount + j /\ z.lines[j].i \in 1..Len(ps) /\ ps[z.lines[j].i] = q
  BY DEF Registered
<1>2. /\ z.lines \in Seq(Lines) /\ T.varCount \in Nat /\ n \in Nat
      /\ \A j \in 1..n : z.lines[j].k = "element" /\ z.lines[j].buf = buf /\ z.lines[j].v = T.varCount + j
  BY DEF Registered, ElementLines
<1>3. p \in PointerOrNull /\ i \in Nat
  OBVIOUS
<1>4. CASE ~isNew(U, p)
  <2>1. RegisterElement(z, p, buf, i) = z
    BY <1>4 DEF RegisterElement
  <2>. QED
    BY <2>1
<1>5. CASE isNew(U, p)
  <2>. DEFINE y == RegisterElement(z, p, buf, i)
  <2>1. y = [TI |-> V, lines |-> more]
    BY <1>5 DEF RegisterElement
  <2>2. y.TI = V /\ y.lines = more
    BY <2>1
  <2>3. line \in Lines /\ line.k = "element" /\ line.buf = buf /\ line.v = T.varCount + n + 1 /\ line.i = i
    BY <1>1, <1>2, <1>3 DEF Element, Lines
  <2>. HIDE DEF U, p, V, line
  <2>4. /\ more \in Seq(Lines) /\ Len(more) = n + 1 /\ more[n + 1] = line
        /\ \A j \in 1..n : more[j] = z.lines[j]
    BY <1>2, <2>3
  <2>5. /\ HandlesFit(V)
        /\ V = [U EXCEPT !.handles = V.handles, !.varCount = V.varCount]
        /\ p \in Pointers /\ U.handles[p] = 0
        /\ V.varCount = U.varCount + 1
        /\ \A q \in Pointers : V.handles[q] = IF q = p THEN U.varCount + 1 ELSE U.handles[q]
    <3>1. HandleMade(U, p, V)
      BY <1>1, <1>3, HandleGiven DEF V
    <3>. QED
      BY <3>1, <1>5 DEF HandleMade
  <2>. HIDE DEF y, more, n
  <2>6. V = [T EXCEPT !.handles = V.handles, !.varCount = V.varCount]
    <3>1. T \in TraceInfos /\ U \in TraceInfos /\ V \in TraceInfos
      BY <1>1, <2>5 DEF HandlesFit
    <3>. QED
      BY <1>1, <2>5, <3>1 DEF TraceInfos
  <2>7. ElementLines(more, T.varCount, buf)
    <3>1. ASSUME NEW j \in 1..(n + 1)
          PROVE  more[j].k = "element" /\ more[j].buf = buf /\ more[j].v = T.varCount + j
      <4>1. CASE j = n + 1
        BY <4>1, <1>2, <2>3, <2>4
      <4>2. CASE j # n + 1
        <5>1. j \in 1..n
          BY <4>2, <1>2
        <5>. QED
          BY <5>1, <1>2, <2>4
      <4>. QED
        BY <4>1, <4>2
    <3>. QED
      BY <1>2, <2>4, <3>1 DEF ElementLines
  <2>8. V.varCount = T.varCount + Len(more)
    BY <1>1, <1>2, <2>4, <2>5
  <2>9. \A q \in Pointers : T.handles[q] # 0 => V.handles[q] = T.handles[q]
    BY <1>1, <2>5
  <2>10. ASSUME NEW q \in Pointers, T.handles[q] = 0, V.handles[q] # 0
         PROVE  \E j \in 1..(n + 1) : /\ V.handles[q] = T.varCount + j
                                      /\ more[j].i \in 1..Len(ps) /\ ps[more[j].i] = q
    <3>1. CASE q = p
      <4>1. n + 1 \in 1..(n + 1) /\ V.handles[q] = T.varCount + (n + 1)
        <5>1. V.handles[q] = U.varCount + 1 /\ U.varCount = T.varCount + n /\ n \in Nat /\ T.varCount \in Nat
          BY <3>1, <2>5, <1>1, <1>2
        <5>. QED
          BY <5>1
      <4>2. more[n + 1].i \in 1..Len(ps) /\ ps[more[n + 1].i] = q
        BY <2>3, <2>4, <3>1 DEF p
      <4>. QED
        BY <4>1, <4>2
    <3>2. CASE q # p
      <4>1. PICK j \in 1..n : U.handles[q] = T.varCount + j /\ z.lines[j].i \in 1..Len(ps) /\ ps[z.lines[j].i] = q
        BY <2>10, <3>2, <2>5, <1>1
      <4>2. j \in 1..(n + 1) /\ V.handles[q] = T.varCount + j
        BY <4>1, <3>2, <2>5, <1>2
      <4>. QED
        BY <4>1, <4>2, <2>4
    <3>. QED
      BY <3>1, <3>2
  <2>11. Registered(T, ps, buf, y)
    BY <2>2, <2>4, <2>5, <2>6, <2>7, <2>8, <2>9, <2>10 DEF Registered
  <2>. QED
    BY <2>11 DEF y, p
<1>. QED
  BY <1>4, <1>5

\* All elements.
LEMMA HandlesRegistered ==
  ASSUME NEW T, HandlesFit(T), NEW ps \in Seq(PointerOrNull), NEW buf, ps = <<>> \/ buf \in {"out", "ret"} \X Nat
  PROVE  /\ Registered(T, ps, buf, RegisterHandles(T, ps, buf))
         /\ ps = <<>> => RegisterHandles(T, ps, buf) = [TI |-> T, lines |-> <<>>]
<1>. DEFINE n == Len(ps)
            start == [TI |-> T, lines |-> <<>>]
            S == {z \in [TI : TraceInfos, lines : Seq(Lines)] : Registered(T, ps, buf, z)}
            step == [w \in (1..n) \X S |-> RegisterElement(w[2], ps[w[1]], buf, w[1])]
<1>1. n \in Nat /\ (ps = <<>> => n = 0)
  OBVIOUS
<1>2. start \in S
  <2>1. T \in TraceInfos /\ T.varCount \in Nat
    BY InfoFields DEF HandlesFit
  <2>2. T = [T EXCEPT !.handles = T.handles, !.varCount = T.varCount]
    BY <2>1 DEF TraceInfos
  <2>3. ElementLines(<<>>, T.varCount, buf)
    BY <2>1 DEF ElementLines
  <2>4. start.TI = T /\ start.lines = <<>> /\ start \in [TI : TraceInfos, lines : Seq(Lines)]
    BY <2>1
  <2>. HIDE DEF start
  <2>5. Registered(T, ps, buf, start)
    BY <2>1, <2>2, <2>3, <2>4 DEF Registered
  <2>. QED
    BY <2>4, <2>5
<1>3. ASSUME NEW z \in S, NEW i \in 1..n PROVE RegisterElement(z, ps[i], buf, i) \in S
  <2>. DEFINE y == RegisterElement(z, ps[i], buf, i)
  <2>1. buf \in {"out", "ret"} \X Nat
    BY <1>1
  <2>2. Registered(T, ps, buf, y)
    BY <2>1, ElementRegistered
  <2>3. y.TI \in TraceInfos /\ y.lines \in Seq(Lines)
    BY <2>2 DEF Registered, HandlesFit, ElementLines
  <2>4. y = [TI |-> y.TI, lines |-> y.lines]
    BY DEF RegisterElement
  <2>. HIDE DEF y
  <2>5. y \in [TI : TraceInfos, lines : Seq(Lines)]
    BY <2>3, <2>4
  <2>. QED
    BY <2>2, <2>5 DEF y
<1>. HIDE DEF S, n
<1>4. step \in [(1..n) \X S -> S]
  BY <1>3
<1>. HIDE DEF start
<1>5. PICK f \in [0..n -> S] : Loop(n, start, step, f)
  <2>. HIDE DEF step
  <2>. QED
    BY <1>1, <1>2, <1>4, LoopRuns
<1>6. f[0] = start /\ \A i \in 1..n : f[i] = RegisterElement(f[i - 1], ps[i], buf, i)
  <2>1. f[0] = start
    <3>. HIDE DEF step
    <3>. QED
      BY <1>1, <1>5 DEF Loop
  <2>2. ASSUME NEW i \in 1..n PROVE f[i] = RegisterElement(f[i - 1], ps[i], buf, i)
    <3>1. f[i] = step[<<i, f[i - 1]>>]
      <4>. HIDE DEF step
      <4>. QED
        BY <1>1, <1>5 DEF Loop
    <3>2. f[i - 1] \in S
      BY <1>1
    <3>. QED
      BY <3>1, <3>2
  <2>. QED
    BY <2>1, <2>2
<1>. DEFINE turns(h) == [i \in 0..Len(ps) |->
                           IF i = 0 THEN [TI |-> T, lines |-> <<>>] ELSE RegisterElement(h[i - 1], ps[i], buf, i)]
            g == CHOOSE h : h = [i \in 0..Len(ps) |->
                                   IF i = 0 THEN [TI |-> T, lines |-> <<>>]
                                   ELSE RegisterElement(h[i - 1], ps[i], buf, i)]
<1>7. RegisterHandles(T, ps, buf) = g[Len(ps)]
  BY DEF RegisterHandles
<1>8. f = turns(f)
  <2>1. \A i \in 0..n : f[i] = IF i = 0 THEN start ELSE RegisterElement(f[i - 1], ps[i], buf, i)
    BY <1>1, <1>6
  <2>2. f = [i \in 0..n |-> IF i = 0 THEN start ELSE RegisterElement(f[i - 1], ps[i], buf, i)]
    BY <2>1
  <2>. QED
    BY <2>2 DEF start, n
<1>9. g = turns(g)
  BY <1>8
<1>. HIDE DEF g
<1>10. g[0] = start /\ \A i \in 1..n : g[i] = RegisterElement(g[i - 1], ps[i], buf, i)
  <2>1. g = [i \in 0..n |-> IF i = 0 THEN start ELSE RegisterElement(g[i - 1], ps[i], buf, i)]
    BY <1>9 DEF start, n
  <2>2. \A i \in 0..n : g[i] = IF i = 0 THEN start ELSE RegisterElement(g[i - 1], ps[i], buf, i)
    BY <2>1
  <2>3. g[0] = start
    BY <2>2, <1>1
  <2>4. \A i \in 1..n : g[i] = RegisterElement(g[i - 1], ps[i], buf, i)
    BY <2>2, <1>1
  <2>. QED
    BY <2>3, <2>4
<1>. HIDE DEF turns, step
<1>. DEFINE same == {i \in 0..n : g[i] = f[i]}
<1>11. 0 \in same
  BY <1>1, <1>6, <1>10
<1>12. ASSUME NEW i \in 1..n, i - 1 \in same PROVE i \in same
  <2>1. /\ g[i] = RegisterElement(g[i - 1], ps[i], buf, i) /\ f[i] = RegisterElement(f[i - 1], ps[i], buf, i)
        /\ g[i - 1] = f[i - 1]
    BY <1>12, <1>6, <1>10
  <2>. QED
    BY <2>1
<1>. HIDE DEF same
<1>13. \A i \in 0..n : i \in same
  BY <1>1, <1>11, <1>12, UpTo
<1>14. g[n] = f[n] /\ f[n] \in S
  BY <1>1, <1>13 DEF same
<1>15. RegisterHandles(T, ps, buf) = f[n]
  BY <1>7, <1>14 DEF n
<1>16. ps = <<>> => f[n] = start
  BY <1>1, <1>6
<1>. QED
  BY <1>14, <1>15, <1>16 DEF S, start

-----------------------------------------------------------------------------
(* Timers, and what the tracer's own calls change.                         *)

\* The timer that runs is the innermost call's.
TimerFits(T) == T.running = IF T.timerStack = <<>> THEN {} ELSE {Last(T.timerStack)}

\* A call more, and the call that returns.
LEMMA FrontOfAppend ==
  ASSUME NEW S, NEW s \in Seq(S), NEW x \in S
  PROVE  Append(s, x) # <<>> /\ Last(Append(s, x)) = x /\ Front(Append(s, x)) = s
<1>1. Append(s, x) \in Seq(S) /\ Len(Append(s, x)) = Len(s) + 1 /\ Append(s, x) # <<>>
  BY AppendProperties
<1>2. Last(Append(s, x)) = x
  BY <1>1 DEF Last
<1>3. Front(Append(s, x)) = s
  BY <1>1 DEF Front
<1>. QED
  BY <1>1, <1>2, <1>3

\* A timer that is started and stopped leaves no trace.
LEMMA PushPop ==
  ASSUME NEW T \in TraceInfos, TimerFits(T), NEW fn \in Functions
  PROVE  popTimer(pushTimer(T, fn)) = T
<1>. DEFINE s == T.timerStack
            P == pushTimer(T, fn)
            R == (T.running \ (IF s = <<>> THEN {} ELSE {Last(s)})) \cup {fn}
<1>1. s \in Seq(Functions)
  BY InfoFields
<1>2. P = [T EXCEPT !.timerStack = Append(s, fn), !.running = R]
  BY DEF pushTimer
<1>. HIDE DEF P
<1>3. P.timerStack = Append(s, fn) /\ P.running = R
  BY <1>2 DEF TraceInfos
<1>4. Append(s, fn) # <<>> /\ Last(Append(s, fn)) = fn /\ Front(Append(s, fn)) = s
  BY <1>1, FrontOfAppend
<1>5. (R \ {fn}) \cup (IF s = <<>> THEN {} ELSE {Last(s)}) = T.running
  BY DEF TimerFits
<1>6. popTimer(P) = [P EXCEPT !.timerStack = s, !.running = T.running]
  BY <1>3, <1>4, <1>5 DEF popTimer
<1>. HIDE DEF R
<1>7. [P EXCEPT !.timerStack = s, !.running = T.running] = T
  BY <1>2 DEF TraceInfos
<1>. QED
  BY <1>6, <1>7 DEF P

\* Under DumpScope a call of the tracer's own changes nothing.
LEMMA OwnCallChanges ==
  ASSUME NEW T, HandlesFit(T), T.dumping, TimerFits(T), NEW fn \in Functions
  PROVE  OwnCall(T, fn) = T
<1>. DEFINE r == TraceData(T, fn, None, None, 0)
            P == EnterRegion(T, r)
<1>0. T \in TraceInfos
  BY DEF HandlesFit
<1>1. r.fn = fn /\ r.first = FALSE /\ r.nested \in BOOLEAN
  BY DEF TraceData
<1>. HIDE DEF r
<1>2. P = pushTimer(T, fn)
  BY <1>1 DEF EnterRegion, appendToLog
<1>3. popTimer(P) = T
  BY <1>0, <1>2, PushPop
<1>4. P.dumping
  BY <1>0, <1>2 DEF pushTimer, TraceInfos
<1>. HIDE DEF P
<1>5. OwnCall(T, fn) = LeaveRegion(P, r, FALSE, NoEffect, <<>>)
  BY DEF OwnCall, P, r
<1>6. NoEffect.vec = <<>> /\ NoEffect.result = None
  BY DEF NoEffect
<1>. DEFINE V == RegisterHandles(T, NoEffect.vec, <<"ret", None>>)
            O == RegisterHandles(T, <<>>, <<"out", r.out>>)
<1>7. V.TI = T /\ O.TI = T
  <2>1. <<>> \in Seq(PointerOrNull)
    OBVIOUS
  <2>2. V = [TI |-> T, lines |-> <<>>] /\ O = [TI |-> T, lines |-> <<>>]
    BY <1>6, <2>1, HandlesRegistered
  <2>. QED
    BY <2>2
<1>8. getOrRegisterHandle(T, None) = T
  BY DEF getOrRegisterHandle, isNew
<1>9. ASSUME NEW line PROVE setLogEntry(T, r.index, line) = T
  BY DEF setLogEntry
<1>10. LeaveRegion(P, r, FALSE, NoEffect, <<>>) = T
  BY <1>3, <1>4, <1>6, <1>7, <1>8, <1>9 DEF LeaveRegion
<1>. QED
  BY <1>5, <1>10

\* Writing a file changes nothing of the tracer.
LEMMA DumpChanges ==
  ASSUME NEW T, HandlesFit(T), ~T.dumping, TimerFits(T)
  PROVE  Dump(T) = T
<1>. DEFINE D == [T EXCEPT !.dumping = TRUE]
<1>1. T \in TraceInfos /\ \A p \in Pointers : T.handles[p] \in 0..T.varCount
  BY DEF HandlesFit
<1>2. /\ D \in TraceInfos /\ D.handles = T.handles /\ D.varCount = T.varCount /\ D.dumping
      /\ D.timerStack = T.timerStack /\ D.running = T.running
      /\ [D EXCEPT !.dumping = FALSE] = T
  BY <1>1 DEF TraceInfos
<1>3. HandlesFit(D) /\ TimerFits(D)
  BY <1>1, <1>2 DEF HandlesFit, TimerFits
<1>4. GetVersion \in Functions /\ GetBuildInfo \in Functions
  BY TracingAssumption
<1>5. Dump(T) = [OwnCall(OwnCall(D, GetVersion), GetBuildInfo) EXCEPT !.dumping = FALSE]
  BY DEF Dump
<1>. HIDE DEF D
<1>6. OwnCall(D, GetVersion) = D /\ OwnCall(D, GetBuildInfo) = D
  BY <1>2, <1>3, <1>4, OwnCallChanges
<1>. QED
  BY <1>2, <1>5, <1>6

-----------------------------------------------------------------------------
(* The lines a call leaves when it returns.                                *)

\* A call returns: its line takes the place of the open one, and the lines of
\* the names of what it filled (from b + 1 on) and returned (from a + 1 on)
\* follow.
CallEnd(log, ix, line, a, returned, b, filled) ==
  /\ OpenAt(log, ix)
  /\ line \in Lines /\ line.k = "call" /\ line.out = log[ix].out /\ line.uses = log[ix].uses
  /\ ElementLines(filled, b, <<"out", line.out>>) /\ (line.out = None => filled = <<>>)
  /\ ElementLines(returned, a, <<"ret", line.ret>>) /\ (line.ret = None => returned = <<>>)
  /\ line.ret # None => <<"ret", line.ret>> \notin AllBuffers(log)
  /\ \A w \in AllDeclared(log) : w # 0 /\ w <= a
  /\ line.v # 0 => line.v = a + Len(returned) + 1
  /\ b = a + Len(returned) + IF line.v = 0 THEN 0 ELSE 1

\* Its log.
Ended(log, ix, line, returned, filled) == ([log EXCEPT ![ix] = line] \o filled) \o returned

\* The names it declares.
EndNames(line, a, returned, b, filled) ==
  (({line.v} \ {0}) \cup (b + 1)..(b + Len(filled))) \cup (a + 1)..(a + Len(returned))

\* What the log says then.
EndShows(log, line, a, returned, b, filled, more) ==
  /\ \A j \in 1..Len(returned) : EnvAt(more, a + j) = At(line.fx.vec, returned[j].i, None)
  /\ \A j \in 1..Len(filled) : EnvAt(more, b + j) = At(BufAt(more, <<"out", line.out>>), filled[j].i, None)
  /\ line.v # 0 => EnvAt(more, line.v) = line.fx.result
  /\ \A w : w \notin EndNames(line, a, returned, b, filled) => EnvAt(more, w) = EnvAt(log, w)
  /\ \A o : BufAt(more, o) =
       IF line.out # None /\ o = <<"out", line.out>> THEN BufAt(log, o) \o line.fx.filled
       ELSE IF line.ret # None /\ o = <<"ret", line.ret>> THEN line.fx.vec
       ELSE BufAt(log, o)

\* Its lines.
EndLines(log, ix, line, returned, filled, more) ==
  /\ more \in Seq(Lines) /\ Len(more) = Len(log) + Len(filled) + Len(returned)
  /\ more[ix] = line
  /\ \A i \in 1..Len(log) : i # ix => more[i] = log[i]
  /\ \A j \in 1..Len(filled) : more[Len(log) + j] = filled[j]
  /\ \A i \in 1..Len(more) : i > Len(log) => more[i].k = "element"

\* Where the members of a concatenation are.
LEMMA Joined ==
  ASSUME NEW S, NEW s \in Seq(S), NEW t \in Seq(S)
  PROVE  /\ s \o t \in Seq(S) /\ Len(s \o t) = Len(s) + Len(t)
         /\ \A i \in 1..Len(s) : (s \o t)[i] = s[i]
         /\ \A j \in 1..Len(t) : (s \o t)[Len(s) + j] = t[j]
OBVIOUS

\* The lines are where they belong.
LEMMA EndIsLines ==
  ASSUME NEW log \in Seq(Lines), NEW ix, NEW line, NEW a, NEW returned, NEW b, NEW filled,
         CallEnd(log, ix, line, a, returned, b, filled)
  PROVE  EndLines(log, ix, line, returned, filled, Ended(log, ix, line, returned, filled))
<1>. DEFINE closed == [log EXCEPT ![ix] = line]
            mid == closed \o filled
            more == mid \o returned
            n == Len(log)
<1>1. /\ ix \in 1..n /\ line \in Lines /\ filled \in Seq(Lines) /\ returned \in Seq(Lines)
      /\ \A j \in 1..Len(filled) : filled[j].k = "element"
      /\ \A j \in 1..Len(returned) : returned[j].k = "element"
  BY DEF CallEnd, OpenAt, ElementLines
<1>2. closed \in Seq(Lines) /\ Len(closed) = n /\ closed[ix] = line /\ \A i \in 1..n : i # ix => closed[i] = log[i]
  BY <1>1, ExceptSeq
<1>3. n \in Nat
  OBVIOUS
<1>. HIDE DEF closed, n
<1>4. /\ mid \in Seq(Lines) /\ Len(mid) = n + Len(filled)
      /\ \A i \in 1..n : mid[i] = closed[i]
      /\ \A j \in 1..Len(filled) : mid[n + j] = filled[j]
  <2>1. /\ mid \in Seq(Lines) /\ Len(mid) = Len(closed) + Len(filled)
        /\ \A i \in 1..Len(closed) : mid[i] = closed[i]
        /\ \A j \in 1..Len(filled) : mid[Len(closed) + j] = filled[j]
    <3>1. closed \in Seq(Lines) /\ filled \in Seq(Lines)
      BY <1>1, <1>2
    <3>. QED
      BY <3>1, Joined
  <2>. HIDE DEF mid
  <2>. QED
    BY <2>1, <1>2
<1>. HIDE DEF mid
<1>5. Len(filled) \in Nat /\ Len(returned) \in Nat
  BY <1>1
<1>6. /\ more \in Seq(Lines) /\ Len(more) = n + Len(filled) + Len(returned)
      /\ \A i \in 1..(n + Len(filled)) : more[i] = mid[i]
      /\ \A j \in 1..Len(returned) : more[n + Len(filled) + j] = returned[j]
  <2>1. \A i \in 1..Len(mid) : more[i] = mid[i]
    BY <1>1, <1>4, Joined
  <2>2. more \in Seq(Lines) /\ Len(more) = Len(mid) + Len(returned)
    BY <1>1, <1>4, Joined
  <2>3. \A j \in 1..Len(returned) : more[Len(mid) + j] = returned[j]
    BY <1>1, <1>4, Joined
  <2>. HIDE DEF more
  <2>. QED
    BY <2>1, <2>2, <2>3, <1>4
<1>. HIDE DEF more
<1>7. more[ix] = line /\ \A i \in 1..n : i # ix => more[i] = log[i]
  BY <1>1, <1>2, <1>3, <1>4, <1>5, <1>6
<1>8. ASSUME NEW j \in 1..Len(filled) PROVE more[n + j] = filled[j]
  <2>1. n + j \in 1..(n + Len(filled))
    BY <1>3, <1>5
  <2>. QED
    BY <2>1, <1>4, <1>6
<1>9. ASSUME NEW i \in 1..Len(more), i > n PROVE more[i].k = "element"
  <2>1. CASE i <= n + Len(filled)
    <3>1. i - n \in 1..Len(filled) /\ n + (i - n) = i
      BY <2>1, <1>3, <1>5, <1>9
    <3>. QED
      BY <3>1, <1>1, <1>8
  <2>2. CASE ~ (i <= n + Len(filled))
    <3>. DEFINE j == i - (n + Len(filled))
    <3>1. j \in 1..Len(returned) /\ n + Len(filled) + j = i
      BY <2>2, <1>3, <1>5, <1>6
    <3>. HIDE DEF j
    <3>. QED
      BY <3>1, <1>1, <1>6
  <2>. QED
    BY <2>1, <2>2
<1>. QED
  BY <1>6, <1>7, <1>8, <1>9 DEF EndLines, Ended, more, mid, closed, n

\* The names are declared in time.
LEMMA EndNamed ==
  ASSUME NEW log \in Seq(Lines), NEW ix, NEW line, NEW a, NEW returned, NEW b, NEW filled, NEW J,
         CallEnd(log, ix, line, a, returned, b, filled), WellNamed(log, J)
  PROVE  /\ WellNamed(Ended(log, ix, line, returned, filled), J)
         /\ AllDeclared(Ended(log, ix, line, returned, filled))
              = AllDeclared(log) \cup EndNames(line, a, returned, b, filled)
         /\ AllBuffers(Ended(log, ix, line, returned, filled)) = AllBuffers(log) \cup BuffersDeclaredBy(line)
<1>. DEFINE closed == [log EXCEPT ![ix] = line]
            mid == closed \o filled
            more == mid \o returned
            ra == Len(returned)
            rb == Len(filled)
<1>1. /\ OpenAt(log, ix) /\ ix \in 1..Len(log)
      /\ line \in Lines /\ line.k = "call" /\ line.out = log[ix].out /\ line.uses = log[ix].uses
      /\ ElementLines(filled, b, <<"out", line.out>>) /\ ElementLines(returned, a, <<"ret", line.ret>>)
      /\ line.out = None => filled = <<>>
      /\ line.ret = None => returned = <<>>
      /\ line.ret # None => <<"ret", line.ret>> \notin AllBuffers(log)
      /\ \A w \in AllDeclared(log) : w # 0 /\ w <= a
      /\ line.v # 0 => line.v = a + ra + 1
      /\ b = a + ra + IF line.v = 0 THEN 0 ELSE 1
  BY DEF CallEnd, OpenAt
<1>2. a \in Nat /\ b \in Nat /\ ra \in Nat /\ rb \in Nat /\ filled \in Seq(Lines) /\ returned \in Seq(Lines) /\ line.v \in Nat
  BY <1>1, LineFields DEF ElementLines
<1>3. closed \in Seq(Lines)
  BY <1>1, ExceptSeq
<1>4. DeclaredBy(line) = {line.v} \ {0} /\ BuffersDeclaredBy(line) = IF line.ret # None THEN {<<"ret", line.ret>>} ELSE {}
  BY <1>1 DEF DeclaredBy, BuffersDeclaredBy
<1>5. /\ WellNamed(closed, J)
      /\ AllDeclared(closed) = AllDeclared(log) \cup ({line.v} \ {0})
      /\ AllBuffers(closed) = AllBuffers(log) \cup BuffersDeclaredBy(line)
  <2>1. line.v \notin AllDeclared(log)
    <3>. HIDE DEF ra
    <3>1. \A w \in AllDeclared(log) : w # 0 /\ w <= a
      BY <1>1
    <3>2. line.v # 0 => ~ (line.v <= a)
      BY <1>1, <1>2
    <3>. QED
      BY <3>1, <3>2
  <2>2. line.ret = None \/ <<"ret", line.ret>> \notin AllBuffers(log)
    BY <1>1
  <2>. QED
    <3>1. /\ WellNamed(closed, J)
          /\ AllDeclared(closed) = AllDeclared(log) \cup DeclaredBy(line)
          /\ AllBuffers(closed) = AllBuffers(log) \cup BuffersDeclaredBy(line)
      <4>1. OpenAt(log, ix) /\ line \in Lines /\ line.k = "call" /\ line.out = log[ix].out /\ line.uses = log[ix].uses
        BY <1>1
      <4>. QED
        BY <2>1, <2>2, <4>1, CloseNamed
    <3>. HIDE DEF closed
    <3>. QED
      BY <3>1, <1>4
<1>6. line.out # None => <<"out", line.out>> \in AllBuffers(closed)
  <2>1. HAVE line.out # None
  <2>2. NamedLine(log[ix], Declared(log, ix - 1), BuffersDeclared(log, ix - 1), J)
    BY <1>1 DEF WellNamed
  <2>3. <<"out", line.out>> \in BuffersUsedBy(log[ix])
    BY <1>1, <2>1 DEF BuffersUsedBy, OpenAt
  <2>4. Len(log) \in Nat /\ ix - 1 \in 0..Len(log)
    BY <1>1
  <2>5. BuffersDeclared(log, ix - 1) \subseteq AllBuffers(log)
    BY <2>4, DeclaredGrows DEF AllBuffers
  <2>. QED
    BY <2>2, <2>3, <2>5, <1>5 DEF NamedLine
<1>. HIDE DEF closed, ra, rb
<1>7. /\ WellNamed(mid, J)
      /\ AllDeclared(mid) = AllDeclared(closed) \cup (b + 1)..(b + rb)
      /\ AllBuffers(mid) = AllBuffers(closed)
  <2>1. \A w \in AllDeclared(closed) : w \notin (b + 1)..(b + rb)
    <3>1. ASSUME NEW w \in AllDeclared(log) PROVE w \notin (b + 1)..(b + rb)
      <4>1. w <= a
        BY <1>1
      <4>. QED
        BY <4>1, <1>1, <1>2
    <3>2. line.v # 0 => line.v \notin (b + 1)..(b + rb)
      BY <1>1, <1>2
    <3>. QED
      BY <3>1, <3>2, <1>5
  <2>2. filled = <<>> \/ <<"out", line.out>> \in AllBuffers(closed)
    BY <1>1, <1>6
  <2>. QED
    BY <1>1, <1>2, <1>3, <1>5, <2>1, <2>2, ElementsNamed DEF rb
<1>8. mid \in Seq(Lines)
  BY <1>2, <1>3
<1>. HIDE DEF mid
<1>9. /\ WellNamed(more, J)
      /\ AllDeclared(more) = AllDeclared(mid) \cup (a + 1)..(a + ra)
      /\ AllBuffers(more) = AllBuffers(mid)
  <2>1. \A w \in AllDeclared(mid) : w \notin (a + 1)..(a + ra)
    <3>1. ASSUME NEW w \in AllDeclared(log) PROVE w \notin (a + 1)..(a + ra)
      <4>1. w <= a
        BY <1>1
      <4>. QED
        BY <4>1, <1>1, <1>2
    <3>2. line.v # 0 => line.v \notin (a + 1)..(a + ra)
      BY <1>1, <1>2
    <3>3. \A w \in (b + 1)..(b + rb) : w \notin (a + 1)..(a + ra)
      BY <1>1, <1>2
    <3>. QED
      BY <3>1, <3>2, <3>3, <1>5, <1>7
  <2>2. returned = <<>> \/ <<"ret", line.ret>> \in AllBuffers(mid)
    BY <1>1, <1>4, <1>5, <1>7
  <2>. QED
    BY <1>1, <1>2, <1>7, <1>8, <2>1, <2>2, ElementsNamed DEF ra
<1>10. AllDeclared(more) = AllDeclared(log) \cup EndNames(line, a, returned, b, filled)
  BY <1>5, <1>7, <1>9 DEF EndNames, ra, rb
<1>11. AllBuffers(more) = AllBuffers(log) \cup BuffersDeclaredBy(line)
  BY <1>5, <1>7, <1>9
<1>. QED
  BY <1>9, <1>10, <1>11 DEF Ended, more, mid, closed

\* Replaying it binds them as the call did.
LEMMA EndShown ==
  ASSUME NEW log \in Seq(Lines), NEW ix, NEW line, NEW a, NEW returned, NEW b, NEW filled,
         CallEnd(log, ix, line, a, returned, b, filled)
  PROVE  EndShows(log, line, a, returned, b, filled, Ended(log, ix, line, returned, filled))
<1>. DEFINE closed == [log EXCEPT ![ix] = line]
            mid == closed \o filled
            more == mid \o returned
            ra == Len(returned)
            rb == Len(filled)
            out == <<"out", line.out>>
            ret == <<"ret", line.ret>>
<1>1. /\ OpenAt(log, ix) /\ ix \in 1..Len(log)
      /\ line \in Lines /\ line.k = "call" /\ line.out = log[ix].out
      /\ ElementLines(filled, b, out) /\ ElementLines(returned, a, ret)
      /\ line.ret = None => returned = <<>>
      /\ line.v # 0 => line.v = a + ra + 1
      /\ b = a + ra + IF line.v = 0 THEN 0 ELSE 1
  BY DEF CallEnd, OpenAt
<1>2. a \in Nat /\ b \in Nat /\ ra \in Nat /\ rb \in Nat /\ filled \in Seq(Lines) /\ returned \in Seq(Lines)
      /\ (ra # 0 => line.ret # None)
  BY <1>1 DEF ElementLines
<1>3. closed \in Seq(Lines) /\ CloseShows(log, line, closed)
  BY <1>1, ExceptSeq, CloseShown
<1>4. out # ret
  OBVIOUS
<1>. HIDE DEF closed, ra, rb, out, ret
<1>5. mid \in Seq(Lines) /\ ElementsShow(closed, filled, b, out, mid)
  BY <1>1, <1>2, <1>3, ElementsShown
<1>. HIDE DEF mid
<1>6. ElementsShow(mid, returned, a, ret, more)
  BY <1>1, <1>5, ElementsShown
<1>. HIDE DEF more
<1>7. /\ \A v : EnvAt(closed, v) = IF line.v # 0 /\ v = line.v THEN line.fx.result ELSE EnvAt(log, v)
      /\ \A o : BufAt(closed, o) =
           IF line.out # None /\ o = out THEN BufAt(log, o) \o line.fx.filled
           ELSE IF line.ret # None /\ o = ret THEN line.fx.vec
           ELSE BufAt(log, o)
  BY <1>3 DEF CloseShows, out, ret
<1>8. /\ \A j \in 1..rb : EnvAt(mid, b + j) = At(BufAt(closed, out), filled[j].i, None)
      /\ \A w : w \notin (b + 1)..(b + rb) => EnvAt(mid, w) = EnvAt(closed, w)
      /\ \A o : BufAt(mid, o) = BufAt(closed, o)
  BY <1>5 DEF ElementsShow, rb
<1>9. /\ \A j \in 1..ra : EnvAt(more, a + j) = At(BufAt(mid, ret), returned[j].i, None)
      /\ \A w : w \notin (a + 1)..(a + ra) => EnvAt(more, w) = EnvAt(mid, w)
      /\ \A o : BufAt(more, o) = BufAt(mid, o)
  BY <1>6 DEF ElementsShow, ra
<1>10. ASSUME NEW j \in 1..ra PROVE EnvAt(more, a + j) = At(line.fx.vec, returned[j].i, None)
  <2>1. line.ret # None
    BY <1>2
  <2>2. BufAt(mid, ret) = line.fx.vec
    BY <2>1, <1>4, <1>7, <1>8
  <2>. QED
    BY <2>2, <1>9
<1>11. ASSUME NEW j \in 1..rb PROVE EnvAt(more, b + j) = At(BufAt(more, out), filled[j].i, None)
  <2>1. b + j \notin (a + 1)..(a + ra)
    BY <1>1, <1>2
  <2>. QED
    BY <2>1, <1>8, <1>9
<1>12. line.v # 0 => EnvAt(more, line.v) = line.fx.result
  <2>1. HAVE line.v # 0
  <2>2. line.v \notin (a + 1)..(a + ra) /\ line.v \notin (b + 1)..(b + rb)
    BY <2>1, <1>1, <1>2
  <2>. QED
    BY <2>1, <2>2, <1>7, <1>8, <1>9
<1>13. ASSUME NEW w, w \notin EndNames(line, a, returned, b, filled) PROVE EnvAt(more, w) = EnvAt(log, w)
  <2>1. w \notin (a + 1)..(a + ra) /\ w \notin (b + 1)..(b + rb) /\ ~ (line.v # 0 /\ w = line.v)
    BY <1>13 DEF EndNames, ra, rb
  <2>. QED
    BY <2>1, <1>7, <1>8, <1>9
<1>14. \A o : BufAt(more, o) =
           IF line.out # None /\ o = out THEN BufAt(log, o) \o line.fx.filled
           ELSE IF line.ret # None /\ o = ret THEN line.fx.vec
           ELSE BufAt(log, o)
  BY <1>7, <1>8, <1>9
<1>. QED
  BY <1>10, <1>11, <1>12, <1>13, <1>14 DEF EndShows, Ended, more, mid, closed, ra, rb, out, ret

-----------------------------------------------------------------------------
(* The destructor of a TraceRegion.                                        *)

\* The fields of a traced call.
LEMMA FrameFields ==
  ASSUME NEW r \in Frames, r.traced
  PROVE  /\ r.nested \in BOOLEAN /\ r.fn \in Functions /\ r.uses \in SUBSET Nat /\ r.c \in Containers \cup {None}
         /\ r.out \in Nat \cup {None} /\ r.first \in BOOLEAN /\ r.index \in Nat /\ r.before \in Nat
<1>1. r # Untraced
  BY DEF Untraced
<1>2. r \in [traced : {TRUE}, nested : BOOLEAN, fn : Functions, uses : SUBSET Nat, c : Containers \cup {None},
             out : Nat \cup {None}, first : BOOLEAN, index : Nat, before : Nat]
  BY <1>1 DEF Frames
<1>. QED
  BY <1>2

\* The timer stack when a call returns.
LEMMA Popped ==
  ASSUME NEW T, HandlesFit(T), TimerFits(T), T.timerStack # <<>>
  PROVE  /\ HandlesFit(popTimer(T)) /\ TimerFits(popTimer(T))
         /\ popTimer(T) = [T EXCEPT !.timerStack = Front(T.timerStack), !.running = popTimer(T).running]
         /\ popTimer(T).timerStack = Front(T.timerStack)
         /\ Front(T.timerStack) \in Seq(Functions) /\ Len(Front(T.timerStack)) = Len(T.timerStack) - 1
         /\ \A i \in 1..(Len(T.timerStack) - 1) : Front(T.timerStack)[i] = T.timerStack[i]
<1>. DEFINE s == T.timerStack
            rest == Front(s)
            R == (T.running \ {Last(s)}) \cup (IF rest = <<>> THEN {} ELSE {Last(rest)})
            U == popTimer(T)
<1>1. T \in TraceInfos /\ s \in Seq(Functions) /\ T.running = {Last(s)} /\ \A p \in Pointers : T.handles[p] \in 0..T.varCount
  BY InfoFields DEF HandlesFit, TimerFits
<1>2. rest \in Seq(Functions) /\ Len(rest) = Len(s) - 1 /\ \A i \in 1..(Len(s) - 1) : rest[i] = s[i]
  BY <1>1 DEF Front
<1>3. U = [T EXCEPT !.timerStack = rest, !.running = R]
  BY DEF popTimer
<1>4. R = IF rest = <<>> THEN {} ELSE {Last(rest)}
  BY <1>1
<1>5. R \in SUBSET Functions
  <2>1. rest # <<>> => Last(rest) \in Functions
    BY <1>2 DEF Last
  <2>. QED
    BY <1>4, <2>1
<1>. HIDE DEF U, R, rest
<1>6. /\ U \in TraceInfos /\ U.timerStack = rest /\ U.running = R
      /\ U.handles = T.handles /\ U.varCount = T.varCount
  BY <1>1, <1>2, <1>3, <1>5 DEF TraceInfos
<1>7. HandlesFit(U) /\ TimerFits(U)
  BY <1>1, <1>4, <1>6 DEF HandlesFit, TimerFits
<1>. QED
  BY <1>2, <1>3, <1>6, <1>7 DEF U, rest

\* The entries after a call that is not inside another one: returned and filled
\* are the lines of the names it gave, v is the name of its result.
Leaves(T, r, fx, now, ret, v, returned, filled, b, U) ==
  /\ HandlesFit(U) /\ ~U.dumping
  /\ v \in Nat /\ (v # 0 => v = T.varCount + Len(returned) + 1)
  /\ b = T.varCount + Len(returned) + IF v = 0 THEN 0 ELSE 1
  /\ ElementLines(returned, T.varCount, <<"ret", ret>>) /\ (ret = None => returned = <<>>)
  /\ ElementLines(filled, b, <<"out", r.out>>) /\ (r.out = None => filled = <<>>)
  /\ U.varCount = b + Len(filled)
  /\ CallLine(r.fn, r.uses, r.out, TRUE, v, ret, fx) \in Lines
  /\ U.log = Ended(T.log, r.index, CallLine(r.fn, r.uses, r.out, TRUE, v, ret, fx), returned, filled)
  /\ \A p \in Pointers : T.handles[p] # 0 => U.handles[p] = T.handles[p]
  /\ \A p \in Pointers : T.handles[p] = 0 /\ U.handles[p] # 0 =>
       \/ \E j \in 1..Len(returned) :
            U.handles[p] = T.varCount + j /\ returned[j].i \in 1..Len(fx.vec) /\ fx.vec[returned[j].i] = p
       \/ v # 0 /\ U.handles[p] = v /\ fx.result = p
       \/ \E j \in 1..Len(filled) : U.handles[p] = b + j /\ filled[j].i \in 1..Len(now) /\ now[filled[j].i] = p
  /\ U.outCount = T.outCount /\ U.outAliases = T.outAliases
  /\ U.inRegion = T.inRegion /\ U.regionStart = T.regionStart
  /\ U.retCount = T.retCount + IF ret = None THEN 0 ELSE 1
  /\ U.timerStack = Front(T.timerStack) /\ TimerFits(U)

\* That is what ~TraceRegion does.
LEMMA RegionLeft ==
  ASSUME NEW T, HandlesFit(T), ~T.dumping, TimerFits(T), T.timerStack # <<>>,
         NEW r \in Frames, r.traced, ~r.nested, r.index \in 1..Len(T.log),
         NEW vector \in BOOLEAN, NEW fx \in Effects, ~vector => fx.vec = <<>>,
         NEW now \in Seq(PointerOrNull), r.out = None => now = <<>>
  PROVE  \E v, returned, filled, b :
           Leaves(T, r, fx, now, IF vector THEN T.retCount ELSE None, v, returned, filled, b,
                  LeaveRegion(T, r, vector, fx, now))
<1>. DEFINE T1   == popTimer(T)
            ret  == IF vector THEN T1.retCount ELSE None
            V    == RegisterHandles(T1, fx.vec, <<"ret", ret>>)
            V1   == V.TI
            T2   == IF vector THEN [V1 EXCEPT !.retCount = @ + 1] ELSE V1
            v    == resultName(T2, fx.result)
            line == CallLine(r.fn, r.uses, r.out, TRUE, v, ret, fx)
            W    == getOrRegisterHandle(T2, fx.result)
            T3   == setLogEntry(W, r.index, line)
            O    == RegisterHandles(T3, now, <<"out", r.out>>)
            U1   == O.TI
            U    == [U1 EXCEPT !.log = (@ \o O.lines) \o V.lines]
            a    == T.varCount
            b    == T.varCount + Len(V.lines) + IF v = 0 THEN 0 ELSE 1
<1>1. LeaveRegion(T, r, vector, fx, now) = U
  BY DEF LeaveRegion
<1>2. /\ r.fn \in Functions /\ r.uses \in SUBSET Nat /\ r.out \in Nat \cup {None} /\ r.index \in 1..Len(T.log)
  BY FrameFields
<1>3. /\ fx.vec \in Seq(PointerOrNull) /\ fx.result \in PointerOrNull
  BY DEF Effects
<1>4. /\ HandlesFit(T1) /\ TimerFits(T1) /\ T1 \in TraceInfos
      /\ T1 = [T EXCEPT !.timerStack = Front(T.timerStack), !.running = T1.running]
      /\ T1.timerStack = Front(T.timerStack)
  BY Popped DEF HandlesFit
<1>5. /\ T \in TraceInfos /\ T.log \in Seq(Lines) /\ T.varCount \in Nat /\ T.retCount \in Nat
  BY InfoFields DEF HandlesFit
<1>6. /\ T1.handles = T.handles /\ T1.varCount = T.varCount /\ T1.retCount = T.retCount /\ T1.log = T.log
      /\ T1.outCount = T.outCount /\ T1.outAliases = T.outAliases /\ T1.inRegion = T.inRegion
      /\ T1.regionStart = T.regionStart /\ ~T1.dumping
  <2>. HIDE DEF T1
  <2>. QED
    BY <1>4, <1>5 DEF TraceInfos
<1>. HIDE DEF T1
<1>7. ret = IF vector THEN T.retCount ELSE None
  BY <1>6
<1>8. ret \in Nat \cup {None} /\ None \notin Nat /\ (ret = None <=> ~vector)
  BY <1>5, <1>7, TracingAssumption
<1>. HIDE DEF ret
<1>9. Registered(T1, fx.vec, <<"ret", ret>>, V)
  <2>1. fx.vec = <<>> \/ <<"ret", ret>> \in {"out", "ret"} \X Nat
    BY <1>8
  <2>. QED
    BY <1>3, <1>4, <2>1, HandlesRegistered
<1>10. ret = None => V.lines = <<>>
  <2>1. fx.vec = <<>> => V = [TI |-> T1, lines |-> <<>>]
    BY <1>3, <1>4, HandlesRegistered
  <2>. HIDE DEF V
  <2>. QED
    BY <1>8, <2>1
<1>. HIDE DEF V
<1>11. /\ HandlesFit(V1) /\ V1 \in TraceInfos
       /\ V1 = [T1 EXCEPT !.handles = V1.handles, !.varCount = V1.varCount]
       /\ ElementLines(V.lines, a, <<"ret", ret>>)
       /\ V1.varCount = a + Len(V.lines)
       /\ \A p \in Pointers : T.handles[p] # 0 => V1.handles[p] = T.handles[p]
       /\ \A p \in Pointers : T.handles[p] = 0 /\ V1.handles[p] # 0 =>
            \E j \in 1..Len(V.lines) :
              V1.handles[p] = a + j /\ V.lines[j].i \in 1..Len(fx.vec) /\ fx.vec[V.lines[j].i] = p
  BY <1>6, <1>9 DEF Registered, HandlesFit
<1>. HIDE DEF V1
<1>12. /\ V1.retCount = T.retCount /\ V1.log = T.log
       /\ V1.outCount = T.outCount /\ V1.outAliases = T.outAliases /\ V1.inRegion = T.inRegion
       /\ V1.regionStart = T.regionStart /\ ~V1.dumping /\ V1.timerStack = T1.timerStack /\ V1.running = T1.running
  BY <1>4, <1>6, <1>11 DEF TraceInfos
<1>13. /\ T2 \in TraceInfos /\ T2.handles = V1.handles /\ T2.varCount = V1.varCount
       /\ T2.retCount = T.retCount + IF ret = None THEN 0 ELSE 1
       /\ T2.log = T.log
       /\ T2.outCount = T.outCount /\ T2.outAliases = T.outAliases /\ T2.inRegion = T.inRegion
       /\ T2.regionStart = T.regionStart /\ ~T2.dumping /\ T2.timerStack = T1.timerStack /\ T2.running = T1.running
  <2>1. CASE vector
    <3>. DEFINE n == V1.retCount + 1
    <3>1. n \in Nat /\ n = T.retCount + 1
      BY <1>5, <1>12
    <3>. HIDE DEF n
    <3>2. T2 = [V1 EXCEPT !.retCount = n]
      BY <2>1 DEF n
    <3>. HIDE DEF T2
    <3>. QED
      BY <2>1, <3>1, <3>2, <1>8, <1>11, <1>12 DEF TraceInfos
  <2>2. CASE ~vector
    BY <2>2, <1>5, <1>8, <1>11, <1>12
  <2>. QED
    BY <2>1, <2>2
<1>. HIDE DEF T2
<1>14. HandlesFit(T2)
  BY <1>11, <1>13 DEF HandlesFit
<1>15. HandleMade(T2, fx.result, W)
  BY <1>3, <1>14, HandleGiven
<1>16. v = IF isNew(T2, fx.result) THEN T2.varCount + 1 ELSE 0
  BY DEF resultName
<1>. HIDE DEF v, W
<1>17. /\ HandlesFit(W) /\ W \in TraceInfos
       /\ W = [T2 EXCEPT !.handles = W.handles, !.varCount = W.varCount]
       /\ v \in Nat /\ (v # 0 => v = a + Len(V.lines) + 1)
       /\ b \in Nat /\ W.varCount = b
       /\ \A p \in Pointers : W.handles[p] = IF v # 0 /\ p = fx.result THEN v ELSE T2.handles[p]
       /\ v # 0 => T2.handles[fx.result] = 0
  <2>1. V1.varCount = a + Len(V.lines) /\ a \in Nat /\ Len(V.lines) \in Nat /\ T2.varCount = V1.varCount
    BY <1>5, <1>11, <1>13 DEF ElementLines
  <2>2. HandlesFit(W) /\ W \in TraceInfos /\ W = [T2 EXCEPT !.handles = W.handles, !.varCount = W.varCount]
    BY <1>15 DEF HandleMade, HandlesFit
  <2>3. CASE isNew(T2, fx.result)
    <3>1. /\ T2.handles[fx.result] = 0 /\ W.varCount = T2.varCount + 1 /\ v = T2.varCount + 1
          /\ \A p \in Pointers : W.handles[p] = IF p = fx.result THEN T2.varCount + 1 ELSE T2.handles[p]
      BY <2>3, <1>15, <1>16 DEF HandleMade
    <3>2. v # 0 /\ v \in Nat
      BY <2>1, <3>1
    <3>. QED
      BY <2>1, <2>2, <3>1, <3>2
  <2>4. CASE ~isNew(T2, fx.result)
    <3>1. W = T2 /\ v = 0
      BY <2>4, <1>15, <1>16 DEF HandleMade
    <3>. QED
      BY <2>1, <2>2, <3>1
  <2>. QED
    BY <2>3, <2>4
<1>18. /\ W.retCount = T2.retCount /\ W.log = T.log
       /\ W.outCount = T.outCount /\ W.outAliases = T.outAliases /\ W.inRegion = T.inRegion
       /\ W.regionStart = T.regionStart /\ ~W.dumping /\ W.timerStack = T1.timerStack /\ W.running = T1.running
  BY <1>13, <1>17 DEF TraceInfos
<1>19. line \in Lines
  BY <1>2, <1>8, <1>17 DEF CallLine, Lines
<1>. HIDE DEF line
<1>. DEFINE L3 == [T.log EXCEPT ![r.index] = line]
<1>20. L3 \in Seq(Lines)
  BY <1>2, <1>5, <1>19, ExceptSeq
<1>21. T3 = [W EXCEPT !.log = L3]
  BY <1>18 DEF setLogEntry
<1>. HIDE DEF L3, T3
<1>22. /\ T3 \in TraceInfos /\ T3.log = L3 /\ T3.handles = W.handles /\ T3.varCount = W.varCount
       /\ T3.retCount = T2.retCount
       /\ T3.outCount = T.outCount /\ T3.outAliases = T.outAliases /\ T3.inRegion = T.inRegion
       /\ T3.regionStart = T.regionStart /\ ~T3.dumping /\ T3.timerStack = T1.timerStack /\ T3.running = T1.running
  BY <1>17, <1>18, <1>20, <1>21 DEF TraceInfos
<1>23. HandlesFit(T3)
  BY <1>17, <1>22 DEF HandlesFit
<1>24. Registered(T3, now, <<"out", r.out>>, O)
  <2>1. now = <<>> \/ <<"out", r.out>> \in {"out", "ret"} \X Nat
    BY <1>2
  <2>. QED
    BY <1>23, <2>1, HandlesRegistered
<1>25. r.out = None => O.lines = <<>>
  <2>1. now = <<>> => O = [TI |-> T3, lines |-> <<>>]
    BY <1>23, HandlesRegistered
  <2>. HIDE DEF O
  <2>. QED
    BY <2>1
<1>. HIDE DEF O
<1>26. /\ HandlesFit(U1) /\ U1 \in TraceInfos
       /\ U1 = [T3 EXCEPT !.handles = U1.handles, !.varCount = U1.varCount]
       /\ ElementLines(O.lines, b, <<"out", r.out>>)
       /\ U1.varCount = b + Len(O.lines)
       /\ \A p \in Pointers : W.handles[p] # 0 => U1.handles[p] = W.handles[p]
       /\ \A p \in Pointers : W.handles[p] = 0 /\ U1.handles[p] # 0 =>
            \E j \in 1..Len(O.lines) :
              U1.handles[p] = b + j /\ O.lines[j].i \in 1..Len(now) /\ now[O.lines[j].i] = p
  <2>1. W.varCount = b
    BY <1>17
  <2>. HIDE DEF b
  <2>. QED
    BY <1>22, <1>24, <2>1 DEF Registered, HandlesFit
<1>. HIDE DEF U1
<1>27. /\ U1.retCount = T2.retCount /\ U1.log = L3
       /\ U1.outCount = T.outCount /\ U1.outAliases = T.outAliases /\ U1.inRegion = T.inRegion
       /\ U1.regionStart = T.regionStart /\ ~U1.dumping /\ U1.timerStack = T1.timerStack /\ U1.running = T1.running
  BY <1>22, <1>26 DEF TraceInfos
<1>. DEFINE L5 == (L3 \o O.lines) \o V.lines
<1>28. L5 \in Seq(Lines)
  BY <1>11, <1>20, <1>26 DEF ElementLines
<1>29. U = [U1 EXCEPT !.log = L5]
  BY <1>27
<1>30. L5 = Ended(T.log, r.index, line, V.lines, O.lines)
  BY DEF Ended, L3
<1>. HIDE DEF U, L5
<1>31. /\ U \in TraceInfos /\ U.log = L5 /\ U.handles = U1.handles /\ U.varCount = U1.varCount
       /\ U.retCount = T2.retCount
       /\ U.outCount = T.outCount /\ U.outAliases = T.outAliases /\ U.inRegion = T.inRegion
       /\ U.regionStart = T.regionStart /\ ~U.dumping /\ U.timerStack = T1.timerStack /\ U.running = T1.running
  BY <1>26, <1>27, <1>28, <1>29 DEF TraceInfos
<1>32. HandlesFit(U) /\ TimerFits(U)
  BY <1>4, <1>26, <1>31 DEF HandlesFit, TimerFits
<1>33. \A p \in Pointers : T.handles[p] # 0 => U.handles[p] = T.handles[p]
  BY <1>11, <1>13, <1>17, <1>26, <1>31
<1>34. ASSUME NEW p \in Pointers, T.handles[p] = 0, U.handles[p] # 0
       PROVE  \/ \E j \in 1..Len(V.lines) :
                   U.handles[p] = a + j /\ V.lines[j].i \in 1..Len(fx.vec) /\ fx.vec[V.lines[j].i] = p
              \/ v # 0 /\ U.handles[p] = v /\ fx.result = p
              \/ \E j \in 1..Len(O.lines) : U.handles[p] = b + j /\ O.lines[j].i \in 1..Len(now) /\ now[O.lines[j].i] = p
  <2>. HIDE DEF b
  <2>1. CASE V1.handles[p] # 0
    <3>1. U.handles[p] = V1.handles[p]
      <4>1. W.handles[p] = V1.handles[p]
        BY <2>1, <1>13, <1>17
      <4>. QED
        BY <2>1, <4>1, <1>26, <1>31
    <3>. QED
      BY <2>1, <3>1, <1>11, <1>34
  <2>2. CASE V1.handles[p] = 0 /\ v # 0 /\ p = fx.result
    <3>1. W.handles[p] = v
      BY <2>2, <1>17
    <3>. QED
      BY <2>2, <3>1, <1>26, <1>31
  <2>3. CASE V1.handles[p] = 0 /\ ~ (v # 0 /\ p = fx.result)
    <3>1. W.handles[p] = 0
      BY <2>3, <1>13, <1>17
    <3>. QED
      BY <3>1, <1>26, <1>31, <1>34
  <2>. QED
    BY <2>1, <2>2, <2>3
<1>35. U.varCount = b + Len(O.lines)
  BY <1>26, <1>31
<1>36. Leaves(T, r, fx, now, ret, v, V.lines, O.lines, b, U)
  <2>1. /\ v \in Nat /\ (v # 0 => v = T.varCount + Len(V.lines) + 1)
        /\ b = T.varCount + Len(V.lines) + IF v = 0 THEN 0 ELSE 1
    BY <1>17
  <2>2. ElementLines(V.lines, T.varCount, <<"ret", ret>>) /\ (ret = None => V.lines = <<>>)
    BY <1>10, <1>11
  <2>3. ElementLines(O.lines, b, <<"out", r.out>>) /\ (r.out = None => O.lines = <<>>)
    BY <1>25, <1>26
  <2>4. /\ CallLine(r.fn, r.uses, r.out, TRUE, v, ret, fx) \in Lines
        /\ U.log = Ended(T.log, r.index, CallLine(r.fn, r.uses, r.out, TRUE, v, ret, fx), V.lines, O.lines)
    BY <1>19, <1>30, <1>31 DEF line
  <2>5. /\ U.outCount = T.outCount /\ U.outAliases = T.outAliases
        /\ U.inRegion = T.inRegion /\ U.regionStart = T.regionStart
        /\ U.retCount = T.retCount + IF ret = None THEN 0 ELSE 1
        /\ U.timerStack = Front(T.timerStack) /\ ~U.dumping
    BY <1>4, <1>13, <1>31
  <2>6. \A p \in Pointers : T.handles[p] = 0 /\ U.handles[p] # 0 =>
           \/ \E j \in 1..Len(V.lines) :
                U.handles[p] = T.varCount + j /\ V.lines[j].i \in 1..Len(fx.vec) /\ fx.vec[V.lines[j].i] = p
           \/ v # 0 /\ U.handles[p] = v /\ fx.result = p
           \/ \E j \in 1..Len(O.lines) : U.handles[p] = b + j /\ O.lines[j].i \in 1..Len(now) /\ now[O.lines[j].i] = p
    <3>. HIDE DEF b
    <3>. QED
      BY <1>34
  <2>. HIDE DEF b
  <2>. QED
    BY <1>32, <1>33, <1>35, <2>1, <2>2, <2>3, <2>4, <2>5, <2>6 DEF Leaves
<1>. HIDE DEF b
<1>37. \E v_1, returned, filled, b_1 : Leaves(T, r, fx, now, ret, v_1, returned, filled, b_1, U)
  BY <1>36
<1>. QED
  BY <1>1, <1>7, <1>37

-----------------------------------------------------------------------------
(* The invariant.                                                          *)

\* The names in the log are those given out, but for the ones JitCall gave, and
\* so are the buffers.
NamesOK(T, J) ==
  /\ WellNamed(T.log, J)
  /\ \A w \in AllDeclared(T.log) : w # 0 /\ w <= T.varCount
  /\ \A o \in AllBuffers(T.log) : o[2] < IF o[1] = "out" THEN T.outCount ELSE T.retCount
  /\ \A p \in Pointers : T.handles[p] # 0 => T.handles[p] \in AllDeclared(T.log) \cup J
  /\ \A c \in Containers : T.outAliases[c] # None =>
       T.outAliases[c] < T.outCount /\ <<"out", T.outAliases[c]>> \in AllBuffers(T.log)

\* Replaying the log binds the names to their pointers.
BindOK(T, J, t) ==
  \A p \in Pointers :
    T.handles[p] \notin ({0} \cup J) \cup StaleIn(T.log, t) => EnvAt(T.log, T.handles[p]) = p

\* Replaying it fills the buffers as the containers were, up to what the call
\* in progress, which began with the first n pointers in a, has added.
ContentOK(T, t, cont, a, n) ==
  /\ cont \in [Containers -> Seq(PointerOrNull)]
  /\ \A c \in Containers : cont[c] # <<>> => T.outAliases[c] # None
  /\ \A c, d \in Containers : T.outAliases[c] # None /\ T.outAliases[c] = T.outAliases[d] => c = d
  /\ \A c \in Containers : T.outAliases[c] # None /\ T.outAliases[c] \notin t =>
       BufAt(T.log, <<"out", T.outAliases[c]>>) = SubSeq(cont[c], 1, IF c = a THEN n ELSE Len(cont[c]))

\* The outermost call that is traced.
Outer(T, fr) == fr[Len(fr) - Len(T.timerStack) + 1]

\* The i-th call the tracer knows: only the first is not nested, and what it
\* fills is all that the others can fill.
FrameOK(r, fn, i, o) == fn = r.fn /\ (r.nested <=> i > 1) /\ (r.c # None => r.c = o.c)

\* The calls alive: those the tracer knows are the innermost ones.
FramesOK(T, fr) ==
  /\ fr \in Seq(Frames) /\ Len(T.timerStack) <= Len(fr) /\ TimerFits(T)
  /\ \A i \in 1..Len(fr) : fr[i].traced <=> i > Len(fr) - Len(T.timerStack)
  /\ \A i \in 1..Len(T.timerStack) :
       FrameOK(fr[Len(fr) - Len(T.timerStack) + i], T.timerStack[i], i, Outer(T, fr))

\* The line of a call that has not returned, the last but for comments.
OpenLine(log, o) ==
  /\ OpenAt(log, o.index)
  /\ log[o.index] = CallLine(o.fn, o.uses, o.out, FALSE, 0, None, NoEffect)
  /\ \A i \in 1..Len(log) : i # o.index /\ log[i].k = "call" => log[i].done

\* The call in progress has a line, and what it was given a buffer.
OpenOK(T, fr, cont) ==
  /\ T.timerStack = <<>> => \A i \in 1..Len(T.log) : T.log[i].k = "call" => T.log[i].done
  /\ T.timerStack # <<>> =>
       /\ OpenLine(T.log, Outer(T, fr))
       /\ Outer(T, fr).c = None => Outer(T, fr).out = None
       /\ Outer(T, fr).c # None =>
            /\ Outer(T, fr).out = T.outAliases[Outer(T, fr).c] /\ Outer(T, fr).out # None
            /\ Outer(T, fr).before <= Len(cont[Outer(T, fr).c])

\* What the call in progress fills, and how full it was.
FillsOf(T, fr) == IF T.timerStack = <<>> THEN None ELSE Outer(T, fr).c
FullOf(T, fr)  == IF T.timerStack = <<>> THEN 0 ELSE Outer(T, fr).before

\* The calls in the log are those made, and those since the region began are
\* the region's.
CallsOK(T, m, reg) ==
  /\ CallsIn(T.log) = m
  /\ T.inRegion => T.regionStart <= Len(T.log) /\ CallsIn(SubSeq(T.log, T.regionStart + 1, Len(T.log))) = reg

\* The state of a tracer goes together with the calls alive, the containers, the
\* buffers others changed, JitCall's names and the calls made and of the region.
TracerOK(T, on, fr, cont, t, J, m, reg) ==
  /\ HandlesFit(T) /\ ~T.dumping
  /\ ~on => T.timerStack = <<>>
  /\ FramesOK(T, fr) /\ OpenOK(T, fr, cont)
  /\ NamesOK(T, J) /\ BindOK(T, J, t) /\ ContentOK(T, t, cont, FillsOf(T, fr), FullOf(T, fr))
  /\ CallsOK(T, m, reg)

\* Files that hold the calls they should.
ExactFiles == {file \in [lines : Seq(Lines), calls : Seq(Functions)] : CallsIn(file.lines) = file.calls}

\* The invariant of the tracer: its state goes together, and the files written
\* were exact.
TracingInv ==
  /\ TracerOK(TI, enabled, frames, content, touched, jitNames, made, region)
  /\ files \in Seq(ExactFiles) /\ CrashReproducer

\* The names read out of changed buffers, of the model and of the proof.
LEMMA StaleIs ==
  ASSUME TI \in TraceInfos
  PROVE  StaleNames = StaleIn(TI.log, touched)
<1>1. DOMAIN TI.log = 1..Len(TI.log)
  BY InfoFields
<1>. QED
  BY <1>1 DEF StaleNames, StaleIn

\* Where the calls the tracer knows stand.
LEMMA TracedAre ==
  ASSUME NEW T, HandlesFit(T), NEW fr, FramesOK(T, fr)
  PROVE  /\ {i \in DOMAIN fr : fr[i].traced} = (Len(fr) - Len(T.timerStack) + 1)..Len(fr)
         /\ Len(fr) \in Nat /\ Len(T.timerStack) \in 0..Len(fr)
         /\ T.timerStack \in Seq(Functions) /\ (T.timerStack = <<>> <=> Len(T.timerStack) = 0)
<1>1. T.timerStack \in Seq(Functions)
  BY InfoFields DEF HandlesFit
<1>2. fr \in Seq(Frames) /\ Len(T.timerStack) <= Len(fr)
      /\ \A i \in 1..Len(fr) : fr[i].traced <=> i > Len(fr) - Len(T.timerStack)
  BY DEF FramesOK
<1>3. DOMAIN fr = 1..Len(fr) /\ Len(fr) \in Nat
  BY <1>2
<1>. DEFINE n == Len(fr)
            m == Len(T.timerStack)
<1>4. n \in Nat /\ m \in Nat /\ m <= n /\ DOMAIN fr = 1..n /\ \A i \in 1..n : fr[i].traced <=> i > n - m
  BY <1>1, <1>2, <1>3
<1>. HIDE DEF n, m
<1>5. ASSUME NEW i PROVE i \in DOMAIN fr /\ fr[i].traced <=> i \in (n - m + 1)..n
  BY <1>4
<1>6. {i \in DOMAIN fr : fr[i].traced} = (n - m + 1)..n
  BY <1>5
<1>7. m \in 0..n
  BY <1>4
<1>8. T.timerStack = <<>> <=> m = 0
  BY <1>1 DEF m
<1>. QED
  BY <1>1, <1>4, <1>6, <1>7, <1>8 DEF n, m

\* The invariant says the log is exact.
LEMMA InvLogExact == TracingInv => LogExact
<1>. SUFFICES ASSUME TracingInv PROVE LogExact
  OBVIOUS
<1>1. /\ HandlesFit(TI) /\ ~TI.dumping
      /\ FramesOK(TI, frames) /\ OpenOK(TI, frames, content)
      /\ NamesOK(TI, jitNames) /\ BindOK(TI, jitNames, touched)
      /\ ContentOK(TI, touched, content, FillsOf(TI, frames), FullOf(TI, frames))
  BY DEF TracingInv, TracerOK
<1>2. TI \in TraceInfos /\ \A p \in Pointers : TI.handles[p] \in 0..TI.varCount
  BY <1>1 DEF HandlesFit
<1>3. DOMAIN TI.log = 1..Len(TI.log) /\ TI.log \in Seq(Lines)
  BY <1>2, InfoFields
<1>4. TracingTypeOK
  <2>1. ASSUME NEW c \in Containers PROVE TI.outAliases[c] \in 0..(TI.outCount - 1) \cup {None}
    <3>1. TI.outAliases[c] \in Nat \cup {None} /\ TI.outCount \in Nat
      BY <1>2, InfoFields
    <3>2. TI.outAliases[c] # None => TI.outAliases[c] < TI.outCount
      BY <1>1 DEF NamesOK
    <3>. QED
      BY <3>1, <3>2
  <2>2. frames \in Seq(Frames) /\ content \in [Containers -> Seq(PointerOrNull)]
    BY <1>1 DEF FramesOK, ContentOK
  <2>. QED
    BY <1>1, <1>2, <2>1, <2>2 DEF TracingTypeOK
<1>5. NamesDeclared
  BY <1>1, <1>3 DEF NamesDeclared, NamesOK, WellNamed, NamedLine
<1>6. ReplayBindsSame
  <2>1. StaleNames = StaleIn(TI.log, touched)
    BY <1>2, StaleIs
  <2>. QED
    BY <1>1, <2>1 DEF ReplayBindsSame, BindOK, EnvAt, EnvOf
<1>. DEFINE n == Len(TI.timerStack)
            u == Len(frames) - n
<1>7. /\ TracedFrames = (u + 1)..Len(frames)
      /\ Len(frames) \in Nat /\ n \in 0..Len(frames)
      /\ TI.timerStack \in Seq(Functions) /\ (TI.timerStack = <<>> <=> n = 0)
  BY <1>1, TracedAre DEF TracedFrames
<1>8. \A i \in 1..n : TI.timerStack[i] = frames[u + i].fn /\ (frames[u + i].nested <=> i > 1)
  BY <1>1 DEF FramesOK, FrameOK
<1>9. TI.running = IF TI.timerStack = <<>> THEN {} ELSE {Last(TI.timerStack)}
  BY <1>1 DEF FramesOK, TimerFits
<1>10. frames \in Seq(Frames)
  BY <1>1 DEF FramesOK
<1>. HIDE DEF n
<1>11. TimersFollowCalls
  <2>1. \A i \in TracedFrames : TI.timerStack[i - u] = frames[i].fn
    <3>. TAKE i \in TracedFrames
    <3>1. i - u \in 1..n /\ u + (i - u) = i
      BY <1>7
    <3>. QED
      BY <3>1, <1>8
  <2>2. TracedFrames = {} <=> n = 0
    <3>1. n = 0 <=> (u + 1)..Len(frames) = {}
      <4>1. n \in 0..Len(frames) /\ Len(frames) \in Nat
        BY <1>7
      <4>2. n # 0 => Len(frames) \in (u + 1)..Len(frames)
        BY <4>1
      <4>3. n = 0 => u = Len(frames)
        BY <4>1
      <4>4. \A i : i \notin (Len(frames) + 1)..Len(frames)
        BY <4>1
      <4>. QED
        BY <4>2, <4>3, <4>4
    <3>. QED
      BY <3>1, <1>7
  <2>3. n # 0 => Last(TI.timerStack) = Last(frames).fn
    <3>1. HAVE n # 0
    <3>2. Last(TI.timerStack) = TI.timerStack[n] /\ Last(frames) = frames[u + n]
      BY <1>7 DEF Last, n
    <3>. QED
      <4>1. n \in 1..n
        BY <3>1, <1>7
      <4>. QED
        BY <4>1, <3>2, <1>8
  <2>. QED
    BY <2>1, <2>2, <2>3, <1>7, <1>9 DEF TimersFollowCalls, n
<1>12. InProgressRecorded
  <2>. DEFINE outer == {i \in TracedFrames : ~frames[i].nested}
              open == {i \in CallLines(TI.log) : ~TI.log[i].done}
  <2>1. outer = IF n = 0 THEN {} ELSE {u + 1}
    <3>1. ASSUME NEW i \in TracedFrames PROVE frames[i].nested <=> i > u + 1
      <4>1. i - u \in 1..n /\ u + (i - u) = i
        BY <1>7
      <4>2. frames[i].nested <=> i - u > 1
        BY <4>1, <1>8
      <4>3. i \in Int /\ u \in Int
        BY <1>7
      <4>. QED
        BY <4>2, <4>3
    <3>2. u \in Int /\ u + n = Len(frames) /\ n \in Nat
      BY <1>7
    <3>. QED
      BY <3>1, <3>2, <1>7
  <2>2. CASE n = 0
    <3>1. \A i \in 1..Len(TI.log) : TI.log[i].k = "call" => TI.log[i].done
      BY <2>2, <1>1, <1>7 DEF OpenOK
    <3>2. open = {}
      BY <3>1, <1>3 DEF CallLines
    <3>. QED
      BY <2>1, <2>2, <3>2 DEF InProgressRecorded
  <2>3. CASE n # 0
    <3>. DEFINE o == frames[u + 1]
    <3>1. OpenLine(TI.log, o)
      BY <2>3, <1>1, <1>7 DEF OpenOK, Outer, n
    <3>2. open = {o.index}
      BY <3>1, <1>3 DEF OpenLine, OpenAt, CallLines
    <3>3. TI.log[o.index] = CallLine(o.fn, o.uses, o.out, FALSE, 0, None, NoEffect)
      BY <3>1 DEF OpenLine
    <3>4. \A j \in TracedFrames : u + 1 <= j
      BY <1>7
    <3>5. outer = {u + 1}
      BY <2>1, <2>3
    <3>6. open = {frames[i].index : i \in outer}
      BY <3>2, <3>5
    <3>. HIDE DEF outer, open
    <3>7. \A i \in outer :
            /\ \A j \in TracedFrames : i <= j
            /\ TI.log[frames[i].index] =
                 CallLine(frames[i].fn, frames[i].uses, frames[i].out, FALSE, 0, None, NoEffect)
      BY <3>3, <3>4, <3>5
    <3>. QED
      BY <3>6, <3>7 DEF InProgressRecorded, outer, open
  <2>. QED
    BY <2>2, <2>3
<1>. QED
  BY <1>4, <1>5, <1>6, <1>11, <1>12 DEF LogExact

-----------------------------------------------------------------------------
(* What a line more keeps.                                                 *)

\* The end of a log with a line more.
LEMMA TailAppend ==
  ASSUME NEW S, NEW s \in Seq(S), NEW x \in S, NEW k \in 0..Len(s)
  PROVE  /\ SubSeq(s, k + 1, Len(s)) \in Seq(S)
         /\ SubSeq(Append(s, x), k + 1, Len(s) + 1) = Append(SubSeq(s, k + 1, Len(s)), x)
<1>. DEFINE a == SubSeq(Append(s, x), k + 1, Len(s) + 1)
            b == Append(SubSeq(s, k + 1, Len(s)), x)
            n == Len(s)
<1>1. SubSeq(s, k + 1, n) \in Seq(S) /\ Len(SubSeq(s, k + 1, n)) = n - k /\ n \in Nat
      /\ \A i \in 1..(n - k) : SubSeq(s, k + 1, n)[i] = s[k + i]
  OBVIOUS
<1>2. b \in Seq(S) /\ Len(b) = n - k + 1 /\ b[n - k + 1] = x /\ \A i \in 1..(n - k) : b[i] = s[k + i]
  BY <1>1
<1>3. Append(s, x) \in Seq(S) /\ Len(Append(s, x)) = n + 1
  OBVIOUS
<1>4. a \in Seq(S) /\ Len(a) = n - k + 1 /\ \A i \in 1..(n - k + 1) : a[i] = Append(s, x)[k + i]
  BY <1>1, <1>3
<1>. HIDE DEF a, b
<1>5. ASSUME NEW i \in 1..(n - k + 1) PROVE a[i] = b[i]
  <2>1. CASE i = n - k + 1
    BY <2>1, <1>1, <1>2, <1>4
  <2>2. CASE i # n - k + 1
    <3>1. k + i \in 1..n /\ i \in 1..(n - k)
      BY <2>2, <1>1
    <3>2. Append(s, x)[k + i] = s[k + i]
      BY <3>1
    <3>. QED
      BY <3>1, <3>2, <1>2, <1>4
  <2>. QED
    BY <2>1, <2>2
<1>6. a = b
  BY <1>2, <1>4, <1>5, SeqEqual
<1>. QED
  BY <1>1, <1>6 DEF a, b

\* The calls of a log with a line more, and of its region.
LEMMA CallsAppended ==
  ASSUME NEW T, HandlesFit(T), NEW m, NEW reg, CallsOK(T, m, reg), NEW line \in Lines,
         NEW U, U.log = Append(T.log, line), U.inRegion = T.inRegion, U.regionStart = T.regionStart
  PROVE  CallsOK(U, AddCall(m, line), IF T.inRegion THEN AddCall(reg, line) ELSE reg)
<1>. DEFINE L == T.log
            s == T.regionStart
<1>1. L \in Seq(Lines) /\ s \in Nat /\ Len(L) \in Nat /\ Len(U.log) = Len(L) + 1
  BY InfoFields DEF HandlesFit
<1>2. CallsIn(U.log) = AddCall(m, line)
  BY <1>1, CallsInAppend DEF CallsOK
<1>3. ASSUME T.inRegion
      PROVE  s <= Len(U.log) /\ CallsIn(SubSeq(U.log, s + 1, Len(U.log))) = AddCall(reg, line)
  <2>1. s <= Len(L) /\ CallsIn(SubSeq(L, s + 1, Len(L))) = reg
    BY <1>3 DEF CallsOK
  <2>2. s \in 0..Len(L)
    BY <2>1, <1>1
  <2>3. SubSeq(L, s + 1, Len(L)) \in Seq(Lines) /\ SubSeq(U.log, s + 1, Len(U.log)) = Append(SubSeq(L, s + 1, Len(L)), line)
    BY <1>1, <2>2, TailAppend
  <2>. QED
    <3>. DEFINE tail == SubSeq(L, s + 1, Len(L))
    <3>. HIDE DEF tail
    <3>1. CallsIn(Append(tail, line)) = AddCall(CallsIn(tail), line)
      BY <2>3, CallsInAppend DEF tail
    <3>2. CallsIn(tail) = reg /\ SubSeq(U.log, s + 1, Len(U.log)) = Append(tail, line)
      BY <2>1, <2>3 DEF tail
    <3>3. s <= Len(U.log)
      BY <1>1, <2>1
    <3>. QED
      BY <3>1, <3>2, <3>3
<1>. QED
  BY <1>2, <1>3 DEF CallsOK

\* A line that names nothing keeps what is stale and adds nothing.
LEMMA StaleAppend ==
  ASSUME NEW log \in Seq(Lines), NEW line \in Lines, NEW t
  PROVE  StaleIn(log, t) \subseteq StaleIn(Append(log, line), t)
<1>1. /\ Len(log) \in Nat /\ Len(Append(log, line)) \in Nat /\ Len(log) <= Len(Append(log, line))
      /\ \A i \in 1..Len(log) : log[i].k = "element" => Append(log, line)[i] = log[i]
  OBVIOUS
<1>. QED
  BY <1>1, StaleGrows

\* What the tracer keeps but for the region it writes.
SameState(T, U) ==
  /\ U \in TraceInfos /\ U.handles = T.handles /\ U.varCount = T.varCount /\ U.retCount = T.retCount
  /\ U.outCount = T.outCount /\ U.outAliases = T.outAliases /\ U.log = T.log
  /\ U.timerStack = T.timerStack /\ U.running = T.running /\ U.dumping = T.dumping

\* The calls alive are not told by anything but the timers.
LEMMA FramesSame ==
  ASSUME NEW T, NEW U, NEW fr, FramesOK(T, fr), U.timerStack = T.timerStack, U.running = T.running
  PROVE  FramesOK(U, fr) /\ Outer(U, fr) = Outer(T, fr)
<1>1. Outer(U, fr) = Outer(T, fr)
  BY DEF Outer
<1>2. TimerFits(U)
  BY DEF TimerFits, FramesOK
<1>. QED
  BY <1>1, <1>2 DEF FramesOK

\* Regions begin and end.
LEMMA RegionKept ==
  ASSUME NEW T, NEW on, NEW fr, NEW cont, NEW t, NEW J, NEW m, NEW reg, TracerOK(T, on, fr, cont, t, J, m, reg),
         NEW U, SameState(T, U), NEW now, ~now => T.timerStack = <<>>, NEW reg2,
         U.inRegion => U.regionStart <= Len(U.log) /\ CallsIn(SubSeq(U.log, U.regionStart + 1, Len(U.log))) = reg2
  PROVE  TracerOK(U, now, fr, cont, t, J, m, reg2)
<1>1. HandlesFit(U) /\ ~U.dumping
  BY DEF SameState, TracerOK, HandlesFit
<1>2. FramesOK(U, fr) /\ OpenOK(U, fr, cont)
  <2>1. FramesOK(T, fr) /\ OpenOK(T, fr, cont) /\ U.timerStack = T.timerStack /\ U.running = T.running
        /\ U.log = T.log /\ U.outAliases = T.outAliases
    BY DEF SameState, TracerOK
  <2>2. FramesOK(U, fr) /\ Outer(U, fr) = Outer(T, fr)
    BY <2>1, FramesSame
  <2>. QED
    BY <2>1, <2>2 DEF OpenOK
<1>3. NamesOK(U, J) /\ BindOK(U, J, t)
  BY DEF SameState, TracerOK, NamesOK, BindOK
<1>4. FillsOf(U, fr) = FillsOf(T, fr) /\ FullOf(U, fr) = FullOf(T, fr)
  BY DEF SameState, FillsOf, FullOf, Outer
<1>5. ContentOK(U, t, cont, FillsOf(U, fr), FullOf(U, fr))
  BY <1>4 DEF SameState, TracerOK, ContentOK
<1>6. CallsOK(U, m, reg2)
  BY DEF SameState, TracerOK, CallsOK
<1>. QED
  BY <1>1, <1>2, <1>3, <1>5, <1>6 DEF SameState, TracerOK

\* A comment changes nothing but the log.
LEMMA CommentKeeps ==
  ASSUME NEW T, NEW on, NEW fr, NEW cont, NEW t, NEW J, NEW m, NEW reg, TracerOK(T, on, fr, cont, t, J, m, reg),
         NEW line \in Lines, line.k = "comment"
  PROVE  TracerOK([T EXCEPT !.log = Append(@, line)], on, fr, cont, t, J, m, reg)
<1>. DEFINE L == T.log
            M == Append(L, line)
            U == [T EXCEPT !.log = M]
<1>1. /\ HandlesFit(T) /\ ~T.dumping /\ (~on => T.timerStack = <<>>)
      /\ FramesOK(T, fr) /\ OpenOK(T, fr, cont)
      /\ NamesOK(T, J) /\ BindOK(T, J, t) /\ ContentOK(T, t, cont, FillsOf(T, fr), FullOf(T, fr))
      /\ CallsOK(T, m, reg)
  BY DEF TracerOK
<1>2. T \in TraceInfos /\ L \in Seq(Lines) /\ Len(L) \in Nat
  BY <1>1, InfoFields DEF HandlesFit
<1>3. M \in Seq(Lines) /\ Len(M) = Len(L) + 1 /\ M[Len(L) + 1] = line /\ \A i \in 1..Len(L) : M[i] = L[i]
  BY <1>2
<1>4. LineShows(Replay(L, Len(L)), line, Replay(M, Len(M)))
  BY <1>2, AppendShows
<1>5. StaleIn(L, t) \subseteq StaleIn(M, t)
  BY <1>2, StaleAppend
<1>6. UsedBy(line) = {} /\ BuffersUsedBy(line) = {} /\ DeclaredBy(line) = {} /\ BuffersDeclaredBy(line) = {}
  BY DEF UsedBy, BuffersUsedBy, DeclaredBy, BuffersDeclaredBy
<1>7. WellNamed(M, J) /\ AllDeclared(M) = AllDeclared(L) /\ AllBuffers(M) = AllBuffers(L)
  <2>1. NamedLine(line, AllDeclared(L), AllBuffers(L), J) /\ WellNamed(L, J)
    BY <1>1, <1>6 DEF NamedLine, NamesOK
  <2>. QED
    BY <1>2, <1>6, <2>1, AppendNamed
<1>. HIDE DEF M
<1>8. (\A v : EnvAt(M, v) = EnvAt(L, v)) /\ (\A o : BufAt(M, o) = BufAt(L, o))
  BY <1>4 DEF LineShows, EnvAt, BufAt
<1>9. U = [T EXCEPT !.log = Append(@, line)]
  BY DEF M
<1>. HIDE DEF U
<1>10. /\ U \in TraceInfos /\ U.log = M /\ U.handles = T.handles /\ U.varCount = T.varCount
       /\ U.retCount = T.retCount /\ U.outCount = T.outCount /\ U.outAliases = T.outAliases
       /\ U.timerStack = T.timerStack /\ U.running = T.running /\ ~U.dumping
       /\ U.inRegion = T.inRegion /\ U.regionStart = T.regionStart
  BY <1>1, <1>2, <1>3 DEF U, TraceInfos
<1>11. HandlesFit(U)
  BY <1>1, <1>10 DEF HandlesFit
<1>12. FramesOK(U, fr)
  BY <1>1, <1>10, FramesSame
<1>13. OpenOK(U, fr, cont)
  <2>1. Outer(U, fr) = Outer(T, fr)
    BY <1>10 DEF Outer
  <2>2. \A ix \in 1..Len(M) : ix \in 1..Len(L) \/ ix = Len(L) + 1
    BY <1>2, <1>3
  <2>3. ASSUME NEW o, OpenLine(L, o) PROVE OpenLine(M, o)
    <3>1. o.index \in 1..Len(L)
      BY <2>3 DEF OpenLine, OpenAt
    <3>2. o.index \in 1..Len(M) /\ M[o.index] = L[o.index]
      BY <3>1, <1>2, <1>3
    <3>3. \A i \in 1..Len(L) : i > o.index => L[i].k = "comment"
      BY <2>3 DEF OpenLine, OpenAt
    <3>4. OpenAt(L, o.index) /\ L[o.index] = CallLine(o.fn, o.uses, o.out, FALSE, 0, None, NoEffect)
          /\ \A i \in 1..Len(L) : i # o.index /\ L[i].k = "call" => L[i].done
      BY <2>3 DEF OpenLine
    <3>5. \A i \in 1..Len(M) : i > o.index => M[i].k = "comment"
      BY <2>2, <3>3, <1>3
    <3>6. OpenAt(M, o.index)
      BY <3>2, <3>4, <3>5 DEF OpenAt
    <3>7. \A i \in 1..Len(M) : i # o.index /\ M[i].k = "call" => M[i].done
      BY <2>2, <3>4, <1>3
    <3>. QED
      BY <3>2, <3>4, <3>6, <3>7 DEF OpenLine
  <2>4. (\A i \in 1..Len(L) : L[i].k = "call" => L[i].done) => (\A i \in 1..Len(M) : M[i].k = "call" => M[i].done)
    BY <2>2, <1>3
  <2>. QED
    BY <1>1, <1>10, <2>1, <2>3, <2>4 DEF OpenOK
<1>14. NamesOK(U, J)
  BY <1>1, <1>7, <1>10 DEF NamesOK
<1>15. BindOK(U, J, t)
  BY <1>1, <1>5, <1>8, <1>10 DEF BindOK
<1>16. ContentOK(U, t, cont, FillsOf(U, fr), FullOf(U, fr))
  <2>1. FillsOf(U, fr) = FillsOf(T, fr) /\ FullOf(U, fr) = FullOf(T, fr)
    BY <1>10 DEF FillsOf, FullOf, Outer
  <2>. QED
    BY <1>1, <1>8, <1>10, <2>1 DEF ContentOK
<1>17. CallsOK(U, m, reg)
  <2>1. AddCall(m, line) = m /\ AddCall(reg, line) = reg
    BY DEF AddCall
  <2>2. CallsOK(U, AddCall(m, line), IF T.inRegion THEN AddCall(reg, line) ELSE reg)
    BY <1>1, <1>10, CallsAppended DEF M
  <2>. QED
    BY <2>1, <2>2
<1>. QED
  BY <1>1, <1>9, <1>10, <1>11, <1>12, <1>13, <1>14, <1>15, <1>16, <1>17 DEF TracerOK

-----------------------------------------------------------------------------
(* A call from outside.                                                    *)

\* A container gets its buffer.
BufferMade(T, c, n, U) ==
  /\ T.outAliases[c] = None /\ n = T.outCount
  /\ U = [T EXCEPT !.outCount = n + 1, !.outAliases[c] = n, !.log = Append(T.log, OutDecl(n))]

\* It is the container's.
BufferIs(T, c, n, U) ==
  /\ U.log = Append(T.log, OutDecl(n)) /\ U.timerStack = <<>> /\ U.outAliases[c] = n /\ n \in Nat
  /\ U.handles = T.handles /\ U.inRegion = T.inRegion

\* Between calls of the tracer the state goes together.
LEMMA BufferKeeps ==
  ASSUME NEW T, NEW on, NEW fr, NEW cont, NEW t, NEW J, NEW m, NEW reg, TracerOK(T, on, fr, cont, t, J, m, reg),
         T.timerStack = <<>>, NEW c \in Containers, NEW n, NEW U, BufferMade(T, c, n, U)
  PROVE  TracerOK(U, on, fr, cont, t, J, m, reg) /\ BufferIs(T, c, n, U)
<1>. DEFINE L == T.log
            line == OutDecl(n)
            M == Append(L, line)
            A == [T.outAliases EXCEPT ![c] = n]
            k == n + 1
<1>0. /\ T.outAliases[c] = None /\ n = T.outCount
      /\ U = [T EXCEPT !.outCount = n + 1, !.outAliases[c] = n, !.log = Append(T.log, OutDecl(n))]
  BY DEF BufferMade
<1>1. /\ HandlesFit(T) /\ ~T.dumping /\ (~on => T.timerStack = <<>>)
      /\ FramesOK(T, fr) /\ OpenOK(T, fr, cont)
      /\ NamesOK(T, J) /\ BindOK(T, J, t) /\ ContentOK(T, t, cont, FillsOf(T, fr), FullOf(T, fr))
      /\ CallsOK(T, m, reg)
  BY DEF TracerOK
<1>2. T \in TraceInfos /\ L \in Seq(Lines) /\ Len(L) \in Nat /\ n \in Nat /\ T.outAliases \in [Containers -> Nat \cup {None}]
  BY <1>0, <1>1, InfoFields DEF HandlesFit
<1>3. line \in Lines /\ line.k = "out" /\ line.n = n /\ k \in Nat
  BY <1>2 DEF OutDecl, Lines
<1>4. A \in [Containers -> Nat \cup {None}] /\ A[c] = n /\ \A d \in Containers : d # c => A[d] = T.outAliases[d]
  BY <1>2
<1>5. U = [T EXCEPT !.outCount = k, !.outAliases = A, !.log = M]
  BY <1>0
<1>. HIDE DEF line
<1>6. M \in Seq(Lines) /\ Len(M) = Len(L) + 1 /\ M[Len(L) + 1] = line /\ \A i \in 1..Len(L) : M[i] = L[i]
  BY <1>2, <1>3
<1>7. LineShows(Replay(L, Len(L)), line, Replay(M, Len(M)))
  BY <1>2, <1>3, AppendShows
<1>8. StaleIn(L, t) \subseteq StaleIn(M, t)
  BY <1>2, <1>3, StaleAppend
<1>9. UsedBy(line) = {} /\ BuffersUsedBy(line) = {} /\ DeclaredBy(line) = {} /\ BuffersDeclaredBy(line) = {<<"out", n>>}
  BY <1>3 DEF UsedBy, BuffersUsedBy, DeclaredBy, BuffersDeclaredBy
<1>10. WellNamed(M, J) /\ AllDeclared(M) = AllDeclared(L) /\ AllBuffers(M) = AllBuffers(L) \cup {<<"out", n>>}
  <2>1. <<"out", n>> \notin AllBuffers(L)
    <3>1. \A o \in AllBuffers(L) : o[2] < IF o[1] = "out" THEN n ELSE T.retCount
      BY <1>0, <1>1 DEF NamesOK
    <3>2. <<"out", n>>[1] = "out" /\ <<"out", n>>[2] = n /\ ~ (n < n)
      BY <1>2
    <3>. QED
      BY <3>1, <3>2
  <2>2. NamedLine(line, AllDeclared(L), AllBuffers(L), J) /\ WellNamed(L, J)
    BY <1>1, <1>9, <2>1 DEF NamedLine, NamesOK
  <2>. QED
    <3>1. /\ WellNamed(M, J)
          /\ AllDeclared(M) = AllDeclared(L) \cup DeclaredBy(line)
          /\ AllBuffers(M) = AllBuffers(L) \cup BuffersDeclaredBy(line)
      BY <1>2, <1>3, <2>2, AppendNamed
    <3>. HIDE DEF M
    <3>. QED
      BY <3>1, <1>9
<1>. HIDE DEF M, A, k
<1>11. /\ \A v : EnvAt(M, v) = EnvAt(L, v)
       /\ \A o : BufAt(M, o) = IF o = <<"out", n>> THEN <<>> ELSE BufAt(L, o)
  BY <1>3, <1>7 DEF LineShows, EnvAt, BufAt
<1>12. /\ U \in TraceInfos /\ U.log = M /\ U.handles = T.handles /\ U.varCount = T.varCount
       /\ U.retCount = T.retCount /\ U.outCount = k /\ U.outAliases = A
       /\ U.timerStack = T.timerStack /\ U.running = T.running /\ ~U.dumping
       /\ U.inRegion = T.inRegion /\ U.regionStart = T.regionStart
  BY <1>1, <1>2, <1>3, <1>4, <1>5, <1>6 DEF TraceInfos
<1>13. HandlesFit(U)
  BY <1>1, <1>12 DEF HandlesFit
<1>14. FramesOK(U, fr)
  BY <1>1, <1>12, FramesSame
<1>15. OpenOK(U, fr, cont)
  <2>1. \A i \in 1..Len(M) : M[i].k = "call" => M[i].done
    <3>1. \A i \in 1..Len(L) : L[i].k = "call" => L[i].done
      BY <1>1 DEF OpenOK
    <3>2. \A i \in 1..Len(M) : i \in 1..Len(L) \/ i = Len(L) + 1
      BY <1>2, <1>6
    <3>. QED
      BY <3>1, <3>2, <1>3, <1>6
  <2>. QED
    BY <2>1, <1>12 DEF OpenOK
<1>16. NamesOK(U, J)
  <2>1. \A o \in AllBuffers(M) : o[2] < IF o[1] = "out" THEN k ELSE T.retCount
    <3>1. ASSUME NEW o \in AllBuffers(L) PROVE o[2] < IF o[1] = "out" THEN k ELSE T.retCount
      <4>0. o \in {"out", "ret"} \X Nat
        <5>1. ASSUME NEW i \in 1..Len(L) PROVE BuffersDeclaredBy(L[i]) \subseteq {"out", "ret"} \X Nat
          <6>1. L[i] \in Lines
            BY <1>2
          <6>. QED
            BY <6>1, LineFields DEF BuffersDeclaredBy
        <5>. QED
          BY <5>1 DEF AllBuffers, BuffersDeclared
      <4>1. o[2] < IF o[1] = "out" THEN n ELSE T.retCount
        BY <1>0, <1>1 DEF NamesOK
      <4>2. o[2] \in Nat
        BY <4>0
      <4>. QED
        BY <4>1, <4>2, <1>2 DEF k
    <3>2. <<"out", n>>[1] = "out" /\ <<"out", n>>[2] = n /\ n < k
      BY <1>2 DEF k
    <3>. QED
      BY <3>1, <3>2, <1>10
  <2>2. ASSUME NEW d \in Containers, A[d] # None PROVE A[d] < k /\ <<"out", A[d]>> \in AllBuffers(M)
    <3>1. CASE d = c
      BY <3>1, <1>2, <1>4, <1>10 DEF k
    <3>2. CASE d # c
      <4>1. A[d] = T.outAliases[d] /\ A[d] \in Nat /\ A[d] < n /\ <<"out", A[d]>> \in AllBuffers(L)
        BY <3>2, <2>2, <1>0, <1>1, <1>2, <1>4 DEF NamesOK
      <4>. QED
        BY <4>1, <1>2, <1>10 DEF k
    <3>. QED
      BY <3>1, <3>2
  <2>. QED
    BY <1>1, <1>10, <1>12, <2>1, <2>2 DEF NamesOK
<1>17. BindOK(U, J, t)
  BY <1>1, <1>8, <1>11, <1>12 DEF BindOK
<1>18. ContentOK(U, t, cont, FillsOf(U, fr), FullOf(U, fr))
  <2>1. FillsOf(U, fr) = None /\ FillsOf(T, fr) = None /\ FullOf(U, fr) = FullOf(T, fr)
    BY <1>12 DEF FillsOf, FullOf
  <2>2. /\ cont \in [Containers -> Seq(PointerOrNull)]
        /\ \A d \in Containers : cont[d] # <<>> => T.outAliases[d] # None
        /\ \A d, e \in Containers : T.outAliases[d] # None /\ T.outAliases[d] = T.outAliases[e] => d = e
        /\ \A d \in Containers : T.outAliases[d] # None /\ T.outAliases[d] \notin t =>
             BufAt(L, <<"out", T.outAliases[d]>>) = SubSeq(cont[d], 1, IF d = None THEN FullOf(T, fr) ELSE Len(cont[d]))
    BY <1>1, <2>1 DEF ContentOK
  <2>3. None \notin Nat /\ None \notin Containers
    BY TracingAssumption
  <2>4. \A d \in Containers : cont[d] # <<>> => A[d] # None
    BY <2>2, <2>3, <1>2, <1>4
  <2>5. ASSUME NEW d \in Containers, d # c, A[d] # None PROVE A[d] # n
    <3>1. A[d] = T.outAliases[d] /\ A[d] \in Nat /\ A[d] < n
      BY <2>5, <1>0, <1>1, <1>2, <1>4 DEF NamesOK
    <3>. QED
      BY <3>1, <1>2
  <2>6. \A d, e \in Containers : A[d] # None /\ A[d] = A[e] => d = e
    BY <2>2, <2>5, <1>4
  <2>7. ASSUME NEW d \in Containers, A[d] # None, A[d] \notin t
        PROVE  BufAt(M, <<"out", A[d]>>) = SubSeq(cont[d], 1, IF d = None THEN FullOf(T, fr) ELSE Len(cont[d]))
    <3>1. CASE d = c
      <4>1. cont[d] = <<>> /\ d # None /\ BufAt(M, <<"out", A[d]>>) = <<>>
        BY <3>1, <2>2, <2>3, <1>0, <1>4, <1>11
      <4>2. SubSeq(<<>>, 1, Len(<<>>)) = <<>>
        BY SubSeqEmpty
      <4>. QED
        BY <4>1, <4>2
    <3>2. CASE d # c
      <4>1. A[d] = T.outAliases[d] /\ <<"out", A[d]>> # <<"out", n>>
        BY <3>2, <2>5, <2>7, <1>4
      <4>. QED
        BY <4>1, <2>2, <2>7, <1>11
    <3>. QED
      BY <3>1, <3>2
  <2>. QED
    BY <2>1, <2>2, <2>4, <2>6, <2>7, <1>12 DEF ContentOK
<1>19. CallsOK(U, m, reg)
  <2>1. AddCall(m, line) = m /\ AddCall(reg, line) = reg
    BY <1>3 DEF AddCall
  <2>2. CallsOK(U, AddCall(m, line), IF T.inRegion THEN AddCall(reg, line) ELSE reg)
    BY <1>1, <1>3, <1>12, CallsAppended DEF M
  <2>. QED
    BY <2>1, <2>2
<1>20. TracerOK(U, on, fr, cont, t, J, m, reg)
  BY <1>1, <1>12, <1>13, <1>14, <1>15, <1>16, <1>17, <1>18, <1>19 DEF TracerOK
<1>. QED
  BY <1>2, <1>4, <1>12, <1>20 DEF M, line, BufferIs

\* The tracer with the line of a call that has begun, and its timer.
Opened(T, r, U) ==
  U = [T EXCEPT !.log = Append(T.log, CallLine(r.fn, r.uses, r.out, FALSE, 0, None, NoEffect)),
                !.timerStack = <<r.fn>>, !.running = {r.fn}]

\* A call from outside: its line, not yet returned.
LEMMA OpenKeeps ==
  ASSUME NEW T, NEW fr, NEW cont, NEW t, NEW J, NEW m, NEW reg, TracerOK(T, TRUE, fr, cont, t, J, m, reg),
         T.timerStack = <<>>, NEW r \in Frames, r.traced, ~r.nested, r.index = Len(T.log) + 1,
         \A w \in r.uses : \E p \in Pointers : w = T.handles[p] /\ w # 0,
         r.c = None => r.out = None,
         r.c # None => r.out = T.outAliases[r.c] /\ r.out # None /\ r.before = Len(cont[r.c]),
         NEW U, Opened(T, r, U)
  PROVE  TracerOK(U, TRUE, Append(fr, r), cont, t, J, Append(m, r.fn), IF T.inRegion THEN Append(reg, r.fn) ELSE reg)
<1>. DEFINE L == T.log
            line == CallLine(r.fn, r.uses, r.out, FALSE, 0, None, NoEffect)
            M == Append(L, line)
            more == Append(fr, r)
<1>1. /\ HandlesFit(T) /\ ~T.dumping
      /\ FramesOK(T, fr) /\ OpenOK(T, fr, cont)
      /\ NamesOK(T, J) /\ BindOK(T, J, t) /\ ContentOK(T, t, cont, FillsOf(T, fr), FullOf(T, fr))
      /\ CallsOK(T, m, reg)
  BY DEF TracerOK
<1>2. T \in TraceInfos /\ L \in Seq(Lines) /\ Len(L) \in Nat /\ T.outAliases \in [Containers -> Nat \cup {None}]
  BY <1>1, InfoFields DEF HandlesFit
<1>3. /\ r.fn \in Functions /\ r.uses \in SUBSET Nat /\ r.out \in Nat \cup {None} /\ r.c \in Containers \cup {None}
  BY FrameFields
<1>4. NoEffect \in Effects /\ NoEffect.filled = <<>>
  BY DEF NoEffect, Effects, PointerOrNull
<1>5. /\ line \in Lines /\ line.k = "call" /\ line.fn = r.fn /\ line.uses = r.uses /\ line.out = r.out
      /\ ~line.done /\ line.v = 0 /\ line.ret = None /\ line.fx = NoEffect
  BY <1>3, <1>4 DEF CallLine, Lines
<1>. HIDE DEF line
<1>6. M \in Seq(Lines) /\ Len(M) = Len(L) + 1 /\ M[Len(L) + 1] = line /\ \A i \in 1..Len(L) : M[i] = L[i]
  BY <1>2, <1>5
<1>7. LineShows(Replay(L, Len(L)), line, Replay(M, Len(M)))
  BY <1>2, <1>5, AppendShows
<1>8. StaleIn(L, t) \subseteq StaleIn(M, t)
  BY <1>2, <1>5, StaleAppend
<1>9. /\ UsedBy(line) = r.uses /\ BuffersUsedBy(line) = IF r.out # None THEN {<<"out", r.out>>} ELSE {}
      /\ DeclaredBy(line) = {} /\ BuffersDeclaredBy(line) = {}
  BY <1>5 DEF UsedBy, BuffersUsedBy, DeclaredBy, BuffersDeclaredBy
<1>10. WellNamed(M, J) /\ AllDeclared(M) = AllDeclared(L) /\ AllBuffers(M) = AllBuffers(L)
  <2>1. r.uses \subseteq AllDeclared(L) \cup J
    BY <1>1 DEF NamesOK
  <2>2. r.out # None => <<"out", r.out>> \in AllBuffers(L)
    BY <1>1, <1>3 DEF NamesOK
  <2>3. NamedLine(line, AllDeclared(L), AllBuffers(L), J) /\ WellNamed(L, J)
    BY <1>1, <1>9, <2>1, <2>2 DEF NamedLine, NamesOK
  <2>. QED
    <3>1. /\ WellNamed(M, J)
          /\ AllDeclared(M) = AllDeclared(L) \cup DeclaredBy(line)
          /\ AllBuffers(M) = AllBuffers(L) \cup BuffersDeclaredBy(line)
      BY <1>2, <1>5, <2>3, AppendNamed
    <3>. HIDE DEF M
    <3>. QED
      BY <3>1, <1>9
<1>. HIDE DEF M
<1>11. /\ \A v : EnvAt(M, v) = EnvAt(L, v)
       /\ \A o : BufAt(M, o) = BufAt(L, o)
  <2>1. \A v : EnvAt(M, v) = EnvAt(L, v)
    BY <1>5, <1>7 DEF LineShows, EnvAt
  <2>2. ASSUME NEW o PROVE BufAt(M, o) = BufAt(L, o)
    <3>1. BufAt(L, o) \in Seq(PointerOrNull)
      BY <1>2, BufType
    <3>2. BufAt(L, o) \o line.fx.filled = BufAt(L, o)
      BY <3>1, <1>4, <1>5, ConcatEmptySeq
    <3>. QED
      BY <3>2, <1>5, <1>7 DEF LineShows, BufAt
  <2>. QED
    BY <2>1, <2>2
<1>. DEFINE s == <<r.fn>>
            R == {r.fn}
<1>12. U = [T EXCEPT !.log = M, !.timerStack = s, !.running = R]
  BY DEF Opened, M, line
<1>a. s \in Seq(Functions) /\ R \in SUBSET Functions
  BY <1>3
<1>. HIDE DEF s, R
<1>13. /\ U \in TraceInfos /\ U.log = M /\ U.handles = T.handles /\ U.varCount = T.varCount
       /\ U.retCount = T.retCount /\ U.outCount = T.outCount /\ U.outAliases = T.outAliases
       /\ U.timerStack = <<r.fn>> /\ U.running = {r.fn} /\ ~U.dumping
       /\ U.inRegion = T.inRegion /\ U.regionStart = T.regionStart
  <2>1. /\ U \in TraceInfos /\ U.log = M /\ U.handles = T.handles /\ U.varCount = T.varCount
        /\ U.retCount = T.retCount /\ U.outCount = T.outCount /\ U.outAliases = T.outAliases
        /\ U.timerStack = s /\ U.running = R /\ ~U.dumping
        /\ U.inRegion = T.inRegion /\ U.regionStart = T.regionStart
    BY <1>1, <1>2, <1>a, <1>6, <1>12 DEF TraceInfos
  <2>. QED
    BY <2>1 DEF s, R
<1>14. HandlesFit(U)
  BY <1>1, <1>13 DEF HandlesFit
<1>15. /\ fr \in Seq(Frames) /\ Len(fr) \in Nat /\ \A i \in 1..Len(fr) : ~fr[i].traced
  <2>1. fr \in Seq(Frames) /\ \A i \in 1..Len(fr) : fr[i].traced <=> i > Len(fr) - Len(T.timerStack)
    BY <1>1 DEF FramesOK
  <2>2. Len(T.timerStack) = 0
    OBVIOUS
  <2>. QED
    BY <2>1, <2>2
<1>16. more \in Seq(Frames) /\ Len(more) = Len(fr) + 1 /\ more[Len(fr) + 1] = r /\ \A i \in 1..Len(fr) : more[i] = fr[i]
  BY <1>15
<1>. HIDE DEF more
<1>17. Len(U.timerStack) = 1 /\ U.timerStack[1] = r.fn /\ U.timerStack # <<>> /\ Last(U.timerStack) = r.fn
  BY <1>13 DEF Last
<1>18. Outer(U, more) = r
  <2>1. Len(more) - 1 + 1 = Len(fr) + 1
    BY <1>15, <1>16
  <2>. QED
    BY <2>1, <1>16, <1>17 DEF Outer
<1>19. FramesOK(U, more)
  <2>1. TimerFits(U)
    BY <1>13, <1>17 DEF TimerFits
  <2>2. \A i \in 1..Len(more) : more[i].traced <=> i > Len(more) - 1
    BY <1>15, <1>16
  <2>3. Len(U.timerStack) <= Len(more)
    BY <1>15, <1>16, <1>17
  <2>4. ASSUME NEW i \in 1..1 PROVE i = 1 /\ more[Len(more) - 1 + i] = r
    BY <1>15, <1>16
  <2>5. FrameOK(r, r.fn, 1, r)
    BY DEF FrameOK
  <2>6. \A i \in 1..1 : FrameOK(more[Len(more) - 1 + i], U.timerStack[i], i, Outer(U, more))
    BY <1>17, <1>18, <2>4, <2>5
  <2>. QED
    BY <1>16, <1>17, <2>1, <2>2, <2>3, <2>6 DEF FramesOK
<1>20. OpenOK(U, more, cont)
  <2>1. \A i \in 1..Len(L) : L[i].k = "call" => L[i].done
    BY <1>1 DEF OpenOK
  <2>2. \A i \in 1..Len(M) : i \in 1..Len(L) \/ i = Len(L) + 1
    BY <1>2, <1>6
  <2>3. OpenLine(M, r)
    <3>1. OpenAt(M, r.index)
      BY <1>2, <1>5, <1>6 DEF OpenAt
    <3>. QED
      BY <3>1, <2>1, <2>2, <1>6 DEF OpenLine, line
  <2>4. r.c # None => r.before <= Len(cont[r.c])
    <3>1. cont \in [Containers -> Seq(PointerOrNull)]
      BY <1>1 DEF ContentOK
    <3>2. r.c # None => Len(cont[r.c]) \in Nat
      BY <3>1, <1>3
    <3>. QED
      BY <3>2
  <2>. QED
    BY <2>3, <2>4, <1>13, <1>17, <1>18 DEF OpenOK
<1>21. NamesOK(U, J)
  BY <1>1, <1>10, <1>13 DEF NamesOK
<1>22. BindOK(U, J, t)
  BY <1>1, <1>8, <1>11, <1>13 DEF BindOK
<1>23. ContentOK(U, t, cont, FillsOf(U, more), FullOf(U, more))
  <2>1. FillsOf(U, more) = r.c /\ FullOf(U, more) = r.before /\ FillsOf(T, fr) = None
    BY <1>17, <1>18 DEF FillsOf, FullOf
  <2>2. None \notin Containers
    BY TracingAssumption
  <2>3. \A d \in Containers : (IF d = r.c THEN r.before ELSE Len(cont[d])) = Len(cont[d])
    BY <2>2
  <2>4. \A d \in Containers : (IF d = None THEN FullOf(T, fr) ELSE Len(cont[d])) = Len(cont[d])
    BY <2>2
  <2>. QED
    BY <1>1, <1>11, <1>13, <2>1, <2>3, <2>4 DEF ContentOK
<1>24. CallsOK(U, Append(m, r.fn), IF T.inRegion THEN Append(reg, r.fn) ELSE reg)
  <2>1. AddCall(m, line) = Append(m, r.fn) /\ AddCall(reg, line) = Append(reg, r.fn)
    BY <1>5 DEF AddCall
  <2>2. CallsOK(U, AddCall(m, line), IF T.inRegion THEN AddCall(reg, line) ELSE reg)
    BY <1>1, <1>5, <1>13, CallsAppended DEF M
  <2>. QED
    BY <2>1, <2>2
<1>. QED
  BY <1>13, <1>14, <1>19, <1>20, <1>21, <1>22, <1>23, <1>24 DEF TracerOK, more

-----------------------------------------------------------------------------
(* Calls inside calls, calls that are not traced, and containers that grow.*)

\* All but the last.
LEMMA FrontIs ==
  ASSUME NEW S, NEW s \in Seq(S), s # <<>>
  PROVE  /\ Front(s) \in Seq(S) /\ Len(Front(s)) = Len(s) - 1 /\ Len(s) \in Nat /\ Len(s) > 0
         /\ \A i \in 1..(Len(s) - 1) : Front(s)[i] = s[i]
         /\ Last(s) = s[Len(s)]
<1>1. Len(s) \in Nat /\ Len(s) > 0 /\ \A i \in 1..Len(s) : s[i] \in S
  OBVIOUS
<1>2. Front(s) \in Seq(S) /\ Len(Front(s)) = Len(s) - 1 /\ \A i \in 1..(Len(s) - 1) : Front(s)[i] = s[i]
  <2>. DEFINE n == Len(s) - 1
  <2>1. n \in Nat /\ n <= Len(s)
    BY <1>1
  <2>2. Front(s) = SubSeq(s, 1, n)
    BY DEF Front
  <2>. HIDE DEF n
  <2>3. SubSeq(s, 1, n) \in Seq(S) /\ Len(SubSeq(s, 1, n)) = n /\ \A i \in 1..n : SubSeq(s, 1, n)[i] = s[i]
    BY <2>1
  <2>4. Front(s) \in Seq(S) /\ Len(Front(s)) = n /\ \A i \in 1..n : Front(s)[i] = s[i]
    BY <2>2, <2>3
  <2>. QED
    BY <2>4 DEF n
<1>3. Last(s) = s[Len(s)]
  BY DEF Last
<1>. QED
  BY <1>1, <1>2, <1>3

\* The same calls alive but for nested ones: only the timers differ.
LEMMA FramesMoved ==
  ASSUME NEW T, NEW on, NEW fr, NEW cont, NEW t, NEW J, NEW m, NEW reg, TracerOK(T, on, fr, cont, t, J, m, reg),
         NEW U, HandlesFit(U), NEW s, NEW R, U = [T EXCEPT !.timerStack = s, !.running = R],
         NEW now, FramesOK(U, now), (U.timerStack = <<>> <=> T.timerStack = <<>>),
         U.timerStack # <<>> => Outer(U, now) = Outer(T, fr)
  PROVE  TracerOK(U, on, now, cont, t, J, m, reg)
<1>1. /\ HandlesFit(T) /\ ~T.dumping /\ (~on => T.timerStack = <<>>)
      /\ FramesOK(T, fr) /\ OpenOK(T, fr, cont)
      /\ NamesOK(T, J) /\ BindOK(T, J, t) /\ ContentOK(T, t, cont, FillsOf(T, fr), FullOf(T, fr))
      /\ CallsOK(T, m, reg)
  BY DEF TracerOK
<1>2. T \in TraceInfos
  BY <1>1 DEF HandlesFit
<1>3. /\ U.log = T.log /\ U.handles = T.handles /\ U.varCount = T.varCount
      /\ U.retCount = T.retCount /\ U.outCount = T.outCount /\ U.outAliases = T.outAliases
      /\ ~U.dumping /\ U.inRegion = T.inRegion /\ U.regionStart = T.regionStart
  BY <1>1, <1>2 DEF TraceInfos
<1>4. OpenOK(U, now, cont)
  BY <1>1, <1>3 DEF OpenOK
<1>5. NamesOK(U, J) /\ BindOK(U, J, t)
  BY <1>1, <1>3 DEF NamesOK, BindOK
<1>6. FillsOf(U, now) = FillsOf(T, fr) /\ FullOf(U, now) = FullOf(T, fr)
  BY DEF FillsOf, FullOf
<1>7. ContentOK(U, t, cont, FillsOf(U, now), FullOf(U, now))
  BY <1>1, <1>3, <1>6 DEF ContentOK
<1>8. CallsOK(U, m, reg)
  BY <1>1, <1>3 DEF CallsOK
<1>. QED
  BY <1>1, <1>3, <1>4, <1>5, <1>7, <1>8 DEF TracerOK

\* A call inside another one.
LEMMA NestedKeeps ==
  ASSUME NEW T, NEW on, NEW fr, NEW cont, NEW t, NEW J, NEW m, NEW reg, TracerOK(T, on, fr, cont, t, J, m, reg),
         T.timerStack # <<>>, NEW r \in Frames, r.traced, r.nested, r.c # None => Last(fr).c = r.c
  PROVE  TracerOK(pushTimer(T, r.fn), on, Append(fr, r), cont, t, J, m, reg)
<1>. DEFINE s == Append(T.timerStack, r.fn)
            R == (T.running \ (IF T.timerStack = <<>> THEN {} ELSE {Last(T.timerStack)})) \cup {r.fn}
            U == pushTimer(T, r.fn)
            more == Append(fr, r)
            n == Len(T.timerStack)
            k == Len(fr)
<1>1. HandlesFit(T) /\ FramesOK(T, fr)
  BY DEF TracerOK
<1>2. T \in TraceInfos /\ T.timerStack \in Seq(Functions) /\ T.running \in SUBSET Functions /\ r.fn \in Functions
      /\ \A p \in Pointers : T.handles[p] \in 0..T.varCount
  BY <1>1, InfoFields, FrameFields DEF HandlesFit
<1>3. /\ fr \in Seq(Frames) /\ k \in Nat /\ n \in Nat /\ n <= k /\ n > 0
      /\ \A i \in 1..k : fr[i].traced <=> i > k - n
      /\ \A i \in 1..n : FrameOK(fr[k - n + i], T.timerStack[i], i, Outer(T, fr))
      /\ T.running = {Last(T.timerStack)}
  <2>1. /\ fr \in Seq(Frames) /\ n <= k
        /\ \A i \in 1..k : fr[i].traced <=> i > k - n
        /\ \A i \in 1..n : FrameOK(fr[k - n + i], T.timerStack[i], i, Outer(T, fr))
        /\ TimerFits(T)
    BY <1>1, Zenon DEF FramesOK
  <2>2. k \in Nat /\ n \in Nat /\ n > 0
    BY <1>2, <2>1
  <2>3. T.running = {Last(T.timerStack)}
    BY <2>1 DEF TimerFits
  <2>. QED
    BY <2>1, <2>2, <2>3
<1>n. k \in Nat /\ n \in Nat /\ n <= k /\ n > 0
  BY <1>3
<1>4. s \in Seq(Functions) /\ s # <<>> /\ Last(s) = r.fn /\ Len(s) = n + 1 /\ s[n + 1] = r.fn
      /\ \A i \in 1..n : s[i] = T.timerStack[i]
  BY <1>2, FrontOfAppend
<1>5. R = {r.fn} /\ R \in SUBSET Functions
  BY <1>2, <1>3
<1>6. U = [T EXCEPT !.timerStack = s, !.running = R]
  BY DEF pushTimer
<1>. HIDE DEF U, s, R
<1>7. U \in TraceInfos /\ U.timerStack = s /\ U.running = R /\ U.handles = T.handles /\ U.varCount = T.varCount
  BY <1>2, <1>4, <1>5, <1>6 DEF TraceInfos
<1>8. HandlesFit(U) /\ TimerFits(U)
  BY <1>2, <1>4, <1>5, <1>7 DEF HandlesFit, TimerFits
<1>9. more \in Seq(Frames) /\ Len(more) = k + 1 /\ more[k + 1] = r /\ \A i \in 1..k : more[i] = fr[i]
  BY <1>3
<1>10. r.c # None => r.c = Outer(T, fr).c
  <2>1. Last(fr) = fr[k - n + n] /\ n \in 1..n
    BY <1>3 DEF Last
  <2>2. FrameOK(fr[k - n + n], T.timerStack[n], n, Outer(T, fr))
    BY <2>1, <1>3
  <2>. QED
    BY <2>1, <2>2 DEF FrameOK
<1>. HIDE DEF more, n, k
<1>11. Outer(U, more) = Outer(T, fr)
  <2>1. (k + 1) - (n + 1) + 1 = k - n + 1 /\ k - n + 1 \in 1..k
    BY <1>3
  <2>2. Len(U.timerStack) = n + 1 /\ Len(more) = k + 1
    BY <1>4, <1>7, <1>9
  <2>3. Outer(U, more) = more[k - n + 1]
    BY <2>1, <2>2 DEF Outer
  <2>. QED
    BY <2>1, <2>3, <1>9 DEF Outer, n, k
<1>12. FramesOK(U, more)
  <2>1. \A i \in 1..(k + 1) : more[i].traced <=> i > (k + 1) - (n + 1)
    <3>. TAKE i \in 1..(k + 1)
    <3>1. CASE i = k + 1
      BY <3>1, <1>3, <1>9
    <3>2. CASE i # k + 1
      <4>1. i \in 1..k /\ ((k + 1) - (n + 1) = k - n)
        BY <3>2, <1>n
      <4>. QED
        BY <4>1, <1>3, <1>9
    <3>. QED
      BY <3>1, <3>2
  <2>2. ASSUME NEW i \in 1..(n + 1)
        PROVE  FrameOK(more[(k + 1) - (n + 1) + i], s[i], i, Outer(U, more))
    <3>1. CASE i = n + 1
      <4>1. (k + 1) - (n + 1) + i = k + 1 /\ i > 1
        BY <3>1, <1>3
      <4>. QED
        BY <3>1, <4>1, <1>4, <1>9, <1>10, <1>11 DEF FrameOK
    <3>2. CASE i # n + 1
      <4>1. (k + 1) - (n + 1) + i = k - n + i /\ k - n + i \in 1..k /\ i \in 1..n
        BY <3>2, <1>n
      <4>2. more[k - n + i] = fr[k - n + i] /\ s[i] = T.timerStack[i]
        BY <4>1, <1>4, <1>9
      <4>. QED
        BY <4>1, <4>2, <1>3, <1>11
    <3>. QED
      BY <3>1, <3>2
  <2>3. Len(U.timerStack) = n + 1 /\ Len(more) = k + 1 /\ n + 1 <= k + 1
    BY <1>3, <1>4, <1>7, <1>9
  <2>. QED
    BY <1>7, <1>8, <1>9, <2>1, <2>2, <2>3 DEF FramesOK
<1>13. U.timerStack # <<>>
  BY <1>4, <1>7
<1>14. TracerOK(U, on, more, cont, t, J, m, reg)
  BY <1>6, <1>8, <1>11, <1>12, <1>13, FramesMoved
<1>. QED
  BY <1>14 DEF U, more

\* Its return.
LEMMA NestedEnds ==
  ASSUME NEW T, NEW on, NEW fr, NEW cont, NEW t, NEW J, NEW m, NEW reg, TracerOK(T, on, fr, cont, t, J, m, reg),
         T.timerStack # <<>>, fr # <<>>, Last(fr).nested, Last(fr).traced
  PROVE  TracerOK(popTimer(T), on, Front(fr), cont, t, J, m, reg)
<1>. DEFINE s == Front(T.timerStack)
            U == popTimer(T)
            R == U.running
            less == Front(fr)
            n == Len(T.timerStack)
            k == Len(fr)
<1>1. HandlesFit(T) /\ FramesOK(T, fr) /\ TimerFits(T)
  BY DEF TracerOK, FramesOK
<1>2. T.timerStack \in Seq(Functions) /\ n \in Nat /\ n > 0
  BY <1>1, InfoFields DEF HandlesFit
<1>3. /\ HandlesFit(U) /\ TimerFits(U) /\ U.timerStack = s
      /\ U = [T EXCEPT !.timerStack = s, !.running = R]
      /\ s \in Seq(Functions) /\ Len(s) = n - 1 /\ \A i \in 1..(n - 1) : s[i] = T.timerStack[i]
  BY <1>1, Popped
<1>4. /\ fr \in Seq(Frames) /\ k \in Nat /\ n <= k
      /\ \A i \in 1..k : fr[i].traced <=> i > k - n
      /\ \A i \in 1..n : FrameOK(fr[k - n + i], T.timerStack[i], i, Outer(T, fr))
  <2>1. /\ fr \in Seq(Frames) /\ n <= k
        /\ \A i \in 1..k : fr[i].traced <=> i > k - n
        /\ \A i \in 1..n : FrameOK(fr[k - n + i], T.timerStack[i], i, Outer(T, fr))
    BY <1>1, Zenon DEF FramesOK
  <2>2. k \in Nat
    BY <2>1
  <2>. QED
    BY <2>1, <2>2
<1>5. less \in Seq(Frames) /\ Len(less) = k - 1 /\ k > 0 /\ (\A i \in 1..(k - 1) : less[i] = fr[i]) /\ Last(fr) = fr[k]
  BY <1>4, FrontIs
<1>. HIDE DEF U, s, R, less, n, k
<1>6. n > 1
  <2>1. n \in 1..n /\ k - n + n = k
    BY <1>2, <1>4
  <2>2. FrameOK(Last(fr), T.timerStack[n], n, Outer(T, fr))
    BY <2>1, <1>4, <1>5
  <2>. QED
    BY <2>2, <1>2 DEF FrameOK
<1>7. Outer(U, less) = Outer(T, fr)
  <2>1. (k - 1) - (n - 1) + 1 = k - n + 1 /\ k - n + 1 \in 1..(k - 1)
    BY <1>2, <1>4, <1>6
  <2>2. Len(U.timerStack) = n - 1 /\ Len(less) = k - 1
    BY <1>3, <1>5
  <2>3. Outer(U, less) = less[k - n + 1]
    BY <2>1, <2>2 DEF Outer
  <2>. QED
    BY <2>1, <2>3, <1>5 DEF Outer, n, k
<1>8. FramesOK(U, less)
  <2>1. ASSUME NEW i \in 1..(k - 1) PROVE less[i].traced <=> i > (k - 1) - (n - 1)
    <3>1. i \in 1..k /\ ((k - 1) - (n - 1) = k - n)
      BY <1>2, <1>4
    <3>. QED
      BY <3>1, <1>4, <1>5
  <2>2. ASSUME NEW i \in 1..(n - 1)
        PROVE  FrameOK(less[(k - 1) - (n - 1) + i], s[i], i, Outer(U, less))
    <3>1. (k - 1) - (n - 1) + i = k - n + i /\ k - n + i \in 1..(k - 1) /\ i \in 1..n
      BY <1>2, <1>4
    <3>2. less[k - n + i] = fr[k - n + i] /\ s[i] = T.timerStack[i]
      BY <3>1, <1>3, <1>5
    <3>. QED
      BY <3>1, <3>2, <1>4, <1>7
  <2>3. Len(U.timerStack) = n - 1 /\ Len(less) = k - 1 /\ n - 1 <= k - 1
    BY <1>2, <1>3, <1>4, <1>5
  <2>. QED
    BY <1>3, <1>5, <2>1, <2>2, <2>3 DEF FramesOK
<1>9. U.timerStack # <<>>
  <2>1. Len(U.timerStack) # 0
    BY <1>2, <1>3, <1>6
  <2>. QED
    BY <2>1
<1>10. TracerOK(U, on, less, cont, t, J, m, reg)
  <2>1. HandlesFit(U) /\ U = [T EXCEPT !.timerStack = s, !.running = R]
    BY <1>3
  <2>. QED
    BY <1>7, <1>8, <1>9, <2>1, FramesMoved
<1>. QED
  BY <1>10 DEF U, less

\* A call the tracer does not know.
LEMMA UntracedKeeps ==
  ASSUME NEW T, NEW on, NEW fr, NEW cont, NEW t, NEW J, NEW m, NEW reg, TracerOK(T, on, fr, cont, t, J, m, reg),
         T.timerStack = <<>>
  PROVE  /\ TracerOK(T, on, Append(fr, Untraced), cont, t, J, m, reg)
         /\ fr # <<>> => TracerOK(T, on, Front(fr), cont, t, J, m, reg)
<1>1. HandlesFit(T) /\ FramesOK(T, fr) /\ TimerFits(T)
  BY DEF TracerOK, FramesOK
<1>2. T \in TraceInfos
  BY <1>1 DEF HandlesFit
<1>3. T = [T EXCEPT !.timerStack = T.timerStack, !.running = T.running]
  BY <1>2 DEF TraceInfos
<1>4. Len(T.timerStack) = 0
  OBVIOUS
<1>5. fr \in Seq(Frames) /\ Len(fr) \in Nat /\ \A i \in 1..Len(fr) : ~fr[i].traced
  <2>1. fr \in Seq(Frames) /\ \A i \in 1..Len(fr) : fr[i].traced <=> i > Len(fr) - Len(T.timerStack)
    BY <1>1 DEF FramesOK
  <2>. QED
    BY <2>1, <1>4
<1>6. ASSUME NEW now \in Seq(Frames), \A i \in 1..Len(now) : ~now[i].traced
      PROVE  TracerOK(T, on, now, cont, t, J, m, reg)
  <2>1. \A i \in 1..Len(now) : now[i].traced <=> i > Len(now) - 0
    BY <1>6
  <2>2. 0 <= Len(now) /\ \A i \in 1..0 : FALSE
    BY <1>6
  <2>3. FramesOK(T, now)
    BY <1>1, <1>4, <1>6, <2>1, <2>2 DEF FramesOK
  <2>. QED
    BY <1>1, <1>3, <2>3, FramesMoved
<1>7. TracerOK(T, on, Append(fr, Untraced), cont, t, J, m, reg)
  <2>1. Untraced \in Frames /\ ~Untraced.traced
    BY DEF Frames, Untraced
  <2>2. Append(fr, Untraced) \in Seq(Frames) /\ \A i \in 1..Len(Append(fr, Untraced)) : ~Append(fr, Untraced)[i].traced
    <3>. DEFINE more == Append(fr, Untraced)
    <3>1. more \in Seq(Frames) /\ Len(more) = Len(fr) + 1 /\ more[Len(fr) + 1] = Untraced
          /\ \A i \in 1..Len(fr) : more[i] = fr[i]
      BY <1>5, <2>1
    <3>. HIDE DEF more
    <3>2. \A i \in 1..Len(more) : i = Len(fr) + 1 \/ i \in 1..Len(fr)
      BY <3>1, <1>5
    <3>3. \A i \in 1..Len(more) : ~more[i].traced
      BY <3>1, <3>2, <1>5, <2>1
    <3>. QED
      BY <3>1, <3>3 DEF more
  <2>. QED
    BY <2>2, <1>6
<1>8. ASSUME fr # <<>> PROVE TracerOK(T, on, Front(fr), cont, t, J, m, reg)
  <2>1. Front(fr) \in Seq(Frames) /\ Len(Front(fr)) = Len(fr) - 1 /\ \A i \in 1..(Len(fr) - 1) : Front(fr)[i] = fr[i]
    BY <1>5, <1>8, FrontIs
  <2>2. \A i \in 1..Len(Front(fr)) : ~Front(fr)[i].traced
    BY <2>1, <1>5
  <2>. QED
    BY <2>1, <2>2, <1>6
<1>. QED
  BY <1>7, <1>8

\* The call in progress adds to its container.
LEMMA ContainerGrows ==
  ASSUME NEW T, NEW on, NEW fr, NEW cont, NEW t, NEW J, NEW m, NEW reg, TracerOK(T, on, fr, cont, t, J, m, reg),
         T.timerStack # <<>>, NEW c \in Containers, c = Outer(T, fr).c, NEW new \in Seq(PointerOrNull)
  PROVE  TracerOK(T, on, fr, [cont EXCEPT ![c] = cont[c] \o new], t, J, m, reg)
<1>. DEFINE now == [cont EXCEPT ![c] = cont[c] \o new]
            n == Outer(T, fr).before
<1>1. /\ OpenOK(T, fr, cont) /\ ContentOK(T, t, cont, FillsOf(T, fr), FullOf(T, fr)) /\ FramesOK(T, fr) /\ HandlesFit(T)
  BY DEF TracerOK
<1>2. c # None
  BY TracingAssumption
<1>3. /\ cont \in [Containers -> Seq(PointerOrNull)]
      /\ \A d \in Containers : cont[d] # <<>> => T.outAliases[d] # None
      /\ \A d, e \in Containers : T.outAliases[d] # None /\ T.outAliases[d] = T.outAliases[e] => d = e
      /\ \A d \in Containers : T.outAliases[d] # None /\ T.outAliases[d] \notin t =>
           BufAt(T.log, <<"out", T.outAliases[d]>>) = SubSeq(cont[d], 1, IF d = c THEN n ELSE Len(cont[d]))
  BY <1>1 DEF ContentOK, FillsOf, FullOf
<1>4. now \in [Containers -> Seq(PointerOrNull)] /\ now[c] = cont[c] \o new /\ \A d \in Containers : d # c => now[d] = cont[d]
  BY <1>3
<1>. HIDE DEF now
<1>5. T.outAliases[c] # None /\ n <= Len(cont[c])
  BY <1>1, <1>2 DEF OpenOK
<1>6. n \in Nat
  <2>1. /\ Len(fr) \in Nat /\ Len(T.timerStack) \in 0..Len(fr) /\ Len(T.timerStack) # 0
    BY <1>1, TracedAre
  <2>2. Outer(T, fr) \in Frames /\ Outer(T, fr).traced
    <3>1. Len(fr) - Len(T.timerStack) + 1 \in 1..Len(fr)
      BY <2>1
    <3>2. fr \in Seq(Frames) /\ \A i \in 1..Len(fr) : fr[i].traced <=> i > Len(fr) - Len(T.timerStack)
      BY <1>1 DEF FramesOK
    <3>. DEFINE k == Len(fr)
                d == Len(T.timerStack)
                i == k - d + 1
    <3>a. k \in Nat /\ d \in 0..k
      BY <2>1
    <3>. HIDE DEF k, d
    <3>b. i > k - d
      BY <3>a
    <3>3. i > Len(fr) - Len(T.timerStack)
      BY <3>b DEF k, d
    <3>4. i \in 1..Len(fr)
      BY <3>1 DEF k, d
    <3>. HIDE DEF i
    <3>5. fr[i] \in Frames /\ fr[i].traced
      BY <3>2, <3>3, <3>4
    <3>. QED
      BY <3>5 DEF Outer, i, k, d
  <2>. QED
    BY <2>2, FrameFields
<1>7. SubSeq(now[c], 1, n) = SubSeq(cont[c], 1, n) /\ n <= Len(now[c])
  <2>1. cont[c] \in Seq(PointerOrNull)
    BY <1>3
  <2>2. n <= Len(now[c])
    BY <2>1, <1>4, <1>5, <1>6
  <2>3. CASE n = 0
    BY <2>2, <2>3, SubSeqEmpty
  <2>4. CASE n # 0
    <3>1. 1 \in 1..Len(cont[c]) /\ n \in 1..Len(cont[c])
      BY <2>1, <2>4, <1>5, <1>6
    <3>. QED
      BY <2>1, <2>2, <3>1, <1>4, SubSeqOfConcat1
  <2>. QED
    BY <2>3, <2>4
<1>8. OpenOK(T, fr, now)
  BY <1>1, <1>7 DEF OpenOK
<1>9. ContentOK(T, t, now, FillsOf(T, fr), FullOf(T, fr))
  <2>1. FillsOf(T, fr) = c /\ FullOf(T, fr) = n
    BY DEF FillsOf, FullOf
  <2>2. ASSUME NEW d \in Containers
        PROVE  SubSeq(now[d], 1, IF d = c THEN n ELSE Len(now[d])) = SubSeq(cont[d], 1, IF d = c THEN n ELSE Len(cont[d]))
    BY <1>4, <1>7
  <2>. QED
    BY <1>3, <1>4, <1>5, <2>1, <2>2 DEF ContentOK
<1>. QED
  BY <1>8, <1>9 DEF TracerOK, now

-----------------------------------------------------------------------------
(* The outermost call returns: its line, its buffer, its names.            *)

\* What is known when the outermost call returns.
Returning(T, fr, cont, r, fx, now, ret) ==
  /\ T.timerStack # <<>> /\ Len(T.timerStack) = 1 /\ r = Outer(T, fr) /\ r \in Frames /\ r.traced
  /\ fx \in Effects /\ now \in Seq(PointerOrNull)
  /\ now = IF r.c = None THEN <<>> ELSE cont[r.c]
  /\ fx.filled = IF r.c = None THEN <<>> ELSE Filled(r, now)
  /\ ret = None \/ ret = T.retCount

\* Its line closes the one it opened.
LEMMA ReturnCloses ==
  ASSUME NEW T, NEW fr, NEW cont, NEW t, NEW J, NEW m, NEW reg, TracerOK(T, TRUE, fr, cont, t, J, m, reg),
         NEW r, NEW fx, NEW now, NEW ret, Returning(T, fr, cont, r, fx, now, ret),
         NEW v, NEW returned, NEW filled, NEW b, NEW U, Leaves(T, r, fx, now, ret, v, returned, filled, b, U),
         NEW line, line = CallLine(r.fn, r.uses, r.out, TRUE, v, ret, fx)
  PROVE  CallEnd(T.log, r.index, line, T.varCount, returned, b, filled)
<1>. DEFINE L == T.log
            ix == r.index
            open == CallLine(r.fn, r.uses, r.out, FALSE, 0, None, NoEffect)
<1>1. OpenOK(T, fr, cont) /\ NamesOK(T, J) /\ T.timerStack # <<>> /\ r = Outer(T, fr) /\ (ret = None \/ ret = T.retCount)
  BY DEF Returning, TracerOK
<1>2. OpenAt(L, ix) /\ L[ix] = open
  BY <1>1 DEF OpenOK, OpenLine
<1>3. L[ix].out = r.out /\ L[ix].uses = r.uses
  BY <1>2 DEF CallLine
<1>4. line.k = "call" /\ line.out = r.out /\ line.uses = r.uses /\ line.v = v /\ line.ret = ret
  BY DEF CallLine
<1>5. line \in Lines /\ U.log = Ended(L, ix, line, returned, filled)
  BY DEF Leaves
<1>6. /\ ElementLines(filled, b, <<"out", r.out>>) /\ (r.out = None => filled = <<>>)
      /\ ElementLines(returned, T.varCount, <<"ret", ret>>) /\ (ret = None => returned = <<>>)
      /\ (v # 0 => v = T.varCount + Len(returned) + 1)
      /\ b = T.varCount + Len(returned) + IF v = 0 THEN 0 ELSE 1
  BY DEF Leaves
<1>7. ret # None => <<"ret", ret>> \notin AllBuffers(L)
  <2>1. T.retCount \in Nat
    BY InfoFields DEF Returning, TracerOK, HandlesFit
  <2>2. \A o \in AllBuffers(L) : o[2] < IF o[1] = "out" THEN T.outCount ELSE T.retCount
    BY <1>1 DEF NamesOK
  <2>3. <<"ret", T.retCount>>[1] # "out" /\ <<"ret", T.retCount>>[2] = T.retCount /\ ~ (T.retCount < T.retCount)
    BY <2>1
  <2>. QED
    BY <2>2, <2>3, <1>1
<1>8. \A w \in AllDeclared(L) : w # 0 /\ w <= T.varCount
  BY <1>1 DEF NamesOK
<1>9. CallEnd(L, ix, line, T.varCount, returned, b, filled)
  BY <1>2, <1>3, <1>4, <1>5, <1>6, <1>7, <1>8 DEF CallEnd
<1>. QED
  BY <1>9

\* Its container's buffer is what the container holds now.
LEMMA ReturnFills ==
  ASSUME NEW T, NEW fr, NEW cont, NEW t, NEW J, NEW m, NEW reg, TracerOK(T, TRUE, fr, cont, t, J, m, reg),
         NEW r, NEW fx, NEW now, NEW ret, Returning(T, fr, cont, r, fx, now, ret), r.out # None, r.out \notin t
  PROVE  BufAt(T.log, <<"out", r.out>>) \o fx.filled = now
<1>1. /\ OpenOK(T, fr, cont) /\ ContentOK(T, t, cont, FillsOf(T, fr), FullOf(T, fr)) /\ T.timerStack # <<>>
      /\ r = Outer(T, fr) /\ r \in Frames /\ r.traced /\ now \in Seq(PointerOrNull)
  BY DEF Returning, TracerOK
<1>2. r.c # None /\ r.c \in Containers /\ r.before \in Nat
  BY <1>1, FrameFields DEF OpenOK
<1>3. r.out = T.outAliases[r.c] /\ r.before <= Len(cont[r.c])
  BY <1>1, <1>2 DEF OpenOK
<1>4. now = cont[r.c] /\ fx.filled = SubSeq(now, r.before + 1, Len(now))
  BY <1>2 DEF Returning, Filled
<1>5. BufAt(T.log, <<"out", r.out>>) = SubSeq(now, 1, r.before)
  BY <1>1, <1>2, <1>3, <1>4 DEF ContentOK, FillsOf, FullOf
<1>. DEFINE n == r.before
<1>6. n \in 0..Len(now)
  BY <1>1, <1>2, <1>3, <1>4
<1>. HIDE DEF n
<1>7. SubSeq(now, 1, n) \o SubSeq(now, n + 1, Len(now)) = now
  <2>1. SubSeq(now, 1, n) \in Seq(PointerOrNull) /\ Len(SubSeq(now, 1, n)) = n
        /\ \A i \in 1..n : SubSeq(now, 1, n)[i] = now[i]
    BY <1>1, <1>6
  <2>2. SubSeq(now, n + 1, Len(now)) \in Seq(PointerOrNull) /\ Len(SubSeq(now, n + 1, Len(now))) = Len(now) - n
        /\ \A i \in 1..(Len(now) - n) : SubSeq(now, n + 1, Len(now))[i] = now[n + i]
    BY <1>1, <1>6
  <2>. DEFINE x == SubSeq(now, 1, n)
              y == SubSeq(now, n + 1, Len(now))
  <2>. HIDE DEF x, y
  <2>3. x \o y \in Seq(PointerOrNull) /\ Len(x \o y) = Len(now)
        /\ (\A i \in 1..n : (x \o y)[i] = now[i]) /\ \A j \in 1..(Len(now) - n) : (x \o y)[n + j] = now[n + j]
    <3>1. /\ x \in Seq(PointerOrNull) /\ y \in Seq(PointerOrNull) /\ Len(x) = n /\ Len(y) = Len(now) - n
          /\ (\A i \in 1..n : x[i] = now[i]) /\ \A j \in 1..(Len(now) - n) : y[j] = now[n + j]
      BY <2>1, <2>2 DEF x, y
    <3>2. /\ x \o y \in Seq(PointerOrNull) /\ Len(x \o y) = Len(x) + Len(y)
          /\ (\A i \in 1..Len(x) : (x \o y)[i] = x[i]) /\ \A j \in 1..Len(y) : (x \o y)[Len(x) + j] = y[j]
      BY <3>1, Joined
    <3>3. n + (Len(now) - n) = Len(now)
      BY <1>1, <1>6
    <3>. QED
      BY <3>1, <3>2, <3>3
  <2>4. ASSUME NEW i \in 1..Len(now) PROVE (x \o y)[i] = now[i]
    <3>1. CASE i <= n
      BY <3>1, <2>3, <1>6
    <3>2. CASE i > n
      <4>1. (i - n) \in 1..(Len(now) - n) /\ n + (i - n) = i
        BY <3>2, <1>1, <1>6
      <4>. QED
        BY <4>1, <2>3
    <3>3. i <= n \/ i > n
      BY <1>6
    <3>. QED
      BY <3>1, <3>2, <3>3
  <2>5. x \o y = now
    BY <2>3, <2>4, <1>1, SeqEqual
  <2>. QED
    BY <2>5 DEF x, y
<1>. QED
  BY <1>5, <1>7, <1>4 DEF n

\* The log is as well named as before.
LEMMA ReturnNames ==
  ASSUME NEW T, HandlesFit(T), NEW J, NamesOK(T, J), NEW r, NEW fx, NEW now, NEW ret, ret = None \/ ret = T.retCount,
         NEW v, NEW returned, NEW filled, NEW b, NEW U, Leaves(T, r, fx, now, ret, v, returned, filled, b, U),
         NEW line \in Lines, line.k = "call", line.v = v, line.ret = ret,
         CallEnd(T.log, r.index, line, T.varCount, returned, b, filled),
         U.log = Ended(T.log, r.index, line, returned, filled)
  PROVE  NamesOK(U, J)
<1>. DEFINE L == T.log
            M == U.log
            a == T.varCount
            names == EndNames(line, a, returned, b, filled)
<1>1. L \in Seq(Lines) /\ a \in Nat /\ T.retCount \in Nat /\ T.outCount \in Nat
  BY InfoFields DEF HandlesFit
<1>2. WellNamed(M, J) /\ AllDeclared(M) = AllDeclared(L) \cup names
      /\ AllBuffers(M) = AllBuffers(L) \cup BuffersDeclaredBy(line)
  <2>1. WellNamed(L, J)
    BY DEF NamesOK
  <2>. DEFINE E == Ended(L, r.index, line, returned, filled)
  <2>2. WellNamed(E, J) /\ AllDeclared(E) = AllDeclared(L) \cup names
        /\ AllBuffers(E) = AllBuffers(L) \cup BuffersDeclaredBy(line)
    BY <1>1, <2>1, EndNamed
  <2>3. M = E
    OBVIOUS
  <2>. HIDE DEF E, M, names
  <2>. QED
    BY <2>2, <2>3
<1>3. /\ v \in Nat /\ (v # 0 => v = a + Len(returned) + 1) /\ b = a + Len(returned) + IF v = 0 THEN 0 ELSE 1
      /\ U.varCount = b + Len(filled) /\ returned \in Seq(Lines) /\ filled \in Seq(Lines)
      /\ U.outCount = T.outCount /\ U.outAliases = T.outAliases
      /\ U.retCount = T.retCount + IF ret = None THEN 0 ELSE 1
      /\ \A p \in Pointers : T.handles[p] # 0 => U.handles[p] = T.handles[p]
  BY DEF Leaves, ElementLines
<1>. DEFINE x == Len(returned)
            y == Len(filled)
<1>4. x \in Nat /\ y \in Nat /\ v \in Nat /\ (v # 0 => v = a + x + 1) /\ b = a + x + IF v = 0 THEN 0 ELSE 1
  BY <1>3
<1>5. names = (({v} \ {0}) \cup (b + 1)..(b + y)) \cup (a + 1)..(a + x)
  BY DEF EndNames
<1>. HIDE DEF M, names, x, y
<1>6. \A w \in names : w # 0 /\ w <= b + y
  BY <1>1, <1>4, <1>5
<1>7. \A w \in AllDeclared(M) : w # 0 /\ w <= U.varCount
  <2>1. ASSUME NEW w \in AllDeclared(L) PROVE w # 0 /\ w <= b + y
    <3>1. AllDeclared(L) \subseteq Nat
      <4>1. ASSUME NEW i \in 1..Len(L) PROVE DeclaredBy(L[i]) \subseteq Nat
        <5>1. L[i] \in Lines
          BY <1>1
        <5>. QED
          BY <5>1, LineFields DEF DeclaredBy
      <4>. QED
        BY <4>1 DEF AllDeclared, Declared
    <3>2. w # 0 /\ w <= a /\ w \in Nat
      BY <3>1 DEF NamesOK
    <3>. QED
      BY <3>2, <1>1, <1>4
  <2>2. U.varCount = b + y
    BY <1>3 DEF y
  <2>. QED
    BY <2>1, <2>2, <1>2, <1>6
<1>8. \A o \in AllBuffers(M) : o[2] < IF o[1] = "out" THEN U.outCount ELSE U.retCount
  <2>1. ASSUME NEW o \in AllBuffers(L) PROVE o[2] < IF o[1] = "out" THEN U.outCount ELSE U.retCount
    <3>0. o \in {"out", "ret"} \X Nat
      <4>1. ASSUME NEW i \in 1..Len(L) PROVE BuffersDeclaredBy(L[i]) \subseteq {"out", "ret"} \X Nat
        <5>1. L[i] \in Lines
          BY <1>1
        <5>. QED
          BY <5>1, LineFields DEF BuffersDeclaredBy
      <4>. QED
        BY <4>1 DEF AllBuffers, BuffersDeclared
    <3>1. o[2] < IF o[1] = "out" THEN T.outCount ELSE T.retCount
      BY DEF NamesOK
    <3>2. o[2] \in Nat
      BY <3>0
    <3>. QED
      BY <3>1, <3>2, <1>1, <1>3
  <2>2. ASSUME NEW o \in BuffersDeclaredBy(line) PROVE o[2] < IF o[1] = "out" THEN U.outCount ELSE U.retCount
    <3>1. ret # None /\ o = <<"ret", ret>>
      BY DEF BuffersDeclaredBy
    <3>2. o[2] = T.retCount /\ o[1] # "out"
      BY <3>1
    <3>. QED
      BY <3>1, <3>2, <1>1, <1>3
  <2>. QED
    BY <2>1, <2>2, <1>2
<1>9. \A p \in Pointers : U.handles[p] # 0 => U.handles[p] \in AllDeclared(M) \cup J
  <2>. TAKE p \in Pointers
  <2>. HAVE U.handles[p] # 0
  <2>1. CASE T.handles[p] # 0
    BY <2>1, <1>2, <1>3 DEF NamesOK
  <2>2. CASE T.handles[p] = 0
    <3>1. \/ \E j \in 1..x : U.handles[p] = a + j
          \/ v # 0 /\ U.handles[p] = v
          \/ \E j \in 1..y : U.handles[p] = b + j
      BY <2>2 DEF Leaves, x, y
    <3>2. \A j \in 1..x : a + j \in (a + 1)..(a + x)
      BY <1>1, <1>4
    <3>3. \A j \in 1..y : b + j \in (b + 1)..(b + y)
      BY <1>1, <1>4
    <3>. QED
      BY <3>1, <3>2, <3>3, <1>2, <1>5
  <2>. QED
    BY <2>1, <2>2
<1>10. \A c \in Containers : U.outAliases[c] # None =>
         U.outAliases[c] < U.outCount /\ <<"out", U.outAliases[c]>> \in AllBuffers(M)
  BY <1>2, <1>3 DEF NamesOK
<1>. QED
  BY <1>2, <1>7, <1>8, <1>9, <1>10 DEF NamesOK, M

-----------------------------------------------------------------------------
(* The outermost call returns: bindings, contents, calls.                  *)

-----------------------------------------------------------------------------

\* The names given to what the call returned and filled are bound to it.
LEMMA ReturnBinds ==
  ASSUME NEW T, HandlesFit(T), NEW J, NEW t, NamesOK(T, J), BindOK(T, J, t), NEW r, NEW fx, NEW now, NEW ret,
         NEW v, NEW returned, NEW filled, NEW b, NEW U, Leaves(T, r, fx, now, ret, v, returned, filled, b, U),
         NEW line \in Lines, line.k = "call", line.v = v, line.ret = ret, line.out = r.out, line.fx = fx,
         CallEnd(T.log, r.index, line, T.varCount, returned, b, filled),
         U.log = Ended(T.log, r.index, line, returned, filled),
         r.out # None /\ r.out \notin t => BufAt(T.log, <<"out", r.out>>) \o fx.filled = now
  PROVE  BindOK(U, J, t)
<1>. DEFINE L == T.log
            M == U.log
            a == T.varCount
            E == Ended(L, r.index, line, returned, filled)
            names == EndNames(line, a, returned, b, filled)
<1>1. L \in Seq(Lines) /\ Len(L) \in Nat /\ a \in Nat
  BY InfoFields DEF HandlesFit
<1>2. EndShows(L, line, a, returned, b, filled, E) /\ EndLines(L, r.index, line, returned, filled, E)
  BY <1>1, EndShown, EndIsLines
<1>3. M = E
  OBVIOUS
<1>. HIDE DEF M, E
<1>4. EndShows(L, line, a, returned, b, filled, M) /\ EndLines(L, r.index, line, returned, filled, M)
  BY <1>2, <1>3
<1>5. /\ \A j \in 1..Len(returned) : EnvAt(M, a + j) = At(fx.vec, returned[j].i, None)
      /\ \A j \in 1..Len(filled) : EnvAt(M, b + j) = At(BufAt(M, <<"out", r.out>>), filled[j].i, None)
      /\ v # 0 => EnvAt(M, v) = fx.result
      /\ \A w : w \notin names => EnvAt(M, w) = EnvAt(L, w)
      /\ r.out # None => BufAt(M, <<"out", r.out>>) = BufAt(L, <<"out", r.out>>) \o fx.filled
  BY <1>4 DEF EndShows
<1>. DEFINE x == Len(returned)
            y == Len(filled)
<1>6. /\ v \in Nat /\ (v # 0 => v = a + x + 1) /\ b = a + x + IF v = 0 THEN 0 ELSE 1
      /\ x \in Nat /\ y \in Nat
      /\ \A p \in Pointers : T.handles[p] # 0 => U.handles[p] = T.handles[p]
      /\ ElementLines(filled, b, <<"out", r.out>>) /\ (r.out = None => filled = <<>>)
  BY DEF Leaves, ElementLines
<1>7. names = (({v} \ {0}) \cup (b + 1)..(b + y)) \cup (a + 1)..(a + x)
  BY DEF EndNames
<1>8. StaleIn(L, t) \subseteq StaleIn(M, t)
  <2>1. Len(M) \in Nat /\ Len(L) <= Len(M) /\ \A i \in 1..Len(L) : i # r.index => M[i] = L[i]
    BY <1>1, <1>4, <1>6 DEF EndLines
  <2>2. L[r.index].k = "call"
    BY DEF CallEnd, OpenAt
  <2>3. \A i \in 1..Len(L) : L[i].k = "element" => M[i] = L[i]
    BY <2>1, <2>2
  <2>. HIDE DEF L
  <2>. QED
    BY <2>1, <2>3, <1>1, StaleGrows
<1>. HIDE DEF names, x, y
<1>9. ASSUME NEW p \in Pointers, U.handles[p] \notin ({0} \cup J) \cup StaleIn(M, t)
      PROVE  EnvAt(M, U.handles[p]) = p
  <2>1. CASE T.handles[p] # 0
    <3>1. U.handles[p] = T.handles[p]
      BY <2>1, <1>6
    <3>2. EnvAt(L, T.handles[p]) = p
      BY <2>1, <3>1, <1>8, <1>9 DEF BindOK
    <3>3. T.handles[p] \notin names
      <4>1. T.handles[p] \in Nat /\ T.handles[p] <= a /\ T.handles[p] # 0
        BY <2>1, <1>1 DEF HandlesFit
      <4>. QED
        BY <4>1, <1>1, <1>6, <1>7
    <3>. QED
      BY <3>1, <3>2, <3>3, <1>5
  <2>2. CASE T.handles[p] = 0
    <3>1. U.handles[p] # 0
      BY <1>9
    <3>2. \/ \E j \in 1..x :
               U.handles[p] = a + j /\ returned[j].i \in 1..Len(fx.vec) /\ fx.vec[returned[j].i] = p
          \/ v # 0 /\ U.handles[p] = v /\ fx.result = p
          \/ \E j \in 1..y : U.handles[p] = b + j /\ filled[j].i \in 1..Len(now) /\ now[filled[j].i] = p
      BY <2>2, <3>1 DEF Leaves, x, y
    <3>3. CASE \E j \in 1..x :
                 U.handles[p] = a + j /\ returned[j].i \in 1..Len(fx.vec) /\ fx.vec[returned[j].i] = p
      <4>1. PICK j \in 1..x : U.handles[p] = a + j /\ returned[j].i \in 1..Len(fx.vec) /\ fx.vec[returned[j].i] = p
        BY <3>3
      <4>2. EnvAt(M, a + j) = At(fx.vec, returned[j].i, None)
        BY <1>5 DEF x
      <4>3. fx.vec \in Seq(PointerOrNull)
        BY LineFields DEF Effects
      <4>. QED
        BY <4>1, <4>2, <4>3 DEF At
    <3>4. CASE v # 0 /\ U.handles[p] = v /\ fx.result = p
      BY <3>4, <1>5
    <3>5. CASE \E j \in 1..y : U.handles[p] = b + j /\ filled[j].i \in 1..Len(now) /\ now[filled[j].i] = p
      <4>1. PICK j \in 1..y : U.handles[p] = b + j /\ filled[j].i \in 1..Len(now) /\ now[filled[j].i] = p
        BY <3>5
      <4>2. filled # <<>> /\ r.out # None
        BY <1>6 DEF y
      <4>3. filled[j].k = "element" /\ filled[j].buf = <<"out", r.out>> /\ filled[j].v = b + j
        BY <1>6 DEF ElementLines, y
      <4>4. M[Len(L) + j] = filled[j] /\ Len(L) + j \in 1..Len(M)
        <5>1. M[Len(L) + j] = filled[j] /\ Len(M) = Len(L) + y + x
          BY <1>4 DEF EndLines, x, y
        <5>2. Len(L) + j \in 1..(Len(L) + y + x)
          BY <1>1, <1>6
        <5>. QED
          BY <5>1, <5>2
      <4>5. r.out \notin t
        <5>1. SUFFICES ASSUME r.out \in t PROVE b + j \in StaleIn(M, t)
          BY <4>1, <1>9
        <5>2. b + j # 0
          BY <1>1, <1>6
        <5>3. b + j \in DeclaredBy(M[Len(L) + j])
          BY <4>3, <4>4, <5>2 DEF DeclaredBy
        <5>4. M[Len(L) + j].k = "element" /\ M[Len(L) + j].buf \in {<<"out", o>> : o \in t}
          BY <4>3, <4>4, <5>1
        <5>. QED
          BY <4>4, <5>3, <5>4 DEF StaleIn
      <4>6. EnvAt(M, b + j) = At(now, filled[j].i, None)
        BY <4>2, <4>5, <1>5 DEF y
      <4>7. EnvAt(M, b + j) = p
        <5>1. now = BufAt(L, <<"out", r.out>>) \o fx.filled
          BY <4>2, <4>5
        <5>2. now \in Seq(PointerOrNull)
          <6>1. BufAt(L, <<"out", r.out>>) \in Seq(PointerOrNull) /\ fx.filled \in Seq(PointerOrNull)
            BY <1>1, BufType, LineFields DEF Effects
          <6>. QED
            BY <5>1, <6>1, ConcatProperties
        <5>3. DOMAIN now = 1..Len(now)
          BY <5>2
        <5>. QED
          BY <4>1, <4>6, <5>3 DEF At
      <4>. QED
        BY <4>1, <4>7
    <3>. QED
      BY <3>2, <3>3, <3>4, <3>5
  <2>. QED
    BY <2>1, <2>2
<1>. QED
  BY <1>9 DEF BindOK, M

\* A call fills its container's buffer, if it has a container.
FillsOwn(T, cont, r, now) ==
  /\ r.c = None => r.out = None
  /\ r.c # None => r.c \in Containers /\ r.out = T.outAliases[r.c] /\ now = cont[r.c]

\* Only its buffer changes.
FillsOnly(T, U, r, fx) ==
  \A o : o[1] = "out" => BufAt(U.log, o) =
    IF r.out # None /\ o = <<"out", r.out>> THEN BufAt(T.log, o) \o fx.filled ELSE BufAt(T.log, o)

\* The buffers are as the containers.
LEMMA ReturnContent ==
  ASSUME NEW T, HandlesFit(T), NEW t, NEW cont, NEW r, ContentOK(T, t, cont, r.c, r.before), NEW fx, NEW now,
         NEW U, U.outAliases = T.outAliases, NEW fr, U.timerStack = <<>>,
         FillsOwn(T, cont, r, now), FillsOnly(T, U, r, fx),
         r.out # None /\ r.out \notin t => BufAt(T.log, <<"out", r.out>>) \o fx.filled = now
  PROVE  ContentOK(U, t, cont, FillsOf(U, fr), FullOf(U, fr))
<1>1. FillsOf(U, fr) = None /\ None \notin Containers
  BY TracingAssumption DEF FillsOf
<1>2. /\ cont \in [Containers -> Seq(PointerOrNull)]
      /\ \A d \in Containers : cont[d] # <<>> => T.outAliases[d] # None
      /\ \A d, e \in Containers : T.outAliases[d] # None /\ T.outAliases[d] = T.outAliases[e] => d = e
      /\ \A d \in Containers : T.outAliases[d] # None /\ T.outAliases[d] \notin t =>
           BufAt(T.log, <<"out", T.outAliases[d]>>) = SubSeq(cont[d], 1, IF d = r.c THEN r.before ELSE Len(cont[d]))
  BY DEF ContentOK
<1>a. /\ r.c = None => r.out = None
      /\ r.c # None => r.c \in Containers /\ r.out = T.outAliases[r.c] /\ now = cont[r.c]
      /\ \A o : o[1] = "out" => BufAt(U.log, o) =
           IF r.out # None /\ o = <<"out", r.out>> THEN BufAt(T.log, o) \o fx.filled ELSE BufAt(T.log, o)
  BY DEF FillsOwn, FillsOnly
<1>3. ASSUME NEW d \in Containers, T.outAliases[d] # None, T.outAliases[d] \notin t
      PROVE  BufAt(U.log, <<"out", T.outAliases[d]>>) = SubSeq(cont[d], 1, IF d = None THEN FullOf(U, fr) ELSE Len(cont[d]))
  <2>. DEFINE o == <<"out", T.outAliases[d]>>
  <2>1. o[1] = "out" /\ d # None
    BY <1>1
  <2>2. SubSeq(cont[d], 1, Len(cont[d])) = cont[d]
    BY <1>2
  <2>3. CASE d = r.c
    <3>1. r.c # None /\ r.out = T.outAliases[d] /\ now = cont[d]
      BY <2>1, <2>3, <1>a
    <3>2. BufAt(U.log, o) = BufAt(T.log, o) \o fx.filled
      BY <2>1, <3>1, <1>3, <1>a
    <3>. QED
      BY <2>1, <2>2, <3>1, <3>2, <1>3
  <2>4. CASE d # r.c
    <3>1. r.out # None => T.outAliases[d] # r.out
      BY <2>4, <1>2, <1>a
    <3>2. BufAt(U.log, o) = BufAt(T.log, o)
      BY <2>1, <3>1, <1>a
    <3>. QED
      BY <2>1, <2>4, <3>2, <1>2, <1>3
  <2>. QED
    BY <2>3, <2>4
<1>. QED
  BY <1>1, <1>2, <1>3 DEF ContentOK

\* The calls logged are the same, and those of the region.
LEMMA ReturnCalls ==
  ASSUME NEW T, HandlesFit(T), NEW m, NEW reg, CallsOK(T, m, reg), NEW ix \in 1..Len(T.log), T.log[ix].k = "call",
         NEW line \in Lines, line.k = "call", line.fn = T.log[ix].fn, NEW returned, NEW filled,
         NEW U, EndLines(T.log, ix, line, returned, filled, U.log), Len(returned) \in Nat, Len(filled) \in Nat,
         U.inRegion = T.inRegion, U.regionStart = T.regionStart
  PROVE  CallsOK(U, m, reg)
<1>. DEFINE L == T.log
            M == U.log
            s == T.regionStart
<1>1. L \in Seq(Lines) /\ s \in Nat /\ Len(L) \in Nat
  BY InfoFields DEF HandlesFit
<1>2. /\ M \in Seq(Lines) /\ Len(L) <= Len(M) /\ Len(M) \in Nat
      /\ \A i \in 1..Len(L) : M[i].k = L[i].k /\ (L[i].k = "call" => M[i].fn = L[i].fn)
      /\ \A i \in 1..Len(M) : i > Len(L) => M[i].k # "call"
  <2>1. /\ M \in Seq(Lines) /\ Len(M) = Len(L) + Len(filled) + Len(returned) /\ M[ix] = line
        /\ \A i \in 1..Len(L) : i # ix => M[i] = L[i]
        /\ \A i \in 1..Len(M) : i > Len(L) => M[i].k = "element"
    BY DEF EndLines
  <2>2. Len(L) <= Len(M) /\ Len(M) \in Nat
    BY <2>1, <1>1
  <2>3. ASSUME NEW i \in 1..Len(L) PROVE M[i].k = L[i].k /\ (L[i].k = "call" => M[i].fn = L[i].fn)
    BY <2>1
  <2>4. \A i \in 1..Len(M) : i > Len(L) => M[i].k # "call"
    BY <2>1
  <2>. QED
    BY <2>1, <2>2, <2>3, <2>4
<1>3. CallsIn(M) = CallsIn(L)
  BY <1>1, <1>2, CallsInSame DEF SameCalls
<1>. HIDE DEF M, L, s
<1>4. ASSUME s <= Len(L) PROVE CallsIn(SubSeq(M, s + 1, Len(M))) = CallsIn(SubSeq(L, s + 1, Len(L)))
  <2>1. /\ SubSeq(M, s + 1, Len(M)) \in Seq(Lines) /\ Len(SubSeq(M, s + 1, Len(M))) = Len(M) - s
        /\ \A i \in 1..(Len(M) - s) : SubSeq(M, s + 1, Len(M))[i] = M[s + i]
    BY <1>1, <1>2, <1>4
  <2>2. /\ SubSeq(L, s + 1, Len(L)) \in Seq(Lines) /\ Len(SubSeq(L, s + 1, Len(L))) = Len(L) - s
        /\ \A i \in 1..(Len(L) - s) : SubSeq(L, s + 1, Len(L))[i] = L[s + i]
    BY <1>1, <1>4
  <2>. DEFINE x == SubSeq(L, s + 1, Len(L))
              y == SubSeq(M, s + 1, Len(M))
  <2>. HIDE DEF x, y
  <2>3. /\ x \in Seq(Lines) /\ y \in Seq(Lines) /\ Len(x) = Len(L) - s /\ Len(y) = Len(M) - s
        /\ (\A i \in 1..(Len(L) - s) : x[i] = L[s + i]) /\ \A i \in 1..(Len(M) - s) : y[i] = M[s + i]
    BY <2>1, <2>2 DEF x, y
  <2>4. Len(x) <= Len(y)
    BY <2>3, <1>1, <1>2
  <2>5. ASSUME NEW i \in 1..Len(x) PROVE y[i].k = x[i].k /\ (x[i].k = "call" => y[i].fn = x[i].fn)
    <3>1. s + i \in 1..Len(L) /\ i \in 1..(Len(L) - s) /\ i \in 1..(Len(M) - s)
      BY <2>3, <1>1, <1>2
    <3>. QED
      BY <3>1, <2>3, <1>2
  <2>6. ASSUME NEW i \in 1..Len(y), i > Len(x) PROVE y[i].k # "call"
    <3>1. s + i \in 1..Len(M) /\ s + i > Len(L) /\ i \in 1..(Len(M) - s)
      BY <2>3, <2>6, <1>1, <1>2, <1>4
    <3>. QED
      BY <3>1, <2>3, <1>2
  <2>7. SameCalls(x, y)
    BY <2>3, <2>4, <2>5, <2>6 DEF SameCalls
  <2>. QED
    BY <2>7, CallsInSame DEF x, y
<1>. QED
  <2>1. CallsIn(L) = m /\ (T.inRegion => s <= Len(L) /\ CallsIn(SubSeq(L, s + 1, Len(L))) = reg)
    BY DEF CallsOK, L, s
  <2>2. T.inRegion => s <= Len(M)
    BY <2>1, <1>1, <1>2
  <2>. QED
    BY <2>1, <2>2, <1>3, <1>4 DEF CallsOK, M, s

-----------------------------------------------------------------------------
(* The outermost call returns: the invariant.                              *)

-----------------------------------------------------------------------------

\* The outermost call returns.
LEMMA ReturnKeeps ==
  ASSUME NEW T, NEW fr, NEW cont, NEW t, NEW J, NEW m, NEW reg, TracerOK(T, TRUE, fr, cont, t, J, m, reg),
         NEW r, NEW fx, NEW now, NEW ret, Returning(T, fr, cont, r, fx, now, ret),
         NEW v, NEW returned, NEW filled, NEW b, NEW U, Leaves(T, r, fx, now, ret, v, returned, filled, b, U)
  PROVE  TracerOK(U, TRUE, Front(fr), cont, t, J, m, reg)
<1>. DEFINE line == CallLine(r.fn, r.uses, r.out, TRUE, v, ret, fx)
            less == Front(fr)
            ix == r.index
<1>1. /\ HandlesFit(T) /\ ~T.dumping /\ FramesOK(T, fr) /\ OpenOK(T, fr, cont)
      /\ NamesOK(T, J) /\ BindOK(T, J, t) /\ ContentOK(T, t, cont, FillsOf(T, fr), FullOf(T, fr))
      /\ CallsOK(T, m, reg)
      /\ T.timerStack # <<>> /\ Len(T.timerStack) = 1 /\ r = Outer(T, fr) /\ r \in Frames /\ r.traced
      /\ (ret = None \/ ret = T.retCount) /\ now = IF r.c = None THEN <<>> ELSE cont[r.c]
  BY DEF Returning, TracerOK
<1>0. /\ line \in Lines /\ U.log = Ended(T.log, ix, line, returned, filled)
      /\ line.k = "call" /\ line.fn = r.fn /\ line.out = r.out /\ line.done
      /\ line.v = v /\ line.ret = ret /\ line.fx = fx
  <2>1. line \in Lines /\ U.log = Ended(T.log, ix, line, returned, filled)
    BY DEF Leaves
  <2>2. /\ line.k = "call" /\ line.fn = r.fn /\ line.out = r.out /\ line.done
        /\ line.v = v /\ line.ret = ret /\ line.fx = fx
    BY DEF CallLine
  <2>. QED
    BY <2>1, <2>2
<1>l. line = CallLine(r.fn, r.uses, r.out, TRUE, v, ret, fx)
  OBVIOUS
<1>. HIDE DEF line
<1>c. CallEnd(T.log, r.index, line, T.varCount, returned, b, filled)
  BY <1>l, ReturnCloses
<1>f. T.log[r.index].fn = r.fn
  BY <1>1 DEF OpenOK, OpenLine, CallLine
<1>2. /\ CallEnd(T.log, ix, line, T.varCount, returned, b, filled)
      /\ U.log = Ended(T.log, ix, line, returned, filled)
      /\ line \in Lines /\ line.k = "call" /\ line.fn = r.fn /\ line.out = r.out /\ line.done
      /\ line.v = v /\ line.ret = ret /\ line.fx = fx /\ T.log[ix].fn = r.fn
  BY <1>0, <1>c, <1>f
<1>3. /\ HandlesFit(U) /\ ~U.dumping /\ U.outAliases = T.outAliases /\ U.inRegion = T.inRegion
      /\ U.regionStart = T.regionStart /\ U.timerStack = Front(T.timerStack) /\ TimerFits(U)
      /\ returned \in Seq(Lines) /\ filled \in Seq(Lines)
  BY DEF Leaves, ElementLines
<1>4. T.log \in Seq(Lines) /\ T.timerStack \in Seq(Functions) /\ Len(T.log) \in Nat
  BY <1>1, InfoFields DEF HandlesFit
<1>5. /\ EndLines(T.log, ix, line, returned, filled, U.log)
      /\ EndShows(T.log, line, T.varCount, returned, b, filled, U.log)
  <2>. DEFINE E == Ended(T.log, ix, line, returned, filled)
  <2>1. /\ EndLines(T.log, ix, line, returned, filled, E)
        /\ EndShows(T.log, line, T.varCount, returned, b, filled, E)
    BY <1>2, <1>4, EndIsLines, EndShown
  <2>2. U.log = E
    BY <1>2
  <2>. HIDE DEF E
  <2>. QED
    BY <2>1, <2>2
<1>6. OpenLine(T.log, r)
  BY <1>1 DEF OpenOK
<1>7. ix \in 1..Len(T.log) /\ T.log[ix].k = "call"
  BY <1>6 DEF OpenLine, OpenAt
<1>8. U.timerStack = <<>> /\ Len(U.timerStack) = 0
  <2>1. U.timerStack \in Seq(Functions) /\ Len(U.timerStack) = 0
    BY <1>1, <1>3, <1>4, FrontIs
  <2>. QED
    BY <2>1
<1>9. FramesOK(U, less)
  <2>1. fr \in Seq(Frames) /\ Len(fr) \in Nat /\ 1 <= Len(fr) /\ \A i \in 1..Len(fr) : fr[i].traced <=> i > Len(fr) - 1
    BY <1>1 DEF FramesOK
  <2>2. fr # <<>>
    BY <2>1
  <2>3. less \in Seq(Frames) /\ Len(less) = Len(fr) - 1 /\ \A i \in 1..(Len(fr) - 1) : less[i] = fr[i]
    BY <2>1, <2>2, FrontIs
  <2>. HIDE DEF less
  <2>4. ASSUME NEW i \in 1..Len(less) PROVE less[i].traced <=> i > Len(less) - 0
    <3>1. i \in 1..Len(fr) /\ i \in 1..(Len(fr) - 1) /\ ~ (i > Len(fr) - 1) /\ ~ (i > Len(less) - 0)
      BY <2>1, <2>3
    <3>. QED
      BY <3>1, <2>1, <2>3
  <2>5. 0 <= Len(less) /\ \A i \in 1..0 : FALSE
    BY <2>1, <2>3
  <2>. QED
    BY <1>3, <1>8, <2>3, <2>4, <2>5 DEF FramesOK
<1>10. OpenOK(U, less, cont)
  <2>1. /\ U.log[ix] = line /\ Len(U.log) = Len(T.log) + Len(filled) + Len(returned)
        /\ \A i \in 1..Len(T.log) : i # ix => U.log[i] = T.log[i]
        /\ \A i \in 1..Len(U.log) : i > Len(T.log) => U.log[i].k = "element"
    BY <1>5 DEF EndLines
  <2>2. ASSUME NEW i \in 1..Len(U.log), U.log[i].k = "call" PROVE U.log[i].done
    <3>1. CASE i = ix
      BY <3>1, <2>1, <1>2
    <3>2. CASE i # ix
      <4>1. ~ (i > Len(T.log))
        BY <2>1, <2>2
      <4>2. i \in 1..Len(T.log)
        BY <4>1, <1>4
      <4>. QED
        BY <3>2, <4>2, <2>1, <2>2, <1>6 DEF OpenLine
    <3>. QED
      BY <3>1, <3>2
  <2>. QED
    BY <2>2, <1>8 DEF OpenOK
<1>11. NamesOK(U, J)
  BY <1>1, <1>2, ReturnNames
<1>12. r.out # None /\ r.out \notin t => BufAt(T.log, <<"out", r.out>>) \o fx.filled = now
  <2>. SUFFICES ASSUME r.out # None, r.out \notin t PROVE BufAt(T.log, <<"out", r.out>>) \o fx.filled = now
    OBVIOUS
  <2>. QED
    BY ReturnFills
<1>13. BindOK(U, J, t)
  BY <1>1, <1>2, <1>12, ReturnBinds
<1>14. ContentOK(U, t, cont, FillsOf(U, less), FullOf(U, less))
  <2>1. ContentOK(T, t, cont, r.c, r.before)
    BY <1>1 DEF FillsOf, FullOf
  <2>2. FillsOwn(T, cont, r, now)
    BY <1>1, FrameFields DEF OpenOK, FillsOwn
  <2>3. ASSUME NEW o, o[1] = "out"
        PROVE  BufAt(U.log, o) = IF r.out # None /\ o = <<"out", r.out>> THEN BufAt(T.log, o) \o fx.filled ELSE BufAt(T.log, o)
    <3>1. o # <<"ret", line.ret>>
      BY <2>3
    <3>. QED
      BY <3>1, <1>2, <1>5 DEF EndShows
  <2>4. FillsOnly(T, U, r, fx)
    BY <2>3 DEF FillsOnly
  <2>5. HandlesFit(T) /\ U.outAliases = T.outAliases /\ U.timerStack = <<>>
    BY <1>1, <1>3, <1>8
  <2>. HIDE DEF less
  <2>. QED
    BY <1>12, <2>1, <2>2, <2>4, <2>5, ReturnContent
<1>15. CallsOK(U, m, reg)
  <2>1. Len(returned) \in Nat /\ Len(filled) \in Nat /\ line.fn = T.log[ix].fn
    BY <1>2, <1>3
  <2>. QED
    BY <1>1, <1>2, <1>3, <1>5, <1>7, <2>1, ReturnCalls
<1>. QED
  BY <1>3, <1>9, <1>10, <1>11, <1>13, <1>14, <1>15 DEF TracerOK

\* Any call returns, when its container has grown by what it appended.
LEMMA AnyReturns ==
  ASSUME NEW T, NEW on, NEW fr, NEW cont, NEW t, NEW J, NEW m, NEW reg, TracerOK(T, on, fr, cont, t, J, m, reg),
         fr # <<>>, NEW r, r = Last(fr), r.traced, NEW now, now = IF r.c = None THEN <<>> ELSE cont[r.c],
         NEW vector \in BOOLEAN, NEW fx \in Effects, ~vector => fx.vec = <<>>,
         fx.filled = IF r.c = None THEN <<>> ELSE Filled(r, now)
  PROVE  TracerOK(LeaveRegion(T, r, vector, fx, now), on, Front(fr), cont, t, J, m, reg)
<1>. DEFINE n == Len(T.timerStack)
            k == Len(fr)
            ret == IF vector THEN T.retCount ELSE None
<1>1. /\ HandlesFit(T) /\ ~T.dumping /\ FramesOK(T, fr) /\ OpenOK(T, fr, cont) /\ (~on => T.timerStack = <<>>)
      /\ ContentOK(T, t, cont, FillsOf(T, fr), FullOf(T, fr))
  BY DEF TracerOK
<1>2. TimerFits(T) /\ fr \in Seq(Frames) /\ n <= k /\ (\A i \in 1..k : fr[i].traced <=> i > k - n)
      /\ \A i \in 1..n : FrameOK(fr[k - n + i], T.timerStack[i], i, Outer(T, fr))
  BY <1>1, Zenon DEF FramesOK
<1>3. n \in Nat /\ k \in Nat /\ k > 0 /\ r = fr[k] /\ r \in Frames
  <2>1. T.timerStack \in Seq(Functions)
    BY <1>1, InfoFields DEF HandlesFit
  <2>2. Len(fr) \in Nat /\ Len(fr) > 0 /\ Last(fr) = fr[Len(fr)]
    BY <1>2, FrontIs
  <2>. QED
    BY <2>1, <2>2, <1>2
<1>a. n \in Nat /\ k \in Nat /\ n <= k /\ k > 0
  BY <1>2, <1>3
<1>. HIDE DEF n, k
<1>4. n > 0
  <2>1. k \in 1..k
    BY <1>a
  <2>2. k > k - n
    BY <2>1, <1>2, <1>3
  <2>. QED
    BY <2>2, <1>a
<1>5. T.timerStack # <<>>
  <2>1. T.timerStack = <<>> => n = 0
    BY DEF n
  <2>. QED
    BY <2>1, <1>4
<1>6. FrameOK(r, T.timerStack[n], n, Outer(T, fr))
  <2>1. n \in 1..n /\ k - n + n = k
    BY <1>a, <1>4
  <2>. QED
    BY <2>1, <1>2, <1>3
<1>7. CASE r.nested
  <2>1. LeaveRegion(T, r, vector, fx, now) = popTimer(T)
    BY <1>7 DEF LeaveRegion
  <2>2. TracerOK(popTimer(T), on, Front(fr), cont, t, J, m, reg)
    BY <1>5, <1>7, NestedEnds
  <2>. QED
    BY <2>1, <2>2
<1>8. CASE ~r.nested
  <2>1. n = 1
    BY <1>6, <1>8, <1>a, <1>4 DEF FrameOK
  <2>2. r = Outer(T, fr)
    <3>1. k - 1 + 1 = k
      BY <1>a
    <3>. QED
      BY <2>1, <3>1, <1>3 DEF Outer, n, k
  <2>3. on
    BY <1>1, <1>5
  <2>4. TracerOK(T, TRUE, fr, cont, t, J, m, reg)
    BY <2>3 DEF TracerOK
  <2>5. now \in Seq(PointerOrNull)
    <3>1. r.c \in Containers \cup {None}
      BY <1>3, FrameFields
    <3>2. cont \in [Containers -> Seq(PointerOrNull)]
      BY <1>1 DEF ContentOK
    <3>. QED
      BY <3>1, <3>2
  <2>6. Returning(T, fr, cont, r, fx, now, ret)
    <3>1. Len(T.timerStack) = 1
      BY <2>1 DEF n
    <3>2. ret = None \/ ret = T.retCount
      OBVIOUS
    <3>. HIDE DEF ret
    <3>. QED
      BY <3>1, <3>2, <2>2, <2>4, <2>5, <1>3, <1>5 DEF Returning
  <2>7. r.index \in 1..Len(T.log) /\ (r.out = None => now = <<>>)
    BY <1>1, <1>5, <2>2 DEF OpenOK, OpenLine, OpenAt
  <2>8. \E v, returned, filled, b : Leaves(T, r, fx, now, ret, v, returned, filled, b, LeaveRegion(T, r, vector, fx, now))
    BY <1>1, <1>2, <1>3, <1>5, <1>8, <2>5, <2>7, RegionLeft
  <2>9. PICK v, returned, filled, b : Leaves(T, r, fx, now, ret, v, returned, filled, b, LeaveRegion(T, r, vector, fx, now))
    BY <2>8
  <2>10. TracerOK(LeaveRegion(T, r, vector, fx, now), TRUE, Front(fr), cont, t, J, m, reg)
    <3>. HIDE DEF ret
    <3>. QED
      BY <2>4, <2>6, <2>9, ReturnKeeps
  <2>. QED
    BY <2>10, <2>3 DEF TracerOK
<1>. QED
  BY <1>7, <1>8

-----------------------------------------------------------------------------
(* JitCalls, containers changed by others, and the tracer after a clear.   *)

\* A name for what a JitCall returned.
LEMMA JitNamed ==
  ASSUME NEW T, NEW on, NEW fr, NEW cont, NEW t, NEW J, NEW m, NEW reg, TracerOK(T, on, fr, cont, t, J, m, reg),
         NEW p \in Pointers, NEW U, U = getOrRegisterHandle(T, p),
         NEW K, K = IF isNew(T, p) THEN J \cup {U.varCount} ELSE J
  PROVE  TracerOK(U, on, fr, cont, t, K, m, reg)
<1>1. /\ HandlesFit(T) /\ ~T.dumping /\ (~on => T.timerStack = <<>>)
      /\ FramesOK(T, fr) /\ OpenOK(T, fr, cont)
      /\ NamesOK(T, J) /\ BindOK(T, J, t) /\ ContentOK(T, t, cont, FillsOf(T, fr), FullOf(T, fr))
      /\ CallsOK(T, m, reg)
  BY DEF TracerOK
<1>2. HandleMade(T, p, U)
  BY <1>1, HandleGiven DEF PointerOrNull
<1>3. CASE ~isNew(T, p)
  <2>1. U = T /\ K = J
    BY <1>2, <1>3 DEF HandleMade
  <2>. QED
    BY <2>1
<1>4. CASE isNew(T, p)
  <2>1. /\ HandlesFit(U) /\ U = [T EXCEPT !.handles = U.handles, !.varCount = U.varCount]
        /\ T.handles[p] = 0 /\ U.varCount = T.varCount + 1
        /\ \A q \in Pointers : U.handles[q] = IF q = p THEN T.varCount + 1 ELSE T.handles[q]
        /\ K = J \cup {T.varCount + 1}
    BY <1>2, <1>4 DEF HandleMade
  <2>2. T \in TraceInfos /\ T.varCount \in Nat
    BY <1>1, InfoFields DEF HandlesFit
  <2>. DEFINE H == U.handles
              V == U.varCount
  <2>3. U = [T EXCEPT !.handles = H, !.varCount = V]
    BY <2>1
  <2>4. /\ U.log = T.log /\ U.retCount = T.retCount /\ U.outCount = T.outCount /\ U.outAliases = T.outAliases
        /\ U.timerStack = T.timerStack /\ U.running = T.running /\ ~U.dumping
        /\ U.inRegion = T.inRegion /\ U.regionStart = T.regionStart
    <3>. HIDE DEF H, V
    <3>. QED
      BY <2>2, <2>3, <1>1 DEF TraceInfos
  <2>5. FramesOK(U, fr) /\ Outer(U, fr) = Outer(T, fr)
    BY <2>4, <1>1, FramesSame
  <2>6. OpenOK(U, fr, cont)
    BY <2>4, <2>5, <1>1 DEF OpenOK
  <2>7. ContentOK(U, t, cont, FillsOf(U, fr), FullOf(U, fr))
    BY <2>4, <2>5, <1>1 DEF ContentOK, FillsOf, FullOf
  <2>8. CallsOK(U, m, reg)
    BY <2>4, <1>1 DEF CallsOK
  <2>9. NamesOK(U, K)
    <3>1. WellNamed(T.log, K)
      BY <2>1, <1>1, MoreJitNames DEF NamesOK
    <3>2. AllDeclared(T.log) \subseteq Nat
      <4>1. ASSUME NEW i \in 1..Len(T.log) PROVE DeclaredBy(T.log[i]) \subseteq Nat
        <5>1. T.log[i] \in Lines
          BY <2>2, InfoFields
        <5>. QED
          BY <5>1, LineFields DEF DeclaredBy
      <4>. QED
        BY <4>1 DEF AllDeclared, Declared
    <3>3. \A w \in AllDeclared(T.log) : w # 0 /\ w <= U.varCount
      <4>1. \A w \in AllDeclared(T.log) : w # 0 /\ w <= T.varCount
        BY <1>1 DEF NamesOK
      <4>. QED
        BY <4>1, <3>2, <2>1, <2>2
    <3>4. \A q \in Pointers : U.handles[q] # 0 => U.handles[q] \in AllDeclared(T.log) \cup K
      BY <2>1, <1>1 DEF NamesOK
    <3>. QED
      BY <3>1, <3>3, <3>4, <2>4, <1>1 DEF NamesOK
  <2>10. BindOK(U, K, t)
    BY <2>1, <2>4, <1>1 DEF BindOK
  <2>. QED
    BY <1>1, <2>1, <2>4, <2>5, <2>6, <2>7, <2>8, <2>9, <2>10 DEF TracerOK
<1>. QED
  BY <1>3, <1>4

\* A container is emptied between the calls.
LEMMA ContainerTouched ==
  ASSUME NEW T, NEW on, NEW fr, NEW cont, NEW t, NEW J, NEW m, NEW reg, TracerOK(T, on, fr, cont, t, J, m, reg),
         T.timerStack = <<>>, NEW c \in Containers, cont[c] # <<>>
  PROVE  TracerOK(T, on, fr, [cont EXCEPT ![c] = <<>>], t \cup {outIndexFor(T, c).idx}, J, m, reg)
<1>. DEFINE now == [cont EXCEPT ![c] = <<>>]
            u == t \cup {outIndexFor(T, c).idx}
<1>1. /\ HandlesFit(T) /\ OpenOK(T, fr, cont) /\ BindOK(T, J, t)
      /\ ContentOK(T, t, cont, FillsOf(T, fr), FullOf(T, fr))
  BY DEF TracerOK
<1>2. FillsOf(T, fr) = None /\ None \notin Containers
  BY TracingAssumption DEF FillsOf
<1>3. /\ cont \in [Containers -> Seq(PointerOrNull)]
      /\ \A d \in Containers : cont[d] # <<>> => T.outAliases[d] # None
      /\ \A d, e \in Containers : T.outAliases[d] # None /\ T.outAliases[d] = T.outAliases[e] => d = e
      /\ \A d \in Containers : T.outAliases[d] # None /\ T.outAliases[d] \notin t =>
           BufAt(T.log, <<"out", T.outAliases[d]>>) = SubSeq(cont[d], 1, IF d = None THEN FullOf(T, fr) ELSE Len(cont[d]))
  BY <1>1, <1>2 DEF ContentOK
<1>4. /\ now \in [Containers -> Seq(PointerOrNull)] /\ now[c] = <<>>
      /\ \A d \in Containers : d # c => now[d] = cont[d]
  BY <1>3
<1>5. outIndexFor(T, c).idx = T.outAliases[c]
  BY <1>3 DEF outIndexFor
<1>6. u = t \cup {T.outAliases[c]}
  BY <1>5
<1>. HIDE DEF now, u
<1>7. OpenOK(T, fr, now)
  BY <1>1 DEF OpenOK
<1>8. BindOK(T, J, u)
  <2>1. T.log \in Seq(Lines) /\ Len(T.log) \in Nat
    BY <1>1, InfoFields DEF HandlesFit
  <2>2. StaleIn(T.log, t) \subseteq StaleIn(T.log, u)
    BY <1>6 DEF StaleIn
  <2>. QED
    BY <1>1, <2>2 DEF BindOK
<1>9. ContentOK(T, u, now, FillsOf(T, fr), FullOf(T, fr))
  <2>1. \A d \in Containers : T.outAliases[d] \notin u => d # c /\ T.outAliases[d] \notin t
    BY <1>6
  <2>2. \A d \in Containers : now[d] # <<>> => T.outAliases[d] # None
    BY <1>3, <1>4
  <2>3. ASSUME NEW d \in Containers, T.outAliases[d] # None, T.outAliases[d] \notin u
        PROVE  BufAt(T.log, <<"out", T.outAliases[d]>>) = SubSeq(now[d], 1, IF d = None THEN FullOf(T, fr) ELSE Len(now[d]))
    <3>1. d # c /\ T.outAliases[d] \notin t
      BY <2>1, <2>3
    <3>2. now[d] = cont[d]
      BY <3>1, <1>4
    <3>. QED
      BY <3>1, <3>2, <2>3, <1>3
  <2>. QED
    BY <1>2, <1>3, <1>4, <2>2, <2>3 DEF ContentOK
<1>. QED
  BY <1>7, <1>8, <1>9 DEF TracerOK, now, u

\* A tracer that has nothing.
Fresh(T) ==
  /\ T \in TraceInfos /\ (\A p \in Pointers : T.handles[p] = 0) /\ (\A c \in Containers : T.outAliases[c] = None)
  /\ T.log = <<>> /\ T.timerStack = <<>> /\ T.running = {} /\ ~T.dumping /\ ~T.inRegion

\* No call is in a log without lines.
LEMMA NoCalls == CallsIn(<<>>) = <<>>
<1>1. <<>> \in Seq(Lines) /\ OutDecl(0) \in Lines
  BY DEF OutDecl, Lines
<1>. QED
  BY <1>1, CallsInAppend

\* Its state goes together when nothing is alive.
LEMMA FreshOK ==
  ASSUME NEW T, Fresh(T), NEW on, NEW cont, cont = [c \in Containers |-> <<>>], NEW reg
  PROVE  TracerOK(T, on, <<>>, cont, {}, {}, <<>>, reg)
<1>1. /\ T \in TraceInfos /\ (\A p \in Pointers : T.handles[p] = 0) /\ (\A c \in Containers : T.outAliases[c] = None)
      /\ T.log = <<>> /\ T.timerStack = <<>> /\ T.running = {} /\ ~T.dumping /\ ~T.inRegion
  BY DEF Fresh
<1>2. Len(T.log) = 0 /\ Len(T.timerStack) = 0 /\ 1..0 = {} /\ Len(<<>>) = 0
  BY <1>1
<1>3. HandlesFit(T)
  <2>1. T.varCount \in Nat
    BY <1>1, InfoFields
  <2>. QED
    BY <1>1, <2>1 DEF HandlesFit
<1>4. FramesOK(T, <<>>)
  <2>1. <<>> \in Seq(Frames) /\ TimerFits(T)
    BY <1>1 DEF TimerFits
  <2>2. Len(T.timerStack) <= Len(<<>>)
    BY <1>2
  <2>. QED
    BY <1>2, <2>1, <2>2 DEF FramesOK
<1>5. OpenOK(T, <<>>, cont)
  BY <1>1, <1>2 DEF OpenOK
<1>6. AllDeclared(T.log) = {} /\ AllBuffers(T.log) = {} /\ WellNamed(T.log, {})
  BY <1>2 DEF AllDeclared, AllBuffers, Declared, BuffersDeclared, WellNamed
<1>7. NamesOK(T, {})
  BY <1>1, <1>6 DEF NamesOK
<1>8. BindOK(T, {}, {})
  BY <1>1 DEF BindOK
<1>9. ContentOK(T, {}, cont, FillsOf(T, <<>>), FullOf(T, <<>>))
  BY <1>1 DEF ContentOK
<1>10. CallsOK(T, <<>>, reg)
  BY <1>1, NoCalls DEF CallsOK
<1>. QED
  BY <1>1, <1>3, <1>4, <1>5, <1>7, <1>8, <1>9, <1>10 DEF TracerOK

\* The first tracer, and the one after the test cases' clear.
LEMMA FreshAre ==
  /\ Fresh(NewTraceInfo)
  /\ \A T \in TraceInfos : ~T.inRegion /\ ~T.dumping => Fresh(clear(T))
<1>1. NewTraceInfo \in TraceInfos
  BY DEF NewTraceInfo, TraceInfos
<1>2. Fresh(NewTraceInfo)
  BY <1>1 DEF NewTraceInfo, Fresh
<1>3. ASSUME NEW T \in TraceInfos, ~T.inRegion, ~T.dumping PROVE Fresh(clear(T))
  <2>. DEFINE N == NewTraceInfo
              U == clear(T)
  <2>1. U = [N EXCEPT !.inRegion = T.inRegion, !.regionStart = T.regionStart,
                      !.onStdErr = T.onStdErr, !.path = T.path, !.dumping = T.dumping]
    BY DEF clear
  <2>2. T.inRegion \in BOOLEAN /\ T.regionStart \in Nat /\ T.onStdErr \in BOOLEAN /\ T.path \in BOOLEAN /\ T.dumping \in BOOLEAN
    BY InfoFields
  <2>. HIDE DEF N, U
  <2>3. N \in TraceInfos
    BY <1>1 DEF N
  <2>4. U \in TraceInfos
    BY <2>1, <2>2, <2>3 DEF TraceInfos
  <2>5. /\ U.handles = N.handles /\ U.outAliases = N.outAliases /\ U.log = N.log /\ U.timerStack = N.timerStack
        /\ U.running = N.running /\ U.dumping = T.dumping /\ U.inRegion = T.inRegion
    BY <2>1, <2>3 DEF TraceInfos
  <2>. QED
    BY <2>4, <2>5, <1>2, <1>3 DEF Fresh, N, U
<1>. QED
  BY <1>2, <1>3

-----------------------------------------------------------------------------
(* A traced call begins.                                                   *)

-----------------------------------------------------------------------------

\* What the constructor keeps.
DataFits(T, fn, c, n, r) ==
  /\ r \in Frames /\ r.traced /\ (r.nested <=> T.timerStack # <<>>) /\ r.fn = fn /\ r.c = c /\ r.before = n
  /\ r.first <=> ~r.nested /\ c # None /\ T.outAliases[c] = None
  /\ r.nested => r.first = FALSE
  /\ ~r.nested => /\ \A w \in r.uses : \E p \in Pointers : w = T.handles[p] /\ w # 0
                  /\ r.index = Len(T.log) + IF r.first THEN 2 ELSE 1
                  /\ c = None => r.out = None
                  /\ r.first => r.out = T.outCount
                  /\ c # None /\ ~r.first => r.out = T.outAliases[c] /\ r.out # None

\* It keeps it.
LEMMA DataIs ==
  ASSUME NEW T, HandlesFit(T), ~T.dumping, NEW fn \in Functions, NEW arg \in PointerOrNull,
         NEW c \in Containers \cup {None}, NEW n \in Nat, NEW r, r = TraceData(T, fn, arg, c, n)
  PROVE  DataFits(T, fn, c, n, r)
<1>. DEFINE nested == T.timerStack # <<>>
            buffer == ~nested /\ c # None
            x == outIndexFor(T, c)
            first == buffer /\ x.first
            uses == IF nested THEN {} ELSE format(T, arg)
            out == IF buffer THEN x.idx ELSE None
            index == IF nested THEN 0 ELSE placeholderSlot(T, first)
<1>1. r = [traced |-> TRUE, nested |-> nested, fn |-> fn, uses |-> uses, c |-> c, out |-> out, first |-> first,
           index |-> index, before |-> n]
  BY DEF TraceData
<1>2. /\ T \in TraceInfos /\ T.handles \in [Pointers -> Nat] /\ T.outAliases \in [Containers -> Nat \cup {None}]
      /\ T.outCount \in Nat /\ T.log \in Seq(Lines) /\ Len(T.log) \in Nat
  BY InfoFields DEF HandlesFit
<1>3. /\ c # None => /\ T.outAliases[c] = None => x.idx = T.outCount /\ x.first
                     /\ T.outAliases[c] # None => x.idx = T.outAliases[c] /\ ~x.first
      /\ x.first \in BOOLEAN
  BY DEF outIndexFor
<1>4. uses \in SUBSET Nat /\ (~nested => \A w \in uses : \E p \in Pointers : w = T.handles[p] /\ w # 0)
  BY <1>2 DEF format, lookupHandle, PointerOrNull
<1>. HIDE DEF uses, x
<1>5. out \in Nat \cup {None}
  BY <1>2, <1>3
<1>6. index \in Nat /\ (~nested => index = Len(T.log) + IF first THEN 2 ELSE 1)
  <2>1. placeholderSlot(T, first) = Len(T.log) + IF first THEN 2 ELSE 1
    BY DEF placeholderSlot
  <2>. HIDE DEF first, nested
  <2>2. placeholderSlot(T, first) \in Nat
    <3>1. Len(T.log) + 2 \in Nat /\ Len(T.log) + 1 \in Nat
      BY <1>2
    <3>. QED
      BY <2>1, <3>1
  <2>. QED
    BY <2>1, <2>2
<1>7. first \in BOOLEAN /\ nested \in BOOLEAN
  BY <1>3
<1>8. first <=> ~nested /\ c # None /\ T.outAliases[c] = None
  BY <1>3
<1>9. /\ c = None => out = None
      /\ first => out = T.outCount
      /\ ~nested /\ c # None /\ ~first => out = T.outAliases[c] /\ out # None
  BY <1>2, <1>3
<1>. HIDE DEF nested, first, out, index
<1>10. r \in Frames
  BY <1>1, <1>4, <1>5, <1>6, <1>7 DEF Frames
<1>11. /\ r.traced = TRUE /\ r.nested = nested /\ r.fn = fn /\ r.uses = uses /\ r.c = c /\ r.out = out /\ r.first = first
       /\ r.index = index /\ r.before = n
  BY <1>1
<1>12. nested => first = FALSE
  BY <1>7, <1>8
<1>13. nested <=> T.timerStack # <<>>
  BY DEF nested
<1>. QED
  BY <1>4, <1>6, <1>8, <1>9, <1>10, <1>11, <1>12, <1>13 DEF DataFits

\* A traced call begins.
LEMMA AnyBegins ==
  ASSUME NEW T, NEW fr, NEW cont, NEW t, NEW J, NEW m, NEW reg, TracerOK(T, TRUE, fr, cont, t, J, m, reg),
         NEW fn \in Functions, NEW c \in Containers \cup {None}, fr # <<>> /\ c # None => Last(fr).c = c,
         NEW n, n = IF c = None THEN 0 ELSE Len(cont[c]), NEW r, DataFits(T, fn, c, n, r)
  PROVE  TracerOK(EnterRegion(T, r), TRUE, Append(fr, r), cont, t, J, IF r.nested THEN m ELSE Append(m, fn),
                  IF ~r.nested /\ T.inRegion THEN Append(reg, fn) ELSE reg)
<1>1. /\ HandlesFit(T) /\ ~T.dumping /\ FramesOK(T, fr) /\ TimerFits(T)
  BY DEF TracerOK, FramesOK
<1>2. T \in TraceInfos /\ T.log \in Seq(Lines) /\ Len(T.log) \in Nat /\ T.running \in SUBSET Functions
  BY <1>1, InfoFields DEF HandlesFit
<1>3. cont \in [Containers -> Seq(PointerOrNull)]
  BY DEF TracerOK, ContentOK
<1>4. n \in Nat
  BY <1>3
<1>5. /\ r \in Frames /\ r.traced /\ (r.nested <=> T.timerStack # <<>>) /\ r.fn = fn /\ r.c = c /\ r.before = n
      /\ r.first <=> ~r.nested /\ c # None /\ T.outAliases[c] = None
      /\ r.nested => r.first = FALSE
      /\ ~r.nested => /\ \A w \in r.uses : \E p \in Pointers : w = T.handles[p] /\ w # 0
                      /\ r.index = Len(T.log) + IF r.first THEN 2 ELSE 1
                      /\ c = None => r.out = None
                      /\ r.first => r.out = T.outCount
                      /\ c # None /\ ~r.first => r.out = T.outAliases[c] /\ r.out # None
  BY DEF DataFits
<1>6. CASE r.nested
  <2>1. EnterRegion(T, r) = pushTimer(T, r.fn)
    BY <1>5, <1>6 DEF EnterRegion
  <2>2. fr # <<>>
    <3>1. Len(T.timerStack) # 0 /\ Len(T.timerStack) \in Nat
      <4>1. T.timerStack \in Seq(Functions) /\ T.timerStack # <<>>
        BY <1>2, <1>5, <1>6, InfoFields
      <4>. QED
        BY <4>1
    <3>2. Len(T.timerStack) <= Len(fr) /\ fr \in Seq(Frames)
      BY <1>1 DEF FramesOK
    <3>. QED
      BY <3>1, <3>2
  <2>3. r.c # None => Last(fr).c = r.c
    BY <2>2, <1>5
  <2>4. TracerOK(pushTimer(T, r.fn), TRUE, Append(fr, r), cont, t, J, m, reg)
    BY <2>3, <1>5, <1>6, NestedKeeps
  <2>. QED
    BY <2>1, <2>4, <1>6
<1>7. ASSUME ~r.nested, NEW V, TracerOK(V, TRUE, fr, cont, t, J, m, reg), V.timerStack = <<>>,
             V.handles = T.handles, V.inRegion = T.inRegion, r.index = Len(V.log) + 1,
             c # None => r.out = V.outAliases[c] /\ r.out # None
      PROVE  TracerOK(pushTimer(appendToLog(V, CallLine(r.fn, r.uses, r.out, FALSE, 0, None, NoEffect)), r.fn), TRUE,
                      Append(fr, r), cont, t, J, Append(m, fn), IF T.inRegion THEN Append(reg, fn) ELSE reg)
  <2>. DEFINE line == CallLine(r.fn, r.uses, r.out, FALSE, 0, None, NoEffect)
              L == Append(V.log, line)
              W == appendToLog(V, line)
              U == [V EXCEPT !.log = L, !.timerStack = <<r.fn>>, !.running = {r.fn}]
  <2>1. V \in TraceInfos /\ ~V.dumping /\ V.running = {}
    BY <1>7 DEF TracerOK, HandlesFit, FramesOK, TimerFits
  <2>2. W = [V EXCEPT !.log = L]
    BY <2>1 DEF appendToLog
  <2>. HIDE DEF line, L, W
  <2>3. W.timerStack = <<>> /\ W.running = {}
    BY <2>1, <2>2, <1>7 DEF TraceInfos
  <2>4. Append(<<>>, r.fn) = <<r.fn>> /\ ({} \ {}) \cup {r.fn} = {r.fn}
    OBVIOUS
  <2>5. pushTimer(W, r.fn) = [W EXCEPT !.timerStack = <<r.fn>>, !.running = {r.fn}]
    BY <2>3, <2>4 DEF pushTimer
  <2>6. [W EXCEPT !.timerStack = <<r.fn>>, !.running = {r.fn}] = U
    BY <2>1, <2>2 DEF TraceInfos
  <2>7. pushTimer(W, r.fn) = U
    BY <2>5, <2>6
  <2>8. \A w \in r.uses : \E p \in Pointers : w = V.handles[p] /\ w # 0
    BY <1>5, <1>7
  <2>9. r.c = None => r.out = None
    BY <1>5, <1>7
  <2>10. r.c # None => r.out = V.outAliases[r.c] /\ r.out # None /\ r.before = Len(cont[r.c])
    BY <1>5, <1>7
  <2>11. Opened(V, r, U)
    BY DEF Opened, L, line
  <2>. HIDE DEF U
  <2>12. TracerOK(U, TRUE, Append(fr, r), cont, t, J, Append(m, r.fn), IF V.inRegion THEN Append(reg, r.fn) ELSE reg)
    BY <1>5, <1>7, <2>8, <2>9, <2>10, <2>11, OpenKeeps
  <2>13. TracerOK(U, TRUE, Append(fr, r), cont, t, J, Append(m, fn), IF T.inRegion THEN Append(reg, fn) ELSE reg)
    BY <2>12, <1>5, <1>7
  <2>. QED
    BY <2>7, <2>13 DEF W, line
<1>8. CASE ~r.nested /\ ~r.first
  <2>1. EnterRegion(T, r) = pushTimer(appendToLog(T, CallLine(r.fn, r.uses, r.out, FALSE, 0, None, NoEffect)), r.fn)
    BY <1>8 DEF EnterRegion
  <2>2. T.timerStack = <<>> /\ r.index = Len(T.log) + 1 /\ (c # None => r.out = T.outAliases[c] /\ r.out # None)
    BY <1>5, <1>8
  <2>3. TracerOK(pushTimer(appendToLog(T, CallLine(r.fn, r.uses, r.out, FALSE, 0, None, NoEffect)), r.fn), TRUE,
                      Append(fr, r), cont, t, J, Append(m, fn), IF T.inRegion THEN Append(reg, fn) ELSE reg)
    BY <2>2, <1>7, <1>8
  <2>. QED
    BY <2>1, <2>3, <1>8
<1>9. CASE ~r.nested /\ r.first
  <2>. DEFINE k == T.outCount
              line == CallLine(r.fn, r.uses, r.out, FALSE, 0, None, NoEffect)
              V == [T EXCEPT !.outCount = k + 1, !.outAliases[c] = k, !.log = Append(T.log, OutDecl(k))]
              X == appendToLog([T EXCEPT !.outCount = @ + 1, !.outAliases[r.c] = r.out], OutDecl(r.out))
  <2>1. r.c = c /\ r.out = k /\ c \in Containers /\ T.outAliases[c] = None /\ T.timerStack = <<>>
        /\ r.index = Len(T.log) + 2
    BY <1>5, <1>9
  <2>2. EnterRegion(T, r) = pushTimer(appendToLog(X, line), r.fn)
    BY <1>9 DEF EnterRegion
  <2>3. X = V
    <3>. DEFINE A == [T.outAliases EXCEPT ![c] = k]
                Y == [T EXCEPT !.outCount = k + 1, !.outAliases = A]
    <3>1. X = appendToLog(Y, OutDecl(k))
      BY <2>1
    <3>2. V = [T EXCEPT !.outCount = k + 1, !.outAliases = A, !.log = Append(T.log, OutDecl(k))]
      OBVIOUS
    <3>. HIDE DEF A, X, V
    <3>3. Y.dumping = T.dumping /\ Y.log = T.log
      BY <1>2 DEF TraceInfos
    <3>4. appendToLog(Y, OutDecl(k)) = [Y EXCEPT !.log = Append(T.log, OutDecl(k))]
      BY <3>3, <1>1 DEF appendToLog
    <3>5. [Y EXCEPT !.log = Append(T.log, OutDecl(k))] =
            [T EXCEPT !.outCount = k + 1, !.outAliases = A, !.log = Append(T.log, OutDecl(k))]
      BY <1>2 DEF TraceInfos
    <3>. QED
      BY <3>1, <3>2, <3>4, <3>5
  <2>4. BufferMade(T, c, k, V)
    BY <2>1 DEF BufferMade
  <2>. HIDE DEF V, X, k
  <2>5. /\ TracerOK(V, TRUE, fr, cont, t, J, m, reg)
        /\ V.log = Append(T.log, OutDecl(k)) /\ V.timerStack = <<>> /\ V.outAliases[c] = k /\ k \in Nat
        /\ V.handles = T.handles /\ V.inRegion = T.inRegion
    <3>1. TracerOK(V, TRUE, fr, cont, t, J, m, reg) /\ BufferIs(T, c, k, V)
      BY <2>1, <2>4, BufferKeeps
    <3>. QED
      BY <3>1 DEF BufferIs
  <2>6. r.index = Len(V.log) + 1
    BY <2>1, <2>5, <1>2
  <2>7. r.out = V.outAliases[c] /\ r.out # None
    BY <2>1, <2>5, TracingAssumption
  <2>8. TracerOK(pushTimer(appendToLog(V, line), r.fn), TRUE, Append(fr, r), cont, t, J, Append(m, fn),
                 IF T.inRegion THEN Append(reg, fn) ELSE reg)
    BY <2>5, <2>6, <2>7, <1>7, <1>9
  <2>. QED
    BY <2>2, <2>3, <2>8, <1>9
<1>. QED
  BY <1>6, <1>8, <1>9

-----------------------------------------------------------------------------
(* Regions, and entering a call.                                           *)

\* The invariant says the files are exact.
LEMMA InvFilesExact == TracingInv => FilesExact
<1>. SUFFICES ASSUME TracingInv PROVE FilesExact
  OBVIOUS
<1>1. files \in Seq(ExactFiles) /\ CrashReproducer
  BY DEF TracingInv
<1>2. \A i \in DOMAIN files : files[i] \in ExactFiles
  BY <1>1
<1>3. RegionExact
  BY <1>2 DEF RegionExact, ExactFiles
<1>. QED
  BY <1>1, <1>3 DEF FilesExact

\* Nothing is alive at the beginning.
LEMMA InitInv == TracingInit => TracingInv
<1>. SUFFICES ASSUME TracingInit PROVE TracingInv
  OBVIOUS
<1>1. /\ TI = NewTraceInfo /\ frames = <<>> /\ content = [c \in Containers |-> <<>>] /\ touched = {} /\ jitNames = {}
      /\ files = <<>> /\ made = <<>> /\ reproducer = <<>>
  BY DEF TracingInit
<1>2. TracerOK(TI, enabled, <<>>, content, {}, {}, <<>>, region)
  BY <1>1, FreshAre, FreshOK
<1>3. <<>> \in Seq(ExactFiles)
  OBVIOUS
<1>4. DOMAIN <<>> = {}
  OBVIOUS
<1>5. CrashReproducer
  BY <1>1, <1>4 DEF CrashReproducer
<1>. QED
  BY <1>1, <1>2, <1>3, <1>5 DEF TracingInv

\* A step that writes no file.
LEMMA StepInv ==
  ASSUME TracingInv, TracerOK(TI', enabled', frames', content', touched', jitNames', made', region'),
         UNCHANGED <<files, reproducer>>
  PROVE  TracingInv'
<1>1. files \in Seq(ExactFiles) /\ CrashReproducer
  BY DEF TracingInv
<1>2. CrashReproducer'
  BY <1>1 DEF CrashReproducer
<1>. QED
  BY <1>1, <1>2 DEF TracingInv

\* InitTracing.
LEMMA InitTracingInv == ASSUME TracingInv, InitTracing PROVE TracingInv'
<1>1. TracerOK(TI, enabled, frames, content, touched, jitNames, made, region)
  BY DEF TracingInv
<1>2. enabled' = TRUE /\ UNCHANGED <<TI, frames, content, touched, jitNames, region, files, made, reproducer>>
  BY DEF InitTracing
<1>3. TracerOK(TI, TRUE, frames, content, touched, jitNames, made, region)
  BY <1>1 DEF TracerOK
<1>. QED
  BY <1>2, <1>3, StepInv

\* StartTracing begins a region at the end of the log.
LEMMA StartTracingInv ==
  ASSUME TracingInv, NEW onStdErr \in BOOLEAN, NEW created \in BOOLEAN, StartTracing(onStdErr, created)
  PROVE  TracingInv'
<1>. DEFINE n == Len(TI.log)
            path == IF onStdErr THEN FALSE ELSE TI.path \/ created
            U == [TI EXCEPT !.regionStart = n, !.inRegion = TRUE, !.onStdErr = onStdErr, !.path = path]
<1>1. TracerOK(TI, enabled, frames, content, touched, jitNames, made, region)
  BY DEF TracingInv
<1>2. TI' = U /\ enabled' = TRUE /\ region' = <<>>
      /\ UNCHANGED <<frames, content, touched, jitNames, files, made, reproducer>>
  BY DEF StartTracing, RegionStart
<1>3. TI \in TraceInfos /\ TI.log \in Seq(Lines) /\ n \in Nat /\ TI.path \in BOOLEAN
  BY <1>1, InfoFields DEF TracerOK, HandlesFit
<1>4. path \in BOOLEAN
  BY <1>3
<1>. HIDE DEF n, path
<1>5. U \in TraceInfos /\ U.regionStart = n /\ U.log = TI.log
  BY <1>3, <1>4 DEF TraceInfos
<1>6. SameState(TI, U)
  BY <1>3, <1>5 DEF SameState, TraceInfos
<1>. HIDE DEF U
<1>7. SubSeq(U.log, n + 1, Len(U.log)) = <<>> /\ n <= Len(U.log)
  BY <1>3, <1>5, SubSeqEmpty DEF n
<1>8. U.regionStart <= Len(U.log) /\ CallsIn(SubSeq(U.log, U.regionStart + 1, Len(U.log))) = <<>>
  BY <1>5, <1>7, NoCalls
<1>9. TracerOK(U, TRUE, frames, content, touched, jitNames, made, <<>>)
  BY <1>1, <1>6, <1>8, RegionKept
<1>. QED
  BY <1>2, <1>9, StepInv

\* StopTracing writes the region's lines.
LEMMA StopTracingInv == ASSUME TracingInv, StopTracing PROVE TracingInv'
<1>. DEFINE U == [TI EXCEPT !.inRegion = FALSE]
            tail == SubSeq(TI.log, TI.regionStart + 1, Len(TI.log))
            file == [lines |-> tail, calls |-> region]
<1>1. /\ TracerOK(TI, enabled, frames, content, touched, jitNames, made, region)
      /\ files \in Seq(ExactFiles) /\ CrashReproducer
  BY DEF TracingInv
<1>2. enabled /\ TI.inRegion /\ region' = <<>>
      /\ UNCHANGED <<enabled, frames, content, touched, jitNames, made, reproducer>>
  BY DEF StopTracing
<1>3. TI \in TraceInfos /\ TI.log \in Seq(Lines) /\ TI.regionStart \in Nat /\ TimerFits(TI) /\ ~TI.dumping /\ HandlesFit(TI)
  BY <1>1, InfoFields DEF TracerOK, HandlesFit, FramesOK
<1>4. SameState(TI, U) /\ ~U.inRegion /\ U.regionStart = TI.regionStart
  BY <1>3 DEF SameState, TraceInfos
<1>a. U = [TI EXCEPT !.inRegion = FALSE]
  OBVIOUS
<1>. HIDE DEF U, tail
<1>5. TracerOK(U, enabled, frames, content, touched, jitNames, made, <<>>)
  <2>1. ~enabled => TI.timerStack = <<>>
    BY <1>1 DEF TracerOK
  <2>2. U.inRegion => U.regionStart <= Len(U.log) /\ CallsIn(SubSeq(U.log, U.regionStart + 1, Len(U.log))) = <<>>
    BY <1>4
  <2>. QED
    BY <1>1, <1>4, <2>1, <2>2, RegionKept
<1>6. Dump(U) = U
  <2>1. HandlesFit(U) /\ ~U.dumping /\ TimerFits(U)
    BY <1>5 DEF TracerOK, FramesOK
  <2>. QED
    BY <2>1, DumpChanges
<1>7. RegionLines(U) = tail
  BY <1>4, <1>6 DEF RegionLines, tail, SameState
<1>8. TI' = U /\ (files' = files \/ files' = Append(files, file))
  BY <1>6, <1>7, <1>a DEF StopTracing
<1>9. file \in ExactFiles
  <2>1. TI.regionStart <= Len(TI.log) /\ CallsIn(tail) = region
    BY <1>1, <1>2 DEF TracerOK, CallsOK, tail
  <2>2. tail \in Seq(Lines)
    BY <1>3, <2>1 DEF tail
  <2>3. CallsIn(tail) \in Seq(Functions)
    <3>1. Len(tail) \in 0..Len(tail)
      BY <2>2
    <3>. QED
      BY <2>2, <3>1, CallsInRuns
  <2>. QED
    BY <2>1, <2>2, <2>3 DEF ExactFiles
<1>. HIDE DEF file
<1>10. files' \in Seq(ExactFiles)
  BY <1>1, <1>8, <1>9
<1>11. CrashReproducer'
  BY <1>1, <1>2 DEF CrashReproducer
<1>12. TracerOK(TI', enabled', frames', content', touched', jitNames', made', region')
  BY <1>2, <1>5, <1>8
<1>. QED
  BY <1>10, <1>11, <1>12 DEF TracingInv

\* A call begins.
LEMMA EnterCallInv ==
  ASSUME TracingInv, NEW fn \in Functions, NEW arg \in PointerOrNull, NEW c \in Containers \cup {None},
         EnterCall(fn, arg, c)
  PROVE  TracingInv'
<1>. DEFINE n == IF c = None THEN 0 ELSE Len(content[c])
            r == TraceData(TI, fn, arg, c, n)
<1>1. TracerOK(TI, enabled, frames, content, touched, jitNames, made, region)
  BY DEF TracingInv
<1>2. /\ frames # <<>> /\ c # None => Last(frames).traced /\ Last(frames).c = c
      /\ TI' = IF enabled THEN EnterRegion(TI, r) ELSE TI
      /\ frames' = Append(frames, IF enabled THEN r ELSE Untraced)
      /\ made' = IF enabled /\ ~r.nested THEN Append(made, fn) ELSE made
      /\ region' = IF enabled /\ ~r.nested /\ TI.inRegion THEN Append(region, fn) ELSE region
      /\ UNCHANGED <<enabled, content, touched, jitNames, files, reproducer>>
  BY DEF EnterCall
<1>3. n = (IF c = None THEN 0 ELSE Len(content[c])) /\ r = TraceData(TI, fn, arg, c, n)
  OBVIOUS
<1>. HIDE DEF n, r
<1>4. CASE enabled
  <2>1. TracerOK(TI, TRUE, frames, content, touched, jitNames, made, region)
    BY <1>1, <1>4 DEF TracerOK
  <2>2. TracerOK(EnterRegion(TI, r), TRUE, Append(frames, r), content, touched, jitNames,
                 IF r.nested THEN made ELSE Append(made, fn), IF ~r.nested /\ TI.inRegion THEN Append(region, fn) ELSE region)
    <3>1. content \in [Containers -> Seq(PointerOrNull)] /\ HandlesFit(TI) /\ ~TI.dumping
      BY <1>1 DEF TracerOK, ContentOK
    <3>2. n \in Nat
      BY <3>1, <1>3
    <3>3. DataFits(TI, fn, c, n, r)
      BY <1>3, <3>1, <3>2, DataIs
    <3>. QED
      BY <1>2, <1>3, <2>1, <3>3, AnyBegins
  <2>3. /\ TI' = EnterRegion(TI, r) /\ frames' = Append(frames, r) /\ enabled'
        /\ made' = (IF r.nested THEN made ELSE Append(made, fn))
        /\ region' = (IF ~r.nested /\ TI.inRegion THEN Append(region, fn) ELSE region)
    BY <1>2, <1>4
  <2>4. TracerOK(TI', TRUE, frames', content', touched', jitNames', made', region')
    BY <1>2, <2>2, <2>3
  <2>5. TracerOK(TI', enabled', frames', content', touched', jitNames', made', region')
    BY <2>3, <2>4 DEF TracerOK
  <2>. QED
    BY <1>2, <2>5, StepInv
<1>5. CASE ~enabled
  <2>1. TI.timerStack = <<>>
    BY <1>1, <1>5 DEF TracerOK
  <2>2. TracerOK(TI, enabled, Append(frames, Untraced), content, touched, jitNames, made, region)
    BY <1>1, <2>1, UntracedKeeps
  <2>3. TI' = TI /\ frames' = Append(frames, Untraced) /\ made' = made /\ region' = region
    BY <1>2, <1>5
  <2>4. TracerOK(TI', enabled', frames', content', touched', jitNames', made', region')
    BY <1>2, <2>2, <2>3
  <2>. QED
    BY <1>2, <2>4, StepInv
<1>. QED
  BY <1>4, <1>5

-----------------------------------------------------------------------------
(* Returning from a call.                                                  *)

-----------------------------------------------------------------------------

\* A call returns.
LEMMA ReturnCallInv ==
  ASSUME TracingInv, NEW vector \in BOOLEAN, NEW result \in PointerOrNull, NEW vec \in Seq(PointerOrNull),
         ~vector => vec = <<>>, NEW new \in Seq(PointerOrNull), ReturnCall(vector, result, vec, new)
  PROVE  TracingInv'
<1>. DEFINE r == Last(frames)
            c == IF r.traced THEN r.c ELSE None
            now == IF c = None THEN <<>> ELSE content[c] \o new
            fx == [result |-> result, vec |-> vec, filled |-> IF c = None THEN <<>> ELSE Filled(r, now)]
            more == IF c = None THEN content ELSE [content EXCEPT ![c] = now]
            n == Len(TI.timerStack)
            k == Len(frames)
<1>1. TracerOK(TI, enabled, frames, content, touched, jitNames, made, region)
  BY DEF TracingInv
<1>2. /\ frames # <<>> /\ content' = more
      /\ TI' = IF r.traced THEN LeaveRegion(TI, r, vector, fx, now) ELSE TI
      /\ frames' = Front(frames)
      /\ UNCHANGED <<enabled, touched, jitNames, region, files, made, reproducer>>
  BY DEF ReturnCall
<1>3. /\ HandlesFit(TI) /\ FramesOK(TI, frames) /\ content \in [Containers -> Seq(PointerOrNull)]
  BY <1>1 DEF TracerOK, ContentOK
<1>4. /\ frames \in Seq(Frames) /\ n <= k /\ (\A i \in 1..k : frames[i].traced <=> i > k - n)
      /\ \A i \in 1..n : FrameOK(frames[k - n + i], TI.timerStack[i], i, Outer(TI, frames))
  BY <1>3, Zenon DEF FramesOK
<1>5. n \in Nat /\ k \in Nat /\ k > 0 /\ r = frames[k] /\ r \in Frames /\ (TI.timerStack = <<>> <=> n = 0)
  <2>1. TI.timerStack \in Seq(Functions)
    BY <1>3, InfoFields DEF HandlesFit
  <2>2. Len(frames) \in Nat /\ Len(frames) > 0 /\ Last(frames) = frames[Len(frames)]
    BY <1>2, <1>4, FrontIs
  <2>. QED
    BY <2>1, <2>2, <1>4
<1>a. n \in Nat /\ k \in Nat /\ n <= k /\ k > 0
  BY <1>4, <1>5
<1>6. r = Last(frames)
  OBVIOUS
<1>. HIDE DEF n, k, r
<1>7. r.traced <=> n > 0
  <2>1. k \in 1..k /\ (k > k - n <=> n > 0)
    BY <1>a
  <2>. QED
    BY <2>1, <1>4, <1>5
<1>8. CASE ~r.traced
  <2>1. c = None /\ TI.timerStack = <<>>
    BY <1>5, <1>7, <1>8, <1>a
  <2>2. TracerOK(TI, enabled, Front(frames), content, touched, jitNames, made, region)
    BY <1>1, <1>2, <2>1, UntracedKeeps
  <2>3. TI' = TI /\ content' = content
    BY <2>1, <1>2, <1>8
  <2>4. TracerOK(TI', enabled', frames', content', touched', jitNames', made', region')
    BY <1>2, <2>2, <2>3
  <2>. QED
    BY <1>2, <2>4, StepInv
<1>9. CASE r.traced
  <2>1. c = r.c /\ r.c \in Containers \cup {None} /\ r.before \in Nat
    BY <1>5, <1>9, FrameFields
  <2>2. TI.timerStack # <<>>
    BY <1>5, <1>7, <1>9, <1>a
  <2>3. r.c # None => r.c = Outer(TI, frames).c
    <3>1. n \in 1..n /\ k - n + n = k
      BY <1>7, <1>9, <1>a
    <3>2. FrameOK(r, TI.timerStack[n], n, Outer(TI, frames))
      BY <3>1, <1>4, <1>5
    <3>. QED
      BY <3>2 DEF FrameOK
  <2>4. now \in Seq(PointerOrNull)
    BY <2>1, <1>3
  <2>5. TracerOK(TI, enabled, frames, more, touched, jitNames, made, region)
    <3>1. CASE c = None
      BY <3>1, <1>1
    <3>2. CASE c # None
      <4>1. c \in Containers /\ c = Outer(TI, frames).c
        BY <3>2, <2>1, <2>3
      <4>2. more = [content EXCEPT ![c] = content[c] \o new]
        BY <3>2
      <4>. HIDE DEF more, c, now
      <4>3. TracerOK(TI, enabled, frames, [content EXCEPT ![c] = content[c] \o new], touched, jitNames, made, region)
        BY <4>1, <1>1, <2>2, ContainerGrows
      <4>. QED
        BY <4>2, <4>3
    <3>. QED
      BY <3>1, <3>2
  <2>6. now = IF r.c = None THEN <<>> ELSE more[r.c]
    BY <2>1, <1>3
  <2>7. fx.vec = vec /\ fx.filled = IF r.c = None THEN <<>> ELSE Filled(r, now)
    BY <2>1
  <2>8. fx \in Effects
    <3>1. Filled(r, now) \in Seq(PointerOrNull) \/ c = None
      <4>1. SUFFICES ASSUME c # None PROVE Filled(r, now) \in Seq(PointerOrNull)
        OBVIOUS
      <4>2. CASE r.before < Len(now)
        BY <4>2, <2>1, <2>4 DEF Filled
      <4>3. CASE ~ (r.before < Len(now))
        <5>1. Len(now) \in Nat /\ r.before + 1 > Len(now)
          BY <4>3, <2>1, <2>4
        <5>2. Filled(r, now) = <<>>
          BY <5>1, <2>1, SubSeqEmpty DEF Filled
        <5>3. <<>> \in Seq(PointerOrNull)
          OBVIOUS
        <5>. HIDE DEF now, c
        <5>. QED
          BY <5>2, <5>3
      <4>. QED
        BY <4>2, <4>3
    <3>. QED
      BY <3>1 DEF Effects
  <2>. HIDE DEF fx, now, more, c
  <2>9. TracerOK(LeaveRegion(TI, r, vector, fx, now), enabled, Front(frames), more, touched, jitNames, made, region)
    BY <1>2, <1>6, <1>9, <2>5, <2>6, <2>7, <2>8, AnyReturns
  <2>10. TracerOK(TI', enabled', frames', content', touched', jitNames', made', region')
    BY <1>2, <1>9, <2>9
  <2>. QED
    BY <1>2, <2>10, StepInv
<1>. QED
  BY <1>8, <1>9

-----------------------------------------------------------------------------
(* The other steps, and the theorems.                                      *)

-----------------------------------------------------------------------------

\* A JitCall leaves a comment.
LEMMA JitCallInvokeInv == ASSUME TracingInv, JitCallInvoke PROVE TracingInv'
<1>. DEFINE line == Comment("JitCall")
            U == [TI EXCEPT !.log = Append(@, line)]
<1>1. TracerOK(TI, enabled, frames, content, touched, jitNames, made, region)
  BY DEF TracingInv
<1>2. ~TI.dumping
  BY <1>1 DEF TracerOK
<1>3. TI' = U /\ UNCHANGED <<enabled, frames, content, touched, jitNames, region, files, made, reproducer>>
  BY <1>2 DEF JitCallInvoke, appendToLog
<1>4. line \in Lines /\ line.k = "comment"
  <2>1. line = [k |-> "comment", text |-> "JitCall"]
    BY DEF Comment
  <2>2. line.k = "comment" /\ line \in [k : {"comment"}, text : {"JitCall"}]
    BY <2>1
  <2>. QED
    BY <2>2, Zenon DEF Lines
<1>. HIDE DEF line
<1>5. TracerOK(U, enabled, frames, content, touched, jitNames, made, region)
  BY <1>1, <1>4, CommentKeeps
<1>. HIDE DEF U
<1>6. TracerOK(TI', enabled', frames', content', touched', jitNames', made', region')
  BY <1>3, <1>5
<1>. QED
  BY <1>3, <1>6, StepInv

\* What it returned gets a name.
LEMMA JitCallReturnInv == ASSUME TracingInv, NEW p \in Pointers, JitCallReturn(p) PROVE TracingInv'
<1>. DEFINE U == getOrRegisterHandle(TI, p)
            K == IF isNew(TI, p) THEN jitNames \cup {U.varCount} ELSE jitNames
<1>1. TracerOK(TI, enabled, frames, content, touched, jitNames, made, region)
  BY DEF TracingInv
<1>2. TI' = U /\ jitNames' = K /\ UNCHANGED <<enabled, frames, content, touched, region, files, made, reproducer>>
  BY DEF JitCallReturn
<1>3. U = getOrRegisterHandle(TI, p) /\ K = IF isNew(TI, p) THEN jitNames \cup {U.varCount} ELSE jitNames
  OBVIOUS
<1>. HIDE DEF U, K
<1>4. TracerOK(U, enabled, frames, content, touched, K, made, region)
  BY <1>1, <1>3, JitNamed
<1>5. TracerOK(TI', enabled', frames', content', touched', jitNames', made', region')
  BY <1>2, <1>4
<1>. QED
  BY <1>2, <1>5, StepInv

\* Outside of calls the tracer knows of none.
LEMMA NoneAlive ==
  ASSUME NEW T, NEW on, NEW cont, NEW t, NEW J, NEW m, NEW reg, TracerOK(T, on, <<>>, cont, t, J, m, reg)
  PROVE  T.timerStack = <<>>
<1>1. HandlesFit(T) /\ FramesOK(T, <<>>)
  BY DEF TracerOK
<1>2. T.timerStack \in Seq(Functions)
  BY <1>1, InfoFields DEF HandlesFit
<1>3. Len(T.timerStack) <= 0
  BY <1>1 DEF FramesOK
<1>. QED
  BY <1>2, <1>3

\* A container is changed by others.
LEMMA TouchContainerInv == ASSUME TracingInv, NEW c \in Containers, TouchContainer(c) PROVE TracingInv'
<1>1. TracerOK(TI, enabled, frames, content, touched, jitNames, made, region)
  BY DEF TracingInv
<1>2. /\ frames = <<>> /\ content[c] # <<>> /\ content' = [content EXCEPT ![c] = <<>>]
      /\ touched' = touched \cup {outIndexFor(TI, c).idx}
      /\ UNCHANGED <<TI, enabled, frames, jitNames, region, files, made, reproducer>>
  BY DEF TouchContainer
<1>3. TI.timerStack = <<>>
  BY <1>1, <1>2, NoneAlive
<1>4. TracerOK(TI, enabled, frames, [content EXCEPT ![c] = <<>>], touched \cup {outIndexFor(TI, c).idx}, jitNames, made, region)
  BY <1>1, <1>2, <1>3, ContainerTouched
<1>5. TracerOK(TI', enabled', frames', content', touched', jitNames', made', region')
  BY <1>2, <1>4
<1>. QED
  BY <1>2, <1>5, StepInv

\* The test cases' clear.
LEMMA ClearInv == ASSUME TracingInv, Clear PROVE TracingInv'
<1>1. TI \in TraceInfos /\ ~TI.dumping
  BY DEF TracingInv, TracerOK, HandlesFit
<1>2. /\ frames = <<>> /\ ~TI.inRegion /\ TI' = clear(TI) /\ touched' = {} /\ jitNames' = {} /\ made' = <<>>
      /\ content' = [c \in Containers |-> <<>>]
      /\ UNCHANGED <<enabled, frames, region, files, reproducer>>
  BY DEF Clear
<1>3. Fresh(clear(TI))
  BY <1>1, <1>2, FreshAre
<1>4. TracerOK(clear(TI), enabled, <<>>, content', {}, {}, <<>>, region)
  BY <1>2, <1>3, FreshOK
<1>5. TracerOK(TI', enabled', frames', content', touched', jitNames', made', region')
  BY <1>2, <1>4
<1>. QED
  BY <1>2, <1>5, StepInv

\* A crash: the last file holds every call, and the one it came in.
LEMMA CrashInv == ASSUME TracingInv, DefaultProcessCrashHandler PROVE TracingInv'
<1>. DEFINE inside == TracedFrames # {}
            file == [lines |-> TI.log, calls |-> made, inside |-> inside]
            n == Len(TI.timerStack)
<1>1. TracerOK(TI, enabled, frames, content, touched, jitNames, made, region)
  BY DEF TracingInv
<1>2. HandlesFit(TI) /\ ~TI.dumping /\ FramesOK(TI, frames) /\ TimerFits(TI) /\ OpenOK(TI, frames, content) /\ CallsIn(TI.log) = made
  BY <1>1 DEF TracerOK, FramesOK, CallsOK
<1>3. writeToFile(TI) = TI.log
  BY <1>2, DumpChanges DEF writeToFile
<1>4. /\ reproducer' = <<file>> /\ TI' = NewTraceInfo /\ frames' = <<>> /\ content' = [c \in Containers |-> <<>>]
      /\ touched' = {} /\ jitNames' = {} /\ files' = <<>> /\ made' = <<>>
  BY <1>3 DEF DefaultProcessCrashHandler
<1>5. TI.log \in Seq(Lines) /\ DOMAIN TI.log = 1..Len(TI.log)
  BY <1>2, InfoFields DEF HandlesFit
<1>6. inside <=> TI.timerStack # <<>>
  <2>1. /\ TracedFrames = (Len(frames) - n + 1)..Len(frames)
        /\ Len(frames) \in Nat /\ n \in 0..Len(frames) /\ (TI.timerStack = <<>> <=> n = 0)
    BY <1>2, TracedAre DEF TracedFrames
  <2>. HIDE DEF n
  <2>. DEFINE k == Len(frames)
  <2>2. k \in Nat /\ n \in 0..k
    BY <2>1
  <2>3. TracedFrames = (k - n + 1)..k
    BY <2>1
  <2>. HIDE DEF k
  <2>4. n # 0 => k \in (k - n + 1)..k
    BY <2>2
  <2>5. n = 0 => (k - n + 1)..k = {}
    BY <2>2
  <2>. QED
    BY <2>1, <2>3, <2>4, <2>5
<1>. HIDE DEF inside
<1>7. \A i \in CallLines(TI.log) : TI.log[i].done <=> ~inside \/ \E j \in CallLines(TI.log) : j > i
  <2>. TAKE i \in CallLines(TI.log)
  <2>1. i \in 1..Len(TI.log) /\ TI.log[i].k = "call"
    BY <1>5 DEF CallLines
  <2>2. CASE TI.timerStack = <<>>
    BY <2>1, <2>2, <1>2, <1>6 DEF OpenOK
  <2>3. CASE TI.timerStack # <<>>
    <3>. DEFINE ix == Outer(TI, frames).index
    <3>1. OpenLine(TI.log, Outer(TI, frames))
      BY <2>3, <1>2 DEF OpenOK
    <3>2. /\ ix \in 1..Len(TI.log) /\ TI.log[ix].k = "call" /\ ~TI.log[ix].done
          /\ \A j \in 1..Len(TI.log) : j > ix => TI.log[j].k = "comment"
          /\ \A j \in 1..Len(TI.log) : j # ix /\ TI.log[j].k = "call" => TI.log[j].done
      BY <3>1 DEF OpenLine, OpenAt
    <3>. HIDE DEF ix
    <3>3. ix \in CallLines(TI.log) /\ \A j \in CallLines(TI.log) : ~ (j > ix)
      BY <3>2, <1>5 DEF CallLines
    <3>4. CASE i = ix
      BY <3>4, <3>2, <3>3, <2>3, <1>6
    <3>5. CASE i # ix
      <4>1. TI.log[i].done
        BY <3>2, <3>5, <2>1
      <4>2. ~ (i > ix)
        BY <3>3
      <4>3. ix > i
        BY <4>2, <3>2, <3>5, <2>1
      <4>. QED
        BY <4>1, <4>3, <3>3
    <3>. QED
      BY <3>4, <3>5
  <2>. QED
    BY <2>2, <2>3
<1>8. CrashReproducer'
  <2>1. /\ file.lines = TI.log /\ file.calls = made /\ file.inside = inside
    OBVIOUS
  <2>. HIDE DEF file
  <2>2. DOMAIN reproducer' = {1} /\ reproducer'[1] = file
    BY <1>4
  <2>3. \A k \in DOMAIN reproducer' : reproducer'[k] = file
    BY <2>2
  <2>. QED
    BY <2>1, <2>3, <1>2, <1>7 DEF CrashReproducer
<1>9. TracerOK(NewTraceInfo, enabled', <<>>, content', {}, {}, <<>>, region')
  BY <1>4, FreshAre, FreshOK
<1>10. TracerOK(TI', enabled', frames', content', touched', jitNames', made', region')
  BY <1>4, <1>9
<1>11. files' \in Seq(ExactFiles)
  BY <1>4
<1>. QED
  BY <1>8, <1>10, <1>11 DEF TracingInv

\* What calls return and add are pointers.
LEMMA MadeOf ==
  /\ <<>> \in Seq(PointerOrNull) /\ {<<>>} \cup Fills \subseteq Seq(PointerOrNull)
  /\ Vectors \subseteq Seq(PointerOrNull)
<1>. DEFINE S == Seq(PointerOrNull)
<1>1. <<>> \in S
  OBVIOUS
<1>2. Vectors \cup Fills \subseteq S
  BY TracingAssumption, Zenon
<1>. HIDE DEF S
<1>3. <<>> \in S /\ {<<>>} \cup Fills \subseteq S /\ Vectors \subseteq S
  BY <1>1, <1>2
<1>. QED
  BY <1>3 DEF S

\* Every step keeps the invariant.
LEMMA TracingStep == TracingInv /\ [TracingNext]_traceVars => TracingInv'
<1>. SUFFICES ASSUME TracingInv, [TracingNext]_traceVars PROVE TracingInv'
  OBVIOUS
<1>1. CASE UNCHANGED traceVars
  BY <1>1 DEF traceVars, TracingInv, CrashReproducer
<1>2. CASE TracingNext
  <2>1. CASE InitTracing
    BY <2>1, InitTracingInv
  <2>2. CASE StopTracing
    BY <2>2, StopTracingInv
  <2>3. CASE JitCallInvoke
    BY <2>3, JitCallInvokeInv
  <2>4. CASE Clear
    BY <2>4, ClearInv
  <2>5. CASE DefaultProcessCrashHandler
    BY <2>5, CrashInv
  <2>6. ASSUME NEW onStdErr \in BOOLEAN, NEW created \in BOOLEAN, StartTracing(onStdErr, created) PROVE TracingInv'
    BY <2>6, StartTracingInv
  <2>7. ASSUME NEW fn \in Functions, NEW arg \in PointerOrNull, NEW c \in Containers \cup {None}, EnterCall(fn, arg, c)
        PROVE  TracingInv'
    BY <2>7, EnterCallInv
  <2>8. ASSUME NEW new \in {<<>>} \cup Fills, NEW p \in PointerOrNull, ReturnCall(FALSE, p, <<>>, new) PROVE TracingInv'
    <3>1. new \in Seq(PointerOrNull) /\ <<>> \in Seq(PointerOrNull)
      BY MadeOf
    <3>. QED
      BY <2>8, <3>1, ReturnCallInv
  <2>9. ASSUME NEW new \in {<<>>} \cup Fills, NEW vec \in Vectors, ReturnCall(TRUE, None, vec, new) PROVE TracingInv'
    <3>1. new \in Seq(PointerOrNull) /\ vec \in Seq(PointerOrNull) /\ None \in PointerOrNull
      BY MadeOf DEF PointerOrNull
    <3>. QED
      BY <2>9, <3>1, ReturnCallInv
  <2>10. ASSUME NEW p \in Pointers, JitCallReturn(p) PROVE TracingInv'
    BY <2>10, JitCallReturnInv
  <2>11. ASSUME NEW c \in Containers, TouchContainer(c) PROVE TracingInv'
    BY <2>11, TouchContainerInv
  <2>. QED
    BY <1>2, <2>1, <2>2, <2>3, <2>4, <2>5, <2>6, <2>7, <2>8, <2>9, <2>10, <2>11 DEF TracingNext, Alive
<1>. QED
  BY <1>1, <1>2

\* At every moment the log is a program that compiles, but for the names JitCall
\* gave: TraceRegion's lines mention only what an earlier line declares, however
\* late its destructor names things.  Replaying it binds every name to the
\* pointer it had, and the call in progress is in it, marked as not returned.
THEOREM LogIsExact == TracingSpec => []LogExact
<1>1. TracingInit => TracingInv
  BY InitInv
<1>2. TracingInv /\ [TracingNext]_traceVars => TracingInv'
  BY TracingStep
<1>3. TracingInv => LogExact
  BY InvLogExact
<1>. QED
  BY <1>1, <1>2, <1>3, PTL DEF TracingSpec

\* The file StopRegion writes holds the calls of its region in their order and
\* none that the writing made, and the one the crash handler writes with
\* writeToFile every call since the last clear, of which only the one that
\* crashed has not returned.
THEOREM FilesAreExact == TracingSpec => []FilesExact
<1>1. TracingInit => TracingInv
  BY InitInv
<1>2. TracingInv /\ [TracingNext]_traceVars => TracingInv'
  BY TracingStep
<1>3. TracingInv => FilesExact
  BY InvFilesExact
<1>. QED
  BY <1>1, <1>2, <1>3, PTL DEF TracingSpec

=============================================================================
