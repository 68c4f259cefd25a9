------------------------ MODULE StreamCaptureProofs ------------------------
(***************************************************************************)
(* Proofs about the stream captures, for any streams, any nesting and any  *)
(* number of messages.                                                     *)
(*                                                                         *)
(* Each capture saved the descriptor its stream had below it, so the saved *)
(* descriptors of one stream form a chain that ends at the terminal        *)
(* (Chained).  With that, the file a stream may refer to belongs to no     *)
(* other stream, and a message is in the file of its capture or in the     *)
(* buffer of a stream that refers to that file (Placed): flushing moves    *)
(* it, and nothing else does.                                              *)
(***************************************************************************)
EXTENDS StreamCapture, SequenceTheorems, TLAPS

-----------------------------------------------------------------------------
(* The stack of captures. *)

\* The captures of stream s in a stack that redirect it, and those below the
\* k-th.
Open(stk, s) == {k \in DOMAIN stk : stk[k].m_FD = s /\ stk[k].m_DupFD # Closed}
\* The captures of stream s below the k-th.
Under(stk, s, k) == {j \in Open(stk, s) : j < k}

\* The file of stream s below the k-th capture.
FileUnder(stk, s, k) ==
    IF Under(stk, s, k) = {} THEN Terminal(s) ELSE stk[Max(Under(stk, s, k))].m_TempFile

\* A set that has a greatest or a least member if it has any.
HasMax(S) == S # {} => \E m \in S : \A j \in S : m >= j
HasMin(S) == S # {} => \E m \in S : \A j \in S : m <= j

\* Each capture saved what its stream referred to below it.
Chained(stk) ==
    \A s \in Streams :
        /\ HasMin(Open(stk, s))
        /\ \A k \in 1 .. Len(stk) + 1 : HasMax(Under(stk, s, k))
        /\ \A k \in Open(stk, s) : /\ stk[k].m_DupFD = FileUnder(stk, s, k)
                                   /\ stk[k].m_TempFile \in Files

\* Max is the greatest member.
LEMMA MaxOf ==
  ASSUME NEW S, S # {}, HasMax(S)
  PROVE  Max(S) \in S /\ \A j \in S : Max(S) >= j
BY DEF Max, HasMax

\* Min is the least one.
LEMMA MinOf ==
  ASSUME NEW S, S # {}, HasMin(S)
  PROVE  Min(S) \in S /\ \A j \in S : Min(S) <= j
BY DEF Min, HasMin

\* The files are different.
LEMMA FilesApart ==
  /\ \A s \in Streams : Terminal(s) \in Files /\ Redirect(s) \in Files
  /\ \A k \in 1 .. MaxDepth : Temp(k) \in Files
  /\ \A s, t \in Streams : /\ Terminal(s) = Terminal(t) => s = t
                           /\ Redirect(s) = Redirect(t) => s = t
                           /\ Terminal(s) # Redirect(t)
  /\ \A k, l \in Nat : Temp(k) = Temp(l) => k = l
  /\ \A s \in Streams, k \in Nat : Temp(k) # Terminal(s) /\ Temp(k) # Redirect(s)
  /\ Closed \notin Files
<1>1. \A s, t \in Streams : Terminal(s) = Terminal(t) => s = t
  BY DEF Terminal
<1>2. \A s, t \in Streams : Redirect(s) = Redirect(t) => s = t
  BY DEF Redirect
<1>3. \A s, t \in Streams : Terminal(s) # Redirect(t)
  BY DEF Terminal, Redirect
<1>4. \A k, l \in Nat : Temp(k) = Temp(l) => k = l
  BY DEF Temp
<1>5. \A s \in Streams, k \in Nat : Temp(k) # Terminal(s) /\ Temp(k) # Redirect(s)
  BY DEF Temp, Terminal, Redirect
<1>6. Closed \notin Files
  BY DEF Closed, Files, Temp, Terminal, Redirect
<1>. QED
  BY <1>1, <1>2, <1>3, <1>4, <1>5, <1>6 DEF Files

\* Pushing a capture adds it on top of the others.
LEMMA OpenAfterPush ==
  ASSUME NEW stk \in Seq(Captures), NEW c \in Captures, NEW s \in Streams
  PROVE  /\ Open(Append(stk, c), s) =
              Open(stk, s) \cup
                (IF c.m_FD = s /\ c.m_DupFD # Closed THEN {Len(stk) + 1} ELSE {})
         /\ \A k \in 1 .. Len(stk) + 1 : Under(Append(stk, c), s, k) = Under(stk, s, k)
         /\ Under(stk, s, Len(stk) + 1) = Open(stk, s)
<1>1. DOMAIN Append(stk, c) = 1 .. Len(stk) + 1 /\ DOMAIN stk = 1 .. Len(stk) /\ Len(stk) \in Nat
  OBVIOUS
<1>2. \A k \in 1 .. Len(stk) : Append(stk, c)[k] = stk[k]
  OBVIOUS
<1>3. Append(stk, c)[Len(stk) + 1] = c
  OBVIOUS
<1>4. \A k : k \in Open(Append(stk, c), s) <=>
              \/ k \in Open(stk, s)
              \/ k = Len(stk) + 1 /\ c.m_FD = s /\ c.m_DupFD # Closed
  BY <1>1, <1>2, <1>3 DEF Open
<1>5. Open(Append(stk, c), s) =
              Open(stk, s) \cup
                (IF c.m_FD = s /\ c.m_DupFD # Closed THEN {Len(stk) + 1} ELSE {})
  BY <1>4
<1>6. \A k \in 1 .. Len(stk) + 1 : Under(Append(stk, c), s, k) = Under(stk, s, k)
  BY <1>1, <1>4 DEF Under
<1>7. Under(stk, s, Len(stk) + 1) = Open(stk, s)
  BY <1>1 DEF Under, Open
<1>. QED
  BY <1>5, <1>6, <1>7

\* A capture on top saves what its stream referred to.
LEMMA PushChained ==
  ASSUME NEW stk \in Seq(Captures), Chained(stk), NEW c \in Captures,
         c.m_DupFD # Closed => /\ c.m_DupFD = FileUnder(stk, c.m_FD, Len(stk) + 1)
                               /\ c.m_TempFile \in Files
  PROVE  Chained(Append(stk, c))
<1>. DEFINE new == Append(stk, c)
<1>0. Len(stk) \in Nat /\ Len(new) = Len(stk) + 1 /\ DOMAIN new = 1 .. Len(stk) + 1 /\ DOMAIN stk = 1 .. Len(stk)
  OBVIOUS
<1>. SUFFICES ASSUME NEW s \in Streams
              PROVE  /\ HasMin(Open(new, s))
                     /\ \A k \in 1 .. Len(new) + 1 : HasMax(Under(new, s, k))
                     /\ \A k \in Open(new, s) : /\ new[k].m_DupFD = FileUnder(new, s, k)
                                                /\ new[k].m_TempFile \in Files
  BY DEF Chained
<1>1. /\ Open(new, s) = Open(stk, s) \cup
           (IF c.m_FD = s /\ c.m_DupFD # Closed THEN {Len(stk) + 1} ELSE {})
      /\ \A k \in 1 .. Len(stk) + 1 : Under(new, s, k) = Under(stk, s, k)
      /\ Under(stk, s, Len(stk) + 1) = Open(stk, s)
  BY OpenAfterPush
<1>2. Open(stk, s) \subseteq 1 .. Len(stk)
  BY <1>0 DEF Open
<1>3. HasMin(Open(new, s))
  BY <1>0, <1>1, <1>2 DEF HasMin, Chained
<1>4. Under(new, s, Len(stk) + 2) = Open(new, s)
  BY <1>0, <1>1, <1>2 DEF Under
<1>5. HasMax(Open(new, s))
  <2>1. HasMax(Open(stk, s))
    BY <1>0, <1>1 DEF Chained
  <2>. QED
    BY <1>0, <1>1, <1>2, <2>1 DEF HasMax
<1>6. \A k \in 1 .. Len(new) + 1 : HasMax(Under(new, s, k))
  <2>. SUFFICES ASSUME NEW k \in 1 .. Len(stk) + 2 PROVE HasMax(Under(new, s, k))
    BY <1>0
  <2>1. k = Len(stk) + 2 \/ k \in 1 .. Len(stk) + 1
    BY <1>0
  <2>. QED
    BY <1>1, <1>4, <1>5, <2>1 DEF Chained
<1>7. ASSUME NEW k \in 1 .. Len(stk) + 1
      PROVE  FileUnder(new, s, k) = FileUnder(stk, s, k)
  <2>1. Under(new, s, k) = Under(stk, s, k)
    BY <1>1
  <2>2. CASE Under(stk, s, k) = {}
    BY <2>1, <2>2 DEF FileUnder
  <2>3. CASE Under(stk, s, k) # {}
    <3>1. Max(Under(stk, s, k)) \in 1 .. Len(stk)
      BY <1>2, <2>3, MaxOf DEF Chained, Under
    <3>2. new[Max(Under(stk, s, k))] = stk[Max(Under(stk, s, k))]
      BY <3>1
    <3>. QED
      BY <2>1, <2>3, <3>2 DEF FileUnder
  <2>. QED
    BY <2>2, <2>3
<1>8. ASSUME NEW k \in Open(new, s)
      PROVE  new[k].m_DupFD = FileUnder(new, s, k) /\ new[k].m_TempFile \in Files
  <2>1. CASE k \in Open(stk, s)
    <3>1. new[k] = stk[k] /\ k \in 1 .. Len(stk) + 1
      BY <1>0, <1>2, <2>1
    <3>. QED
      BY <1>7, <2>1, <3>1 DEF Chained
  <2>2. CASE k \notin Open(stk, s)
    <3>1. k = Len(stk) + 1 /\ c.m_FD = s /\ c.m_DupFD # Closed
      BY <1>1, <2>2
    <3>2. new[k] = c
      BY <1>0, <3>1
    <3>. QED
      BY <1>0, <1>7, <3>1, <3>2
  <2>. QED
    BY <2>1, <2>2
<1>. QED
  BY <1>3, <1>6, <1>8

\* Popping the top capture leaves those below it.
LEMMA PopFacts ==
  ASSUME NEW stk \in Seq(Captures), stk # <<>>
  PROVE  /\ Front(stk) \in Seq(Captures) /\ Len(Front(stk)) = Len(stk) - 1
         /\ \A k \in 1 .. Len(stk) - 1 : Front(stk)[k] = stk[k]
<1>. DEFINE n == Len(stk) - 1
            q == SubSeq(stk, 1, n)
<1>1. n \in Nat /\ n \in Int /\ 1 \in Int /\ \A i \in 1 .. n : stk[i] \in Captures
  OBVIOUS
<1>. HIDE DEF n
<1>2. /\ q \in Seq(Captures)
      /\ Len(q) = IF 1 <= n THEN n - 1 + 1 ELSE 0
      /\ \A i \in 1 .. n - 1 + 1 : q[i] = stk[1 + i - 1]
  BY <1>1, SubSeqProperties
<1>3. Front(stk) = q
  BY DEF Front, n
<1>. HIDE DEF q
<1>4. Len(q) = n /\ \A i \in 1 .. n : q[i] = stk[i]
  BY <1>1, <1>2
<1>. QED
  BY <1>2, <1>3, <1>4 DEF n

\* The captures that are left.
LEMMA OpenAfterPop ==
  ASSUME NEW stk \in Seq(Captures), stk # <<>>, NEW s \in Streams
  PROVE  /\ Open(Front(stk), s) = Under(stk, s, Len(stk))
         /\ Open(stk, s) = Under(stk, s, Len(stk)) \cup
              (IF Last(stk).m_FD = s /\ Last(stk).m_DupFD # Closed THEN {Len(stk)} ELSE {})
         /\ \A k \in 1 .. Len(stk) : Under(Front(stk), s, k) = Under(stk, s, k)
         /\ Under(stk, s, Len(stk)) \subseteq 1 .. Len(stk) - 1
<1>1. Len(stk) \in Nat \ {0} /\ DOMAIN stk = 1 .. Len(stk)
  OBVIOUS
<1>2. /\ Front(stk) \in Seq(Captures) /\ Len(Front(stk)) = Len(stk) - 1
      /\ DOMAIN Front(stk) = 1 .. Len(stk) - 1
      /\ \A k \in 1 .. Len(stk) - 1 : Front(stk)[k] = stk[k]
  BY <1>1 DEF Front
<1>3. \A k : k \in Open(Front(stk), s) <=> k \in Open(stk, s) /\ k < Len(stk)
  BY <1>1, <1>2 DEF Open
<1>4. Open(Front(stk), s) = Under(stk, s, Len(stk))
  BY <1>3 DEF Under
<1>5. \A k \in 1 .. Len(stk) : Under(Front(stk), s, k) = Under(stk, s, k)
  BY <1>1, <1>3 DEF Under, Open
<1>6. \A k : k \in Open(stk, s) <=> \/ k \in Under(stk, s, Len(stk))
                                    \/ k = Len(stk) /\ Last(stk).m_FD = s /\ Last(stk).m_DupFD # Closed
  BY <1>1 DEF Open, Under, Last
<1>7. Open(stk, s) = Under(stk, s, Len(stk)) \cup
              (IF Last(stk).m_FD = s /\ Last(stk).m_DupFD # Closed THEN {Len(stk)} ELSE {})
  BY <1>6
<1>8. Under(stk, s, Len(stk)) \subseteq 1 .. Len(stk) - 1
  BY <1>1 DEF Open, Under
<1>. QED
  BY <1>4, <1>5, <1>7, <1>8

\* The chain below the top stays as it was.
LEMMA PopChained ==
  ASSUME NEW stk \in Seq(Captures), stk # <<>>, Chained(stk)
  PROVE  /\ Chained(Front(stk))
         /\ \A s \in Streams, k \in 1 .. Len(stk) :
              FileUnder(Front(stk), s, k) = FileUnder(stk, s, k)
<1>. DEFINE new == Front(stk)
<1>0. /\ Len(stk) \in Nat \ {0} /\ new \in Seq(Captures) /\ Len(new) = Len(stk) - 1
      /\ \A k \in 1 .. Len(stk) - 1 : new[k] = stk[k]
  <2>1. Len(stk) \in Nat \ {0}
    OBVIOUS
  <2>. QED
    BY <2>1 DEF Front
<1>1. ASSUME NEW s \in Streams
      PROVE  /\ Open(new, s) = Under(stk, s, Len(stk))
             /\ Open(stk, s) = Under(stk, s, Len(stk)) \cup
                  (IF Last(stk).m_FD = s /\ Last(stk).m_DupFD # Closed THEN {Len(stk)} ELSE {})
             /\ \A k \in 1 .. Len(stk) : Under(new, s, k) = Under(stk, s, k)
             /\ Under(stk, s, Len(stk)) \subseteq 1 .. Len(stk) - 1
  BY OpenAfterPop
<1>2. ASSUME NEW s \in Streams, NEW k \in 1 .. Len(stk)
      PROVE  FileUnder(new, s, k) = FileUnder(stk, s, k)
  <2>1. Under(new, s, k) = Under(stk, s, k)
    BY <1>1
  <2>2. CASE Under(stk, s, k) = {}
    BY <2>1, <2>2 DEF FileUnder
  <2>3. CASE Under(stk, s, k) # {}
    <3>1. Max(Under(stk, s, k)) \in Under(stk, s, k)
      BY <1>0, <2>3, MaxOf DEF Chained
    <3>2. Under(stk, s, k) \subseteq 1 .. Len(stk) - 1
      BY <1>0 DEF Under, Open
    <3>. QED
      BY <1>0, <2>1, <2>3, <3>1, <3>2 DEF FileUnder
  <2>. QED
    BY <2>2, <2>3
<1>3. ASSUME NEW s \in Streams
      PROVE  /\ HasMin(Open(new, s))
             /\ \A k \in 1 .. Len(new) + 1 : HasMax(Under(new, s, k))
             /\ \A k \in Open(new, s) : /\ new[k].m_DupFD = FileUnder(new, s, k)
                                        /\ new[k].m_TempFile \in Files
  <2>1. HasMin(Open(new, s))
    <3>1. HasMin(Open(stk, s))
      BY DEF Chained
    <3>. QED
      BY <1>0, <1>1, <3>1 DEF HasMin
  <2>2. \A k \in 1 .. Len(new) + 1 : HasMax(Under(new, s, k))
    BY <1>0, <1>1 DEF Chained
  <2>3. ASSUME NEW k \in Open(new, s)
        PROVE  new[k].m_DupFD = FileUnder(new, s, k) /\ new[k].m_TempFile \in Files
    <3>1. k \in Open(stk, s) /\ k \in 1 .. Len(stk) - 1
      BY <1>1
    <3>2. stk[k].m_DupFD = FileUnder(stk, s, k) /\ stk[k].m_TempFile \in Files
      BY <3>1 DEF Chained
    <3>3. FileUnder(new, s, k) = FileUnder(stk, s, k)
      BY <1>0, <1>2, <3>1
    <3>. QED
      BY <1>0, <3>1, <3>2, <3>3
  <2>. QED
    BY <2>1, <2>2, <2>3
<1>. QED
  BY <1>2, <1>3 DEF Chained

-----------------------------------------------------------------------------
(* The descriptors. *)

\* Where a stream that prints now goes.
Now == \A s \in Streams : fd[s] = FileUnder(stack, s, Len(stack) + 1)

\* The files of the captures.
OwnFiles ==
    \A k \in DOMAIN stack : stack[k].m_DupFD # Closed =>
        stack[k].m_TempFile = IF outOfProcess THEN Redirect(stack[k].m_FD) ELSE Temp(k)

\* The inductive invariant of the descriptors.
DescriptorInv == TypeOK /\ Chained(stack) /\ Now /\ OwnFiles

\* Flushing keeps the types of the contents.
LEMMA FlushedType ==
  ASSUME TypeOK, NEW S \in SUBSET Streams, NEW c \in [Files -> [Processes -> Outputs]]
  PROVE  Flushed(S, c) \in [Files -> [Processes -> Outputs]]
<1>. SUFFICES ASSUME NEW f \in Files, NEW p \in Processes
              PROVE  (IF p = "host" /\ \E s \in S : fd[s] = f
                      THEN c[f][p] \o buffer[CHOOSE s \in S : fd[s] = f] ELSE c[f][p]) \in Outputs
  BY DEF Flushed
<1>1. c[f][p] \in Outputs
  OBVIOUS
<1>2. ASSUME \E s \in S : fd[s] = f
      PROVE  buffer[CHOOSE s \in S : fd[s] = f] \in Outputs
  BY <1>2 DEF TypeOK
<1>3. \A a, b \in Outputs : a \o b \in Outputs
  BY DEF Outputs
<1>. QED
  BY <1>1, <1>2, <1>3

\* A drained buffer is a buffer.
LEMMA DrainedType ==
  ASSUME TypeOK, NEW S \in SUBSET Streams
  PROVE  Drained(S) \in [Streams -> Outputs]
<1>1. <<>> \in Outputs
  BY DEF Outputs
<1>. QED
  BY <1>1 DEF Drained, TypeOK

\* There is room for one message more.
LEMMA AppendOutput ==
  ASSUME TypeOK, printed < MaxMessages
  PROVE  /\ printed \in 0 .. MaxMessages /\ printed + 1 \in 0 .. MaxMessages
         /\ \A q \in Outputs : Append(q, printed) \in Outputs
<1>1. printed \in 0 .. MaxMessages /\ MaxMessages \in Nat
  BY CaptureAssumption DEF TypeOK
<1>. QED
  BY <1>1 DEF Outputs

\* Recording a message keeps the types of the expectations.
LEMMA RecordType ==
  ASSUME DescriptorInv, printed < MaxMessages, NEW s \in Streams, NEW p \in Processes, Record(p, s)
  PROVE  /\ expected' \in Seq([Processes -> Outputs]) /\ Len(expected') = Len(expected)
         /\ outside' \in [Processes -> [Streams -> Outputs]]
<1>0. \A q \in Outputs : Append(q, printed) \in Outputs
  BY AppendOutput DEF DescriptorInv
<1>1. CASE CapturesOf(s) # {}
  <2>. DEFINE k == Max(CapturesOf(s))
  <2>1. CapturesOf(s) = Open(stack, s) /\ Open(stack, s) = Under(stack, s, Len(stack) + 1)
    BY DEF CapturesOf, Open, Under, DescriptorInv, TypeOK
  <2>2. Len(stack) + 1 \in 1 .. Len(stack) + 1
    BY DEF DescriptorInv, TypeOK
  <2>3. HasMax(CapturesOf(s))
    BY <2>1, <2>2 DEF DescriptorInv, Chained
  <2>4. k \in CapturesOf(s)
    BY <1>1, <2>3, MaxOf
  <2>5. k \in 1 .. Len(expected) /\ expected \in Seq([Processes -> Outputs])
    BY <2>4 DEF CapturesOf, DescriptorInv, TypeOK
  <2>. HIDE DEF k
  <2>6. expected[k] \in [Processes -> Outputs]
    BY <2>5
  <2>7. [expected[k] EXCEPT ![p] = Append(expected[k][p], printed)] \in [Processes -> Outputs]
    BY <1>0, <2>6
  <2>8. expected' = [expected EXCEPT ![k] = [expected[k] EXCEPT ![p] = Append(expected[k][p], printed)]]
    BY <1>1, <2>5 DEF Record, k
  <2>9. outside' = outside
    BY <1>1 DEF Record
  <2>. QED
    BY <2>5, <2>7, <2>8, <2>9 DEF DescriptorInv, TypeOK
<1>2. CASE CapturesOf(s) = {}
  <2>1. outside \in [Processes -> [Streams -> Outputs]] /\ expected \in Seq([Processes -> Outputs])
    BY DEF DescriptorInv, TypeOK
  <2>2. /\ expected' = expected
        /\ outside' = [outside EXCEPT ![p] = [outside[p] EXCEPT ![s] = Append(outside[p][s], printed)]]
    BY <1>2 DEF Record
  <2>3. [outside[p] EXCEPT ![s] = Append(outside[p][s], printed)] \in [Streams -> Outputs]
    BY <1>0, <2>1
  <2>. QED
    BY <2>1, <2>2, <2>3
<1>. QED
  BY <1>1, <1>2

\* Printing and flushing leave the descriptors and the captures alone.
LEMMA SameCaptures ==
  ASSUME DescriptorInv, TypeOK', UNCHANGED <<outOfProcess, fd, stack>>
  PROVE  DescriptorInv'
BY DEF DescriptorInv, Now, OwnFiles, Chained, FileUnder

\* Printing changes no descriptor.
LEMMA HostPrintsDescriptors ==
  ASSUME DescriptorInv, ~aborted, UNCHANGED outOfProcess, NEW s \in Streams, HostPrints(s)
  PROVE  DescriptorInv'
<1>1. printed < MaxMessages /\ Record("host", s) /\ UNCHANGED <<fd, remote, read, stack, aborted, last>>
  BY DEF HostPrints
<1>2. /\ printed + 1 \in 0 .. MaxMessages
      /\ \A q \in Outputs : Append(q, printed) \in Outputs
  BY <1>1, AppendOutput DEF DescriptorInv
<1>3. /\ expected' \in Seq([Processes -> Outputs]) /\ Len(expected') = Len(expected)
      /\ outside' \in [Processes -> [Streams -> Outputs]]
  BY <1>1, RecordType DEF Processes
<1>4. content' \in [Files -> [Processes -> Outputs]] /\ buffer' \in [Streams -> Outputs]
  <2>1. CASE s \in Buffered
    <3>1. buffer \in [Streams -> Outputs] /\ content \in [Files -> [Processes -> Outputs]]
      BY DEF DescriptorInv, TypeOK
    <3>2. buffer' = [buffer EXCEPT ![s] = Append(buffer[s], printed)] /\ content' = content
      BY <2>1 DEF HostPrints
    <3>3. Append(buffer[s], printed) \in Outputs
      BY <1>2, <3>1
    <3>. QED
      BY <3>1, <3>2, <3>3
  <2>2. CASE s \notin Buffered
    <3>1. fd[s] \in Files /\ "host" \in Processes
      BY DEF DescriptorInv, TypeOK, Processes
    <3>2. content[fd[s]] \in [Processes -> Outputs]
      BY <3>1 DEF DescriptorInv, TypeOK
    <3>3. [content[fd[s]] EXCEPT !["host"] = Append(content[fd[s]]["host"], printed)]
            \in [Processes -> Outputs]
      BY <1>2, <3>1, <3>2
    <3>4. content' = [content EXCEPT ![fd[s]] =
                        [content[fd[s]] EXCEPT !["host"] = Append(content[fd[s]]["host"], printed)]]
      BY <2>2 DEF HostPrints
    <3>5. buffer' = buffer
      BY <2>2 DEF HostPrints
    <3>. QED
      BY <3>3, <3>4, <3>5 DEF DescriptorInv, TypeOK
  <2>. QED
    BY <2>1, <2>2
<1>5. TypeOK'
  BY <1>1, <1>2, <1>3, <1>4 DEF HostPrints, DescriptorInv, TypeOK
<1>. QED
  BY <1>1, <1>5, SameCaptures

\* Nor does printing in the executor.
LEMMA ExecutorPrintsDescriptors ==
  ASSUME DescriptorInv, ~aborted, UNCHANGED outOfProcess, NEW s \in Streams, ExecutorPrints(s)
  PROVE  DescriptorInv'
<1>1. printed < MaxMessages /\ Record("executor", s) /\ UNCHANGED <<fd, buffer, read, stack, aborted, last>>
  BY DEF ExecutorPrints
<1>2. /\ printed + 1 \in 0 .. MaxMessages
      /\ \A q \in Outputs : Append(q, printed) \in Outputs
  BY <1>1, AppendOutput DEF DescriptorInv
<1>3. /\ expected' \in Seq([Processes -> Outputs]) /\ Len(expected') = Len(expected)
      /\ outside' \in [Processes -> [Streams -> Outputs]]
  BY <1>1, RecordType DEF Processes
<1>4. content' \in [Files -> [Processes -> Outputs]] /\ remote' \in [Streams -> Outputs]
  <2>0. remote \in [Streams -> Outputs] /\ content \in [Files -> [Processes -> Outputs]]
    BY DEF DescriptorInv, TypeOK
  <2>1. CASE s \in Buffered
    <3>1. remote' = [remote EXCEPT ![s] = Append(remote[s], printed)] /\ content' = content
      BY <2>1 DEF ExecutorPrints
    <3>2. Append(remote[s], printed) \in Outputs
      BY <1>2, <2>0
    <3>. QED
      BY <2>0, <3>1, <3>2
  <2>2. CASE s \notin Buffered
    <3>1. Redirect(s) \in Files /\ "executor" \in Processes
      BY FilesApart DEF Processes
    <3>2. content[Redirect(s)] \in [Processes -> Outputs]
      BY <2>0, <3>1
    <3>3. [content[Redirect(s)] EXCEPT !["executor"] = Append(content[Redirect(s)]["executor"], printed)]
            \in [Processes -> Outputs]
      BY <1>2, <3>1, <3>2
    <3>4. /\ content' = [content EXCEPT ![Redirect(s)] =
                           [content[Redirect(s)] EXCEPT !["executor"] =
                              Append(content[Redirect(s)]["executor"], printed)]]
          /\ remote' = remote
      BY <2>2 DEF ExecutorPrints
    <3>. QED
      BY <2>0, <3>3, <3>4
  <2>. QED
    BY <2>1, <2>2
<1>5. TypeOK'
  BY <1>1, <1>2, <1>3, <1>4 DEF ExecutorPrints, DescriptorInv, TypeOK
<1>. QED
  BY <1>1, <1>5, SameCaptures

\* Nor does the executor when it writes its buffer out.
LEMMA ExecutorFlushDescriptors ==
  ASSUME DescriptorInv, ~aborted, UNCHANGED outOfProcess, NEW s \in Streams, ExecutorFlush(s)
  PROVE  DescriptorInv'
<1>1. /\ content' = [content EXCEPT ![Redirect(s)] =
                       [content[Redirect(s)] EXCEPT !["executor"] =
                          content[Redirect(s)]["executor"] \o remote[s]]]
      /\ remote' = [remote EXCEPT ![s] = <<>>]
      /\ UNCHANGED <<fd, buffer, read, stack, printed, aborted, expected, outside, last>>
  BY DEF ExecutorFlush
<1>2. /\ content \in [Files -> [Processes -> Outputs]] /\ remote \in [Streams -> Outputs]
      /\ Redirect(s) \in Files /\ "executor" \in Processes
  BY FilesApart DEF DescriptorInv, TypeOK, Processes
<1>3. content' \in [Files -> [Processes -> Outputs]] /\ remote' \in [Streams -> Outputs]
  <2>1. content[Redirect(s)] \in [Processes -> Outputs] /\ remote[s] \in Outputs
    BY <1>2
  <2>2. \A a, b \in Outputs : a \o b \in Outputs
    BY DEF Outputs
  <2>3. content[Redirect(s)]["executor"] \o remote[s] \in Outputs
    BY <1>2, <2>1, <2>2
  <2>4. [content[Redirect(s)] EXCEPT !["executor"] = content[Redirect(s)]["executor"] \o remote[s]]
          \in [Processes -> Outputs]
    BY <2>1, <2>3
  <2>5. <<>> \in Outputs
    BY DEF Outputs
  <2>. QED
    BY <1>1, <1>2, <2>4, <2>5
<1>4. TypeOK'
  BY <1>1, <1>3 DEF DescriptorInv, TypeOK
<1>. QED
  BY <1>1, <1>4, SameCaptures

\* Nor does a flush.
LEMMA FlushDescriptors ==
  ASSUME DescriptorInv, ~aborted, UNCHANGED outOfProcess, NEW s \in Streams, Flush(s)
  PROVE  DescriptorInv'
<1>1. content' \in [Files -> [Processes -> Outputs]] /\ buffer' \in [Streams -> Outputs]
  <2>1. {s} \in SUBSET Streams /\ content \in [Files -> [Processes -> Outputs]] /\ TypeOK
    BY DEF DescriptorInv, TypeOK
  <2>2. content' = Flushed({s}, content) /\ buffer' = Drained({s})
    BY DEF Flush
  <2>. QED
    BY <2>1, <2>2, FlushedType, DrainedType
<1>2. TypeOK'
  BY <1>1 DEF Flush, DescriptorInv, TypeOK
<1>. QED
  BY <1>2, SameCaptures DEF Flush

\* What the constructor of a capture leaves.
LEMMA BeginStack ==
  ASSUME DescriptorInv, Len(stack) < MaxDepth, NEW s \in Streams
  PROVE  /\ CaptureFile(s) \in Files
         /\ \A owns \in BOOLEAN :
              [m_FD |-> s, m_TempFile |-> CaptureFile(s), m_OwnsFile |-> owns, m_DupFD |-> fd[s]]
                \in Captures
         /\ fd[s] # Closed /\ fd[s] = FileUnder(stack, s, Len(stack) + 1)
<1>1. CaptureFile(s) \in Files
  <2>1. Len(stack) + 1 \in 1 .. MaxDepth
    BY CaptureAssumption DEF DescriptorInv, TypeOK
  <2>. QED
    BY <2>1, FilesApart DEF CaptureFile
<1>2. fd[s] \in Files /\ fd[s] # Closed
  BY FilesApart DEF DescriptorInv, TypeOK
<1>. QED
  BY <1>1, <1>2 DEF Captures, DescriptorInv, Now

\* A capture saves the descriptor it replaces.
LEMMA BeginDescriptors ==
  ASSUME DescriptorInv, ~aborted, UNCHANGED outOfProcess, NEW s \in Streams,
         BeginStdStreamCapture(s)
  PROVE  DescriptorInv'
<1>. DEFINE c == [m_FD |-> s, m_TempFile |-> CaptureFile(s), m_OwnsFile |-> ~outOfProcess,
                  m_DupFD |-> fd[s]]
<1>1. /\ Len(stack) < MaxDepth /\ stack' = Append(stack, c) /\ fd' = [fd EXCEPT ![s] = CaptureFile(s)]
      /\ expected' = Append(expected, [Empty EXCEPT !["executor"] = remote[s]])
      /\ outside' = [outside EXCEPT !["executor"] = [outside["executor"] EXCEPT ![s] = <<>>]]
      /\ UNCHANGED <<remote, read, printed, aborted, last>>
  BY DEF BeginStdStreamCapture
<1>2. /\ CaptureFile(s) \in Files /\ c \in Captures
      /\ c.m_DupFD = FileUnder(stack, s, Len(stack) + 1) /\ c.m_DupFD # Closed
  BY <1>1, BeginStack DEF DescriptorInv, TypeOK
<1>3. c.m_FD = s /\ c.m_TempFile = CaptureFile(s)
  OBVIOUS
<1>. HIDE DEF c
<1>4. /\ stack \in Seq(Captures) /\ stack' \in Seq(Captures) /\ Len(stack') = Len(stack) + 1
      /\ Len(stack) \in Nat /\ DOMAIN stack = 1 .. Len(stack) /\ DOMAIN stack' = 1 .. Len(stack) + 1
      /\ \A k \in 1 .. Len(stack) : stack'[k] = stack[k]
      /\ stack'[Len(stack) + 1] = c
  BY <1>1, <1>2 DEF DescriptorInv, TypeOK
<1>5. Empty \in [Processes -> Outputs]
  BY DEF Empty, Outputs
<1>6. content' \in [Files -> [Processes -> Outputs]] /\ buffer' \in [Streams -> Outputs]
  <2>. DEFINE cleared == [content EXCEPT ![CaptureFile(s)] = Empty]
  <2>1. {s} \in SUBSET Streams /\ cleared \in [Files -> [Processes -> Outputs]] /\ TypeOK
    BY <1>5 DEF DescriptorInv, TypeOK
  <2>2. content' = Flushed({s}, cleared) /\ buffer' = Drained({s})
    BY DEF BeginStdStreamCapture, FlushedAtBegin
  <2>. QED
    BY <2>1, <2>2, FlushedType, DrainedType
<1>7. TypeOK'
  <2>1. expected' \in Seq([Processes -> Outputs]) /\ Len(expected') = Len(expected) + 1
    <3>1. remote[s] \in Outputs
      BY DEF DescriptorInv, TypeOK
    <3>2. [Empty EXCEPT !["executor"] = remote[s]] \in [Processes -> Outputs]
      BY <1>5, <3>1
    <3>3. \A e \in [Processes -> Outputs] :
            /\ Append(expected, e) \in Seq([Processes -> Outputs])
            /\ Len(Append(expected, e)) = Len(expected) + 1
      BY DEF DescriptorInv, TypeOK
    <3>. QED
      BY <1>1, <3>2, <3>3
  <2>2. fd' \in [Streams -> Files]
    BY <1>1, <1>2 DEF DescriptorInv, TypeOK
  <2>3. Len(stack') <= MaxDepth
    BY <1>1, <1>4, CaptureAssumption
  <2>4. outside' \in [Processes -> [Streams -> Outputs]]
    <3>1. outside \in [Processes -> [Streams -> Outputs]] /\ "executor" \in Processes /\ <<>> \in Outputs
      BY DEF DescriptorInv, TypeOK, Processes, Outputs
    <3>2. [outside["executor"] EXCEPT ![s] = <<>>] \in [Streams -> Outputs]
      BY <3>1
    <3>. QED
      BY <1>1, <3>1, <3>2
  <2>. QED
    BY <1>1, <1>4, <1>6, <2>1, <2>2, <2>3, <2>4 DEF DescriptorInv, TypeOK
<1>8. Chained(stack')
  BY <1>1, <1>2, <1>3, <1>4, PushChained DEF DescriptorInv
<1>9. Now'
  <2>. SUFFICES ASSUME NEW t \in Streams
                PROVE  fd'[t] = FileUnder(stack', t, Len(stack) + 2)
    BY <1>4 DEF Now
  <2>1. Under(stack', t, Len(stack) + 2) = Open(stack', t)
    BY <1>4 DEF Under, Open
  <2>2. /\ Open(stack', t) = Open(stack, t) \cup
             (IF c.m_FD = t /\ c.m_DupFD # Closed THEN {Len(stack) + 1} ELSE {})
        /\ Under(stack, t, Len(stack) + 1) = Open(stack, t)
    BY <1>1, <1>2, <1>4, OpenAfterPush
  <2>3. Open(stack, t) \subseteq 1 .. Len(stack)
    BY <1>4 DEF Open
  <2>4. CASE t = s
    <3>1. Len(stack) + 1 \in Open(stack', t) /\ \A j \in Open(stack', t) : Len(stack) + 1 >= j
      BY <1>2, <1>3, <1>4, <2>2, <2>3, <2>4
    <3>2. HasMax(Open(stack', t)) /\ Open(stack', t) # {} /\ Open(stack', t) \subseteq Nat
      BY <1>4, <2>2, <2>3, <3>1 DEF HasMax
    <3>3. Max(Open(stack', t)) \in Open(stack', t) /\ Max(Open(stack', t)) >= Len(stack) + 1
      BY <3>1, <3>2, MaxOf
    <3>4. Max(Open(stack', t)) = Len(stack) + 1
      BY <1>4, <3>1, <3>2, <3>3
    <3>5. fd'[t] = CaptureFile(s)
      BY <1>1, <2>4 DEF DescriptorInv, TypeOK
    <3>. QED
      BY <1>3, <1>4, <2>1, <3>2, <3>4, <3>5 DEF FileUnder
  <2>5. CASE t # s
    <3>1. Open(stack', t) = Open(stack, t)
      BY <1>3, <2>2, <2>5
    <3>2. fd'[t] = fd[t] /\ fd[t] = FileUnder(stack, t, Len(stack) + 1)
      BY <1>1, <2>5 DEF DescriptorInv, TypeOK, Now
    <3>3. CASE Open(stack, t) = {}
      BY <2>1, <2>2, <3>1, <3>2, <3>3 DEF FileUnder
    <3>4. CASE Open(stack, t) # {}
      <4>1. HasMax(Under(stack, t, Len(stack) + 1))
        BY <1>4 DEF DescriptorInv, Chained
      <4>2. Max(Open(stack, t)) \in Open(stack, t)
        BY <2>2, <3>4, <4>1, MaxOf
      <4>3. stack'[Max(Open(stack, t))] = stack[Max(Open(stack, t))]
        BY <1>4, <2>3, <4>2
      <4>. QED
        BY <2>1, <2>2, <3>1, <3>2, <3>4, <4>3 DEF FileUnder
    <3>. QED
      BY <3>3, <3>4
  <2>. QED
    BY <2>4, <2>5
<1>10. OwnFiles'
  <2>. SUFFICES ASSUME NEW k \in 1 .. Len(stack) + 1, stack'[k].m_DupFD # Closed
                PROVE  stack'[k].m_TempFile =
                         IF outOfProcess THEN Redirect(stack'[k].m_FD) ELSE Temp(k)
    BY <1>4 DEF OwnFiles
  <2>1. CASE k \in 1 .. Len(stack)
    BY <1>4, <2>1 DEF DescriptorInv, OwnFiles
  <2>2. CASE k \notin 1 .. Len(stack)
    <3>1. k = Len(stack) + 1
      BY <1>4, <2>2
    <3>. QED
      BY <1>3, <1>4, <3>1 DEF CaptureFile
  <2>. QED
    BY <2>1, <2>2
<1>. QED
  BY <1>7, <1>8, <1>9, <1>10 DEF DescriptorInv

\* A capture without a file replaces nothing.
LEMMA BeginWithoutFileDescriptors ==
  ASSUME DescriptorInv, ~aborted, UNCHANGED outOfProcess, NEW s \in Streams,
         BeginWithoutFile(s)
  PROVE  DescriptorInv'
<1>. DEFINE c == [m_FD |-> s, m_TempFile |-> Closed, m_OwnsFile |-> TRUE, m_DupFD |-> Closed]
<1>1. /\ Len(stack) < MaxDepth /\ stack' = Append(stack, c)
      /\ expected' = Append(expected, Empty)
      /\ UNCHANGED <<fd, content, buffer, remote, read, printed, aborted, outside, last>>
  BY DEF BeginWithoutFile
<1>2. c \in Captures /\ c.m_DupFD = Closed
  BY DEF Captures
<1>. HIDE DEF c
<1>4. /\ stack \in Seq(Captures) /\ stack' \in Seq(Captures) /\ Len(stack') = Len(stack) + 1
      /\ Len(stack) \in Nat /\ DOMAIN stack = 1 .. Len(stack) /\ DOMAIN stack' = 1 .. Len(stack) + 1
      /\ \A k \in 1 .. Len(stack) : stack'[k] = stack[k]
      /\ stack'[Len(stack) + 1] = c
  BY <1>1, <1>2 DEF DescriptorInv, TypeOK
<1>5. Empty \in [Processes -> Outputs]
  BY DEF Empty, Outputs
<1>7. TypeOK'
  <2>1. expected' \in Seq([Processes -> Outputs]) /\ Len(expected') = Len(expected) + 1
    BY <1>1, <1>5 DEF DescriptorInv, TypeOK
  <2>3. Len(stack') <= MaxDepth
    BY <1>1, <1>4, CaptureAssumption
  <2>. QED
    BY <1>1, <1>4, <2>1, <2>3 DEF DescriptorInv, TypeOK
<1>8. Chained(stack')
  BY <1>1, <1>2, <1>4, PushChained DEF DescriptorInv
<1>9. Now'
  <2>. SUFFICES ASSUME NEW t \in Streams
                PROVE  fd[t] = FileUnder(stack', t, Len(stack) + 2)
    BY <1>1, <1>4 DEF Now
  <2>1. Under(stack', t, Len(stack) + 2) = Open(stack', t)
    BY <1>4 DEF Under, Open
  <2>2. /\ Open(stack', t) = Open(stack, t)
        /\ Under(stack, t, Len(stack) + 1) = Open(stack, t)
    <3>1. /\ Open(stack', t) = Open(stack, t) \cup
               (IF c.m_FD = t /\ c.m_DupFD # Closed THEN {Len(stack) + 1} ELSE {})
          /\ Under(stack, t, Len(stack) + 1) = Open(stack, t)
      <4>1. stack \in Seq(Captures) /\ c \in Captures
        BY <1>2, <1>4
      <4>2. /\ Open(Append(stack, c), t) = Open(stack, t) \cup
                   (IF c.m_FD = t /\ c.m_DupFD # Closed THEN {Len(stack) + 1} ELSE {})
            /\ Under(stack, t, Len(stack) + 1) = Open(stack, t)
        BY <4>1, OpenAfterPush
      <4>. QED
        BY <1>1, <4>2
    <3>. QED
      BY <1>2, <3>1
  <2>3. Open(stack, t) \subseteq 1 .. Len(stack)
    BY <1>4 DEF Open
  <2>4. fd[t] = FileUnder(stack, t, Len(stack) + 1)
    BY DEF DescriptorInv, Now
  <2>5. CASE Open(stack, t) = {}
    BY <2>1, <2>2, <2>4, <2>5 DEF FileUnder
  <2>6. CASE Open(stack, t) # {}
    <3>1. HasMax(Under(stack, t, Len(stack) + 1))
      BY <1>4 DEF DescriptorInv, Chained
    <3>2. Max(Open(stack, t)) \in Open(stack, t)
      BY <2>2, <2>6, <3>1, MaxOf
    <3>3. stack'[Max(Open(stack, t))] = stack[Max(Open(stack, t))]
      BY <1>4, <2>3, <3>2
    <3>. QED
      BY <2>1, <2>2, <2>4, <2>6, <3>3 DEF FileUnder
  <2>. QED
    BY <2>5, <2>6
<1>10. OwnFiles'
  BY <1>1, <1>2, <1>4 DEF DescriptorInv, OwnFiles
<1>. QED
  BY <1>7, <1>8, <1>9, <1>10 DEF DescriptorInv

\* What the capture on top of the stack is, and what popping it leaves.
LEMMA EndStack ==
  ASSUME DescriptorInv, stack # <<>>, Last(stack).m_DupFD # Closed
  PROVE  /\ Last(stack) \in Captures /\ Len(stack) \in Nat \ {0}
         /\ Len(stack) \in Open(stack, Last(stack).m_FD) /\ Last(stack) = stack[Len(stack)]
         /\ Last(stack).m_DupFD = FileUnder(stack, Last(stack).m_FD, Len(stack))
         /\ Last(stack).m_DupFD \in Files /\ Last(stack).m_TempFile \in Files
         /\ fd[Last(stack).m_FD] = Last(stack).m_TempFile
         /\ \A s \in Streams : s # Last(stack).m_FD => fd[s] = FileUnder(stack, s, Len(stack))
<1>1. /\ Len(stack) \in Nat \ {0} /\ Last(stack) = stack[Len(stack)] /\ Last(stack) \in Captures
      /\ DOMAIN stack = 1 .. Len(stack) /\ stack \in Seq(Captures)
  BY DEF Last, DescriptorInv, TypeOK
<1>. DEFINE s == Last(stack).m_FD
            n == Len(stack)
<1>2. n \in Open(stack, s) /\ s \in Streams
  BY <1>1 DEF Open, Captures
<1>3. Last(stack).m_DupFD = FileUnder(stack, s, n) /\ Last(stack).m_TempFile \in Files
  BY <1>1, <1>2 DEF DescriptorInv, Chained
<1>4. Last(stack).m_DupFD \in Files
  BY <1>1 DEF Captures
<1>5. \A t \in Streams : Under(stack, t, n + 1) = Open(stack, t)
  BY <1>1 DEF Under, Open
<1>6. \A t \in Streams : HasMax(Open(stack, t))
  BY <1>1, <1>5 DEF DescriptorInv, Chained
<1>7. fd[s] = Last(stack).m_TempFile
  <2>1. Max(Open(stack, s)) \in Open(stack, s) /\ \A j \in Open(stack, s) : Max(Open(stack, s)) >= j
    BY <1>2, <1>6, MaxOf
  <2>2. Open(stack, s) \subseteq 1 .. n
    BY <1>1 DEF Open
  <2>3. Max(Open(stack, s)) = n
    BY <1>1, <1>2, <2>1, <2>2
  <2>. QED
    BY <1>1, <1>2, <1>5, <2>3 DEF DescriptorInv, Now, FileUnder
<1>8. ASSUME NEW t \in Streams, t # s PROVE fd[t] = FileUnder(stack, t, n)
  <2>1. Open(stack, t) = Under(stack, t, n)
    BY <1>1, <1>8, OpenAfterPop DEF DescriptorInv, TypeOK
  <2>. QED
    BY <1>5, <2>1 DEF DescriptorInv, Now, FileUnder
<1>. QED
  BY <1>1, <1>2, <1>3, <1>4, <1>7, <1>8

\* The end of a capture restores what was saved.
LEMMA EndDescriptors ==
  ASSUME DescriptorInv, ~aborted, UNCHANGED outOfProcess, EndStdStreamCapture
  PROVE  DescriptorInv'
<1>1. CASE Last(stack).m_DupFD = Closed
  <2>1. /\ UNCHANGED <<fd, content, buffer, remote, read, stack, expected, last, printed, outside>>
        /\ aborted' = TRUE
    BY <1>1 DEF EndStdStreamCapture
  <2>2. TypeOK'
    BY <2>1 DEF DescriptorInv, TypeOK
  <2>. QED
    BY <2>1, <2>2, SameCaptures
<1>2. CASE Last(stack).m_DupFD # Closed
  <2>. DEFINE sci == Last(stack)
              written == Flushed(FlushedAtEnd, content)
  <2>1. /\ stack # <<>>
        /\ fd' = [fd EXCEPT ![sci.m_FD] = sci.m_DupFD]
        /\ content' = [written EXCEPT ![sci.m_TempFile] = Empty]
        /\ buffer' = Drained(FlushedAtEnd)
        /\ stack' = Front(stack) /\ expected' = Front(expected)
        /\ outside' = [outside EXCEPT !["executor"] =
                         [outside["executor"] EXCEPT ![sci.m_FD] = remote[sci.m_FD]]]
        /\ \/ read' = [read EXCEPT ![sci.m_FD] = written[sci.m_TempFile]]
           \/ read' = read
        /\ UNCHANGED <<aborted, printed, remote>>
    BY <1>2 DEF EndStdStreamCapture, RestoredFD
  <2>2. /\ sci \in Captures /\ Len(stack) \in Nat \ {0}
        /\ sci.m_DupFD = FileUnder(stack, sci.m_FD, Len(stack))
        /\ sci.m_DupFD \in Files /\ sci.m_TempFile \in Files
        /\ \A s \in Streams : s # sci.m_FD => fd[s] = FileUnder(stack, s, Len(stack))
    BY <1>2, <2>1, EndStack
  <2>3. sci.m_FD \in Streams
    BY <2>2 DEF Captures
  <2>. HIDE DEF sci
  <2>4. /\ stack \in Seq(Captures) /\ stack' \in Seq(Captures) /\ Len(stack') = Len(stack) - 1
        /\ DOMAIN stack = 1 .. Len(stack) /\ DOMAIN stack' = 1 .. Len(stack) - 1
        /\ \A k \in 1 .. Len(stack) - 1 : stack'[k] = stack[k]
    <3>1. stack \in Seq(Captures)
      BY DEF DescriptorInv, TypeOK
    <3>2. /\ Front(stack) \in Seq(Captures) /\ Len(Front(stack)) = Len(stack) - 1
          /\ \A k \in 1 .. Len(stack) - 1 : Front(stack)[k] = stack[k]
      BY <2>1, <3>1, PopFacts
    <3>. QED
      BY <2>1, <2>2, <3>1, <3>2
  <2>5. Empty \in [Processes -> Outputs]
    BY DEF Empty, Outputs
  <2>6. /\ content' \in [Files -> [Processes -> Outputs]] /\ buffer' \in [Streams -> Outputs]
        /\ read' \in [Streams -> [Processes -> Outputs]]
    <3>1. TypeOK /\ Streams \in SUBSET Streams /\ content \in [Files -> [Processes -> Outputs]]
      BY DEF DescriptorInv, TypeOK
    <3>2. written \in [Files -> [Processes -> Outputs]] /\ Drained(FlushedAtEnd) \in [Streams -> Outputs]
      BY <3>1, FlushedType, DrainedType DEF FlushedAtEnd
    <3>. HIDE DEF written
    <3>3. read \in [Streams -> [Processes -> Outputs]] /\ written[sci.m_TempFile] \in [Processes -> Outputs]
      BY <2>2, <3>1, <3>2 DEF TypeOK
    <3>. QED
      BY <2>1, <2>5, <3>2, <3>3
  <2>7. expected' \in Seq([Processes -> Outputs]) /\ Len(expected') = Len(stack')
    <3>1. expected \in Seq([Processes -> Outputs]) /\ Len(expected) = Len(stack)
      BY DEF DescriptorInv, TypeOK
    <3>. QED
      BY <2>1, <2>2, <2>4, <3>1 DEF Front
  <2>8. TypeOK'
    <3>1. fd' \in [Streams -> Files]
      BY <2>1, <2>2 DEF DescriptorInv, TypeOK
    <3>2. Len(stack') <= MaxDepth
      BY <2>2, <2>4, CaptureAssumption DEF DescriptorInv, TypeOK
    <3>3. outside' \in [Processes -> [Streams -> Outputs]]
      <4>1. /\ outside \in [Processes -> [Streams -> Outputs]] /\ "executor" \in Processes
            /\ remote \in [Streams -> Outputs]
        BY DEF DescriptorInv, TypeOK, Processes
      <4>2. [outside["executor"] EXCEPT ![sci.m_FD] = remote[sci.m_FD]] \in [Streams -> Outputs]
        BY <2>3, <4>1
      <4>. QED
        BY <2>1, <4>1, <4>2
    <3>. QED
      BY <2>1, <2>4, <2>6, <2>7, <3>1, <3>2, <3>3 DEF DescriptorInv, TypeOK
  <2>9. /\ Chained(stack')
        /\ \A s \in Streams, k \in 1 .. Len(stack) : FileUnder(stack', s, k) = FileUnder(stack, s, k)
    BY <2>1, <2>4, PopChained DEF DescriptorInv
  <2>10. Now'
    <3>. SUFFICES ASSUME NEW s \in Streams PROVE fd'[s] = FileUnder(stack', s, Len(stack))
      BY <2>2, <2>4 DEF Now
    <3>1. FileUnder(stack', s, Len(stack)) = FileUnder(stack, s, Len(stack))
      BY <2>2, <2>9
    <3>2. fd'[s] = IF s = sci.m_FD THEN sci.m_DupFD ELSE fd[s]
      BY <2>1 DEF DescriptorInv, TypeOK
    <3>. QED
      BY <2>2, <3>1, <3>2
  <2>11. OwnFiles'
    BY <2>2, <2>4 DEF DescriptorInv, OwnFiles
  <2>. QED
    BY <2>8, <2>9, <2>10, <2>11 DEF DescriptorInv
<1>. QED
  BY <1>1, <1>2

\* At the start every stream refers to its terminal.
LEMMA InitDescriptors == Init => DescriptorInv
<1>. SUFFICES ASSUME Init PROVE DescriptorInv
  OBVIOUS
<1>1. TypeOK
  <2>1. Empty \in [Processes -> Outputs] /\ <<>> \in Outputs
    BY DEF Empty, Outputs
  <2>2. outOfProcess \in BOOLEAN /\ 0 \in 0 .. MaxMessages /\ 0 <= MaxDepth
    BY CaptureAssumption DEF Init
  <2>3. fd \in [Streams -> Files]
    BY FilesApart DEF Init
  <2>4. /\ stack \in Seq(Captures) /\ Len(stack) = 0
        /\ expected \in Seq([Processes -> Outputs]) /\ Len(expected) = 0
    BY DEF Init
  <2>. QED
    BY <2>1, <2>2, <2>3, <2>4 DEF Init, TypeOK
<1>2. \A s \in Streams : Open(stack, s) = {} /\ \A k : Under(stack, s, k) = {}
  BY DEF Init, Open, Under
<1>3. Chained(stack)
  BY <1>2 DEF Chained, HasMax, HasMin
<1>4. Now /\ OwnFiles
  BY <1>2 DEF Init, Now, FileUnder, OwnFiles
<1>. QED
  BY <1>1, <1>3, <1>4 DEF DescriptorInv

\* Every step keeps the invariant.
LEMMA NextDescriptors == DescriptorInv /\ [Next]_vars => DescriptorInv'
<1>. SUFFICES ASSUME DescriptorInv, [Next]_vars PROVE DescriptorInv'
  OBVIOUS
<1>1. CASE UNCHANGED vars
  <2>1. TypeOK'
    BY <1>1 DEF vars, DescriptorInv, TypeOK
  <2>. QED
    BY <1>1, <2>1, SameCaptures DEF vars
<1>2. CASE Next
  BY <1>2, HostPrintsDescriptors, ExecutorPrintsDescriptors, ExecutorFlushDescriptors,
     FlushDescriptors, BeginDescriptors,
     BeginWithoutFileDescriptors, EndDescriptors DEF Next
<1>. QED
  BY <1>1, <1>2

\* The invariant holds in every behaviour.
LEMMA SpecDescriptors == Spec => []DescriptorInv
BY InitDescriptors, NextDescriptors, PTL DEF Spec

\* Through any mix of captures of any streams, in process or out of it, also
\* where temporary files cannot be made, a standard descriptor refers to the
\* file of its innermost capture, and to the terminal again after the last
\* (BeginStdStreamCapture, EndStdStreamCapture).
THEOREM CaptureDescriptors == Spec => []DescriptorsSafe
<1>1. DescriptorInv => DescriptorsSafe
  <2>. SUFFICES ASSUME DescriptorInv, NEW s \in Streams
                PROVE  IF CapturesOf(s) = {} THEN fd[s] = Terminal(s)
                       ELSE /\ fd[s] = stack[Max(CapturesOf(s))].m_TempFile
                            /\ stack[Min(CapturesOf(s))].m_DupFD = Terminal(s)
    BY DEF DescriptorsSafe, DescriptorsRestored, DescriptorInv
  <2>1. /\ CapturesOf(s) = Open(stack, s) /\ Under(stack, s, Len(stack) + 1) = Open(stack, s)
        /\ Open(stack, s) \subseteq Nat
    BY DEF CapturesOf, Open, Under, DescriptorInv, TypeOK
  <2>2. CASE Open(stack, s) = {}
    BY <2>1, <2>2 DEF DescriptorInv, Now, FileUnder
  <2>3. CASE Open(stack, s) # {}
    <3>1. fd[s] = stack[Max(Open(stack, s))].m_TempFile
      BY <2>1, <2>3 DEF DescriptorInv, Now, FileUnder
    <3>2. /\ Min(Open(stack, s)) \in Open(stack, s)
          /\ \A j \in Open(stack, s) : Min(Open(stack, s)) <= j
      BY <2>3, MinOf DEF DescriptorInv, Chained
    <3>3. Under(stack, s, Min(Open(stack, s))) = {}
      BY <2>1, <3>2 DEF Under
    <3>4. stack[Min(Open(stack, s))].m_DupFD = Terminal(s)
      BY <3>2, <3>3 DEF DescriptorInv, Chained, FileUnder
    <3>. QED
      BY <2>1, <2>3, <3>1, <3>4
  <2>. QED
    BY <2>2, <2>3
<1>. QED
  BY SpecDescriptors, <1>1, PTL

-----------------------------------------------------------------------------
(* The output. *)

\* Out of process a stream is captured once at a time.
Single == outOfProcess => \A s \in Streams : \A j, k \in Open(stack, s) : j = k

\* What this process printed to stream s and is, or will be, in file f, when the
\* files hold c, the buffers b, and the descriptors are d.
HostOutput(c, b, d, s, f) == IF d[s] = f THEN c[f]["host"] \o b[s] ELSE c[f]["host"]

\* Each message of this process is in the file of its capture, or on its way there.
Placed ==
    \A s \in Streams :
        /\ s \notin Buffered => buffer[s] = <<>>
        /\ outside["host"][s] = HostOutput(content, buffer, fd, s, Terminal(s))
        /\ \A k \in Open(stack, s) :
             expected[k]["host"] = HostOutput(content, buffer, fd, s, stack[k].m_TempFile)

\* What the executor printed to stream s and is, or will be, in the redirection
\* file, when the files hold c and the executor's buffers r.
ExecutorOutput(c, r, s) == c[Redirect(s)]["executor"] \o r[s]

\* In process there is no executor.
Silent ==
    /\ \A s \in Streams : remote[s] = <<>>
    /\ \A f \in Files : content[f]["executor"] = <<>>

\* Each message of the executor is in the redirection file, or on its way there.
ExecutorPlaced ==
    /\ ~outOfProcess => Silent
    /\ \A s \in Streams :
        /\ s \notin Buffered => remote[s] = <<>>
        /\ Open(stack, s) = {} => outside["executor"][s] = ExecutorOutput(content, remote, s)
        /\ \A k \in Open(stack, s) : expected[k]["executor"] = ExecutorOutput(content, remote, s)

\* The inductive invariant of the output.
OutputInv == DescriptorInv /\ Single /\ Placed /\ ExecutorPlaced /\ CaptureExact

\* The files stream s may refer to.
Owns(s, f) == f = Terminal(s) \/ \E k \in Open(stack, s) : f = stack[k].m_TempFile

\* The captures of a stream.
LEMMA OpenTyped ==
  ASSUME TypeOK
  PROVE  \A s \in Streams : \A k \in Open(stack, s) :
           k \in 1 .. Len(stack) /\ stack[k].m_FD = s /\ stack[k].m_DupFD # Closed
BY DEF Open, TypeOK

\* A stream refers to the file of its innermost capture.
LEMMA Innermost ==
  ASSUME DescriptorInv, NEW s \in Streams
  PROVE  /\ CapturesOf(s) = Open(stack, s)
         /\ Open(stack, s) = {} => fd[s] = Terminal(s)
         /\ Open(stack, s) # {} => /\ Max(Open(stack, s)) \in Open(stack, s)
                                   /\ fd[s] = stack[Max(Open(stack, s))].m_TempFile
<1>1. /\ CapturesOf(s) = Open(stack, s) /\ Under(stack, s, Len(stack) + 1) = Open(stack, s)
      /\ Len(stack) + 1 \in 1 .. Len(stack) + 1
  BY DEF CapturesOf, Open, Under, DescriptorInv, TypeOK
<1>2. HasMax(Open(stack, s))
  BY <1>1 DEF DescriptorInv, Chained
<1>3. Open(stack, s) # {} => Max(Open(stack, s)) \in Open(stack, s)
  BY <1>2, MaxOf
<1>. QED
  BY <1>1, <1>3 DEF DescriptorInv, Now, FileUnder

\* No two streams share a file.
LEMMA OwnsApart ==
  ASSUME DescriptorInv, Single
  PROVE  /\ \A s, t \in Streams : \A f : Owns(s, f) /\ Owns(t, f) => s = t
         /\ \A s \in Streams : Owns(s, fd[s])
         /\ \A s \in Streams : \A f : Owns(s, f) => f \in Files
         /\ \A s, t \in Streams : \A k \in Open(stack, s) : stack[k].m_TempFile # Terminal(t)
         /\ \A s \in Streams : \A j, k \in Open(stack, s) :
              stack[j].m_TempFile = stack[k].m_TempFile => j = k
<1>1. \A s \in Streams : \A k \in Open(stack, s) :
        /\ k \in 1 .. Len(stack)
        /\ stack[k].m_FD = s
        /\ stack[k].m_TempFile = IF outOfProcess THEN Redirect(s) ELSE Temp(k)
        /\ stack[k].m_TempFile \in Files
  BY OpenTyped DEF DescriptorInv, OwnFiles, Chained, TypeOK
<1>2. \A s, t \in Streams : \A k \in Open(stack, s) : stack[k].m_TempFile # Terminal(t)
  <2>. SUFFICES ASSUME NEW s \in Streams, NEW t \in Streams, NEW k \in Open(stack, s)
                PROVE  stack[k].m_TempFile # Terminal(t)
    OBVIOUS
  <2>1. k \in Nat
    BY <1>1
  <2>. QED
    BY <1>1, <2>1, FilesApart
<1>3. \A s \in Streams : \A j, k \in Open(stack, s) :
        stack[j].m_TempFile = stack[k].m_TempFile => j = k
  <2>. SUFFICES ASSUME NEW s \in Streams, NEW j \in Open(stack, s), NEW k \in Open(stack, s),
                       stack[j].m_TempFile = stack[k].m_TempFile
                PROVE  j = k
    OBVIOUS
  <2>1. CASE outOfProcess
    BY <2>1 DEF Single
  <2>2. CASE ~outOfProcess
    <3>1. j \in Nat /\ k \in Nat /\ Temp(j) = Temp(k)
      BY <1>1, <2>2
    <3>. QED
      BY <3>1, FilesApart
  <2>. QED
    BY <2>1, <2>2
<1>4. \A s, t \in Streams : \A j \in Open(stack, s), k \in Open(stack, t) :
        stack[j].m_TempFile = stack[k].m_TempFile => s = t
  <2>. SUFFICES ASSUME NEW s \in Streams, NEW t \in Streams,
                       NEW j \in Open(stack, s), NEW k \in Open(stack, t),
                       stack[j].m_TempFile = stack[k].m_TempFile
                PROVE  s = t
    OBVIOUS
  <2>1. CASE outOfProcess
    <3>1. Redirect(s) = Redirect(t)
      BY <1>1, <2>1
    <3>. QED
      BY <3>1, FilesApart
  <2>2. CASE ~outOfProcess
    <3>1. j \in Nat /\ k \in Nat /\ Temp(j) = Temp(k)
      BY <1>1, <2>2
    <3>2. j = k
      BY <3>1, FilesApart
    <3>. QED
      BY <1>1, <3>2
  <2>. QED
    BY <2>1, <2>2
<1>5. \A s, t \in Streams : \A f : Owns(s, f) /\ Owns(t, f) => s = t
  BY <1>2, <1>4, FilesApart DEF Owns
<1>6. \A s \in Streams : Owns(s, fd[s])
  BY Innermost DEF Owns
<1>7. \A s \in Streams : \A f : Owns(s, f) => f \in Files
  BY <1>1, FilesApart DEF Owns
<1>. QED
  BY <1>2, <1>3, <1>5, <1>6, <1>7

\* What fflush does to the files of a stream.
LEMMA FlushedExecutor ==
  ASSUME NEW S \in SUBSET Streams, NEW c \in [Files -> [Processes -> Outputs]], NEW f \in Files
  PROVE  Flushed(S, c)[f]["executor"] = c[f]["executor"]
<1>1. "executor" \in Processes /\ "executor" # "host"
  BY DEF Processes
<1>. QED
  BY <1>1 DEF Flushed

\* A flush leaves the files no flushed stream refers to.
LEMMA FlushedElsewhere ==
  ASSUME NEW S \in SUBSET Streams, NEW c \in [Files -> [Processes -> Outputs]], NEW f \in Files,
         \A s \in S : fd[s] # f
  PROVE  Flushed(S, c)[f] = c[f]
<1>1. Flushed(S, c)[f] = [p \in Processes |->
        IF p = "host" /\ \E s \in S : fd[s] = f
        THEN c[f][p] \o buffer[CHOOSE s \in S : fd[s] = f] ELSE c[f][p]]
  BY DEF Flushed
<1>2. c[f] \in [Processes -> Outputs]
  OBVIOUS
<1>. QED
  BY <1>1, <1>2

\* A flush appends the buffer to the file its stream refers to.
LEMMA FlushedHere ==
  ASSUME NEW S \in SUBSET Streams, NEW c \in [Files -> [Processes -> Outputs]], NEW s \in S,
         fd[s] \in Files, \A t \in S : fd[t] = fd[s] => t = s
  PROVE  Flushed(S, c)[fd[s]]["host"] = c[fd[s]]["host"] \o buffer[s]
<1>1. "host" \in Processes
  BY DEF Processes
<1>2. (CHOOSE t \in S : fd[t] = fd[s]) = s
  OBVIOUS
<1>3. Flushed(S, c)[fd[s]]["host"] = c[fd[s]]["host"] \o buffer[CHOOSE t \in S : fd[t] = fd[s]]
  BY <1>1 DEF Flushed
<1>. QED
  BY <1>2, <1>3

-----------------------------------------------------------------------------

\* A message is expected of the innermost capture, or outside.
LEMMA Recorded ==
  ASSUME DescriptorInv, NEW s \in Streams, NEW p \in Processes, Record(p, s)
  PROVE  /\ \A t \in Streams, q \in Processes : outside'[q][t] =
              IF q = p /\ t = s /\ Open(stack, s) = {}
              THEN Append(outside[q][t], printed) ELSE outside[q][t]
         /\ \A k \in 1 .. Len(stack), q \in Processes : expected'[k][q] =
              IF Open(stack, s) # {} /\ k = Max(Open(stack, s)) /\ q = p
              THEN Append(expected[k][q], printed) ELSE expected[k][q]
<1>1. /\ outside \in [Processes -> [Streams -> Outputs]] /\ expected \in Seq([Processes -> Outputs])
      /\ Len(expected) = Len(stack)
  BY DEF DescriptorInv, TypeOK
<1>2. CASE Open(stack, s) = {}
  <2>1. /\ expected' = expected
        /\ outside' = [outside EXCEPT ![p] = [outside[p] EXCEPT ![s] = Append(outside[p][s], printed)]]
    BY <1>2, Innermost DEF Record
  <2>2. ASSUME NEW t \in Streams, NEW q \in Processes
        PROVE  outside'[q][t] = IF q = p /\ t = s THEN Append(outside[q][t], printed) ELSE outside[q][t]
    BY <1>1, <2>1
  <2>. QED
    BY <1>2, <2>1, <2>2
<1>3. CASE Open(stack, s) # {}
  <2>. DEFINE m == Max(Open(stack, s))
  <2>1. m \in 1 .. Len(stack)
    BY <1>3, Innermost, OpenTyped DEF DescriptorInv
  <2>2. /\ outside' = outside
        /\ expected' = [expected EXCEPT ![m] = [expected[m] EXCEPT ![p] = Append(expected[m][p], printed)]]
    BY <1>3, Innermost DEF Record
  <2>. HIDE DEF m
  <2>3. \A k \in 1 .. Len(stack) : expected'[k] =
          IF k = m THEN [expected[m] EXCEPT ![p] = Append(expected[m][p], printed)] ELSE expected[k]
    BY <1>1, <2>2
  <2>4. \A k \in 1 .. Len(stack) : expected[k] \in [Processes -> Outputs]
    BY <1>1
  <2>5. ASSUME NEW k \in 1 .. Len(stack), NEW q \in Processes
        PROVE  expected'[k][q] = IF k = m /\ q = p
                                 THEN Append(expected[k][q], printed) ELSE expected[k][q]
    BY <2>3, <2>4
  <2>. QED
    BY <1>3, <2>2, <2>5 DEF m
<1>. QED
  BY <1>2, <1>3

\* Nothing else than the end of a capture answers.
LEMMA SameAnswer ==
  ASSUME CaptureExact, last' = last
  PROVE  CaptureExact'
<1>1. CaptureIsOwn' <=> CaptureIsOwn
  BY DEF CaptureIsOwn
<1>2. last'.again = last.again
  OBVIOUS
<1>. QED
  BY <1>1, <1>2 DEF CaptureExact

\* A message of this process to s is in the file s refers to, or on its way there.
Receives(p, s) ==
  \A t \in Streams, f \in Files : Owns(t, f) =>
       HostOutput(content', buffer', fd, t, f) =
         IF p = "host" /\ t = s /\ f = fd[s] THEN Append(HostOutput(content, buffer, fd, t, f), printed)
                                             ELSE HostOutput(content, buffer, fd, t, f)

\* Where a message goes, given that the files of the streams receive it as
\* they should.
LEMMA PrintPlaced ==
  ASSUME OutputInv, NEW s \in Streams, NEW p \in Processes, Record(p, s),
         UNCHANGED <<outOfProcess, fd, stack, last>>,
         \A t \in Streams : t \notin Buffered => buffer'[t] = <<>>,
         Receives(p, s)
  PROVE  Single' /\ Placed' /\ CaptureExact'
<1>1. Single' /\ CaptureExact'
  BY SameAnswer DEF OutputInv, Single, Open
<1>2. DescriptorInv /\ Single /\ Placed
  BY DEF OutputInv
<1>3. ASSUME NEW t \in Streams
      PROVE  outside'["host"][t] = HostOutput(content', buffer', fd, t, Terminal(t))
  <2>1. /\ Owns(t, Terminal(t)) /\ Terminal(t) \in Files
        /\ outside["host"][t] = HostOutput(content, buffer, fd, t, Terminal(t))
    BY <1>2, FilesApart DEF Owns, Placed
  <2>2. outside'["host"][t] = IF p = "host" /\ t = s /\ Open(stack, s) = {}
                              THEN Append(outside["host"][t], printed) ELSE outside["host"][t]
    BY <1>2, Recorded DEF Processes
  <2>3. t = s => (Open(stack, s) = {} <=> Terminal(t) = fd[s])
    BY <1>2, Innermost, OwnsApart
  <2>. QED
    BY <2>1, <2>2, <2>3 DEF Receives
<1>4. ASSUME NEW t \in Streams, NEW k \in Open(stack, t)
      PROVE  expected'[k]["host"] = HostOutput(content', buffer', fd, t, stack[k].m_TempFile)
  <2>. DEFINE f == stack[k].m_TempFile
  <2>1. /\ Owns(t, f) /\ f \in Files /\ k \in 1 .. Len(stack) /\ stack[k].m_FD = t
        /\ expected[k]["host"] = HostOutput(content, buffer, fd, t, f)
    BY <1>2, OwnsApart, OpenTyped DEF Owns, Placed, DescriptorInv
  <2>2. \A q \in Processes : expected'[k][q] =
          IF Open(stack, s) # {} /\ k = Max(Open(stack, s)) /\ q = p
          THEN Append(expected[k][q], printed) ELSE expected[k][q]
    BY <1>2, <2>1, Recorded
  <2>3. t = s => (k = Max(Open(stack, s)) <=> f = fd[s])
    BY <1>2, <1>4, Innermost, OwnsApart
  <2>4. t # s => ~(Open(stack, s) # {} /\ k = Max(Open(stack, s)))
    BY <1>2, <2>1, Innermost, OpenTyped DEF DescriptorInv
  <2>5. expected'[k]["host"] = IF p = "host" /\ t = s /\ f = fd[s]
                               THEN Append(expected[k]["host"], printed) ELSE expected[k]["host"]
    BY <1>4, <2>2, <2>3, <2>4 DEF Processes
  <2>6. HostOutput(content', buffer', fd, t, f) =
           IF p = "host" /\ t = s /\ f = fd[s]
           THEN Append(HostOutput(content, buffer, fd, t, f), printed)
           ELSE HostOutput(content, buffer, fd, t, f)
    BY <2>1 DEF Receives
  <2>. QED
    BY <2>1, <2>5, <2>6
<1>5. \A t \in Streams : Open(stack, t)' = Open(stack, t)
  BY DEF Open
<1>6. Placed'
  BY <1>3, <1>4, <1>5 DEF Placed
<1>. QED
  BY <1>1, <1>6

\* Appending to a text appends to its end.
LEMMA AppendAtEnd ==
  ASSUME TypeOK, printed < MaxMessages
  PROVE  \A a, b \in Outputs : Append(a \o b, printed) = a \o Append(b, printed)
<1>1. printed \in 0 .. MaxMessages
  BY DEF TypeOK
<1>. SUFFICES ASSUME NEW a \in Seq(0 .. MaxMessages), NEW b \in Seq(0 .. MaxMessages)
              PROVE  Append(a \o b, printed) = a \o Append(b, printed)
  BY DEF Outputs
<1>2. Append(b, printed) = b \o <<printed>>
  BY <1>1, AppendIsConcat
<1>3. a \o b \in Seq(0 .. MaxMessages) /\ <<printed>> \in Seq(0 .. MaxMessages)
  BY <1>1
<1>4. Append(a \o b, printed) = (a \o b) \o <<printed>>
  BY <1>1, <1>3, AppendIsConcat
<1>5. (a \o b) \o <<printed>> = a \o (b \o <<printed>>)
  BY <1>3, ConcatAssociative
<1>. QED
  BY <1>2, <1>4, <1>5

\* What is printed is expected where it will arrive.
LEMMA HostPrintsOutput ==
  ASSUME OutputInv, UNCHANGED outOfProcess, NEW s \in Streams, HostPrints(s)
  PROVE  Single' /\ Placed' /\ CaptureExact'
<1>1. DescriptorInv /\ Single /\ Placed /\ TypeOK
  BY DEF OutputInv, DescriptorInv
<1>2. /\ printed < MaxMessages /\ Record("host", s)
      /\ UNCHANGED <<outOfProcess, fd, stack, last>>
  BY DEF HostPrints
<1>3. /\ content \in [Files -> [Processes -> Outputs]] /\ buffer \in [Streams -> Outputs]
      /\ fd[s] \in Files /\ "host" \in Processes /\ "executor" \in Processes /\ "host" # "executor"
  BY <1>1 DEF TypeOK, Processes
<1>4. \A t \in Streams : fd[t] = fd[s] => t = s
  BY <1>1, OwnsApart
<1>5. \A t \in Streams : Owns(t, fd[s]) => t = s
  BY <1>1, OwnsApart
<1>6. \A f \in Files : content[f]["host"] \in Outputs
  BY <1>3
<1>7. CASE s \in Buffered
  <2>1. content' = content /\ buffer' = [buffer EXCEPT ![s] = Append(buffer[s], printed)]
    BY <1>7 DEF HostPrints
  <2>2. \A t \in Streams : buffer'[t] = IF t = s THEN Append(buffer[t], printed) ELSE buffer[t]
    BY <1>3, <2>1
  <2>3. \A t \in Streams : t \notin Buffered => buffer'[t] = <<>>
    BY <1>1, <1>7, <2>2 DEF Placed
  <2>4. ASSUME NEW t \in Streams, NEW f \in Files, ~(t = s /\ f = fd[s])
        PROVE  HostOutput(content', buffer', fd, t, f) = HostOutput(content, buffer, fd, t, f)
    BY <1>4, <2>1, <2>2, <2>4 DEF HostOutput
  <2>5. HostOutput(content', buffer', fd, s, fd[s]) =
          Append(HostOutput(content, buffer, fd, s, fd[s]), printed)
    <3>1. /\ HostOutput(content', buffer', fd, s, fd[s]) =
                content[fd[s]]["host"] \o Append(buffer[s], printed)
          /\ HostOutput(content, buffer, fd, s, fd[s]) = content[fd[s]]["host"] \o buffer[s]
      BY <2>1, <2>2 DEF HostOutput
    <3>. QED
      BY <1>1, <1>2, <1>3, <1>6, <3>1, AppendAtEnd
  <2>6. Receives("host", s)
    BY <1>3, <2>1, <2>4, <2>5 DEF Receives
  <2>. QED
    BY <1>2, <1>3, <2>3, <2>6, PrintPlaced
<1>8. CASE s \notin Buffered
  <2>1. /\ buffer' = buffer /\ buffer[s] = <<>>
        /\ content' = [content EXCEPT ![fd[s]] =
              [content[fd[s]] EXCEPT !["host"] = Append(content[fd[s]]["host"], printed)]]
    BY <1>1, <1>8 DEF HostPrints, Placed
  <2>2. \A f \in Files : /\ content'[f]["host"] = IF f = fd[s] THEN Append(content[f]["host"], printed)
                                                             ELSE content[f]["host"]
                         /\ content'[f]["executor"] = content[f]["executor"]
    BY <1>3, <2>1
  <2>3. \A t \in Streams : t \notin Buffered => buffer'[t] = <<>>
    BY <1>1, <2>1 DEF Placed
  <2>4. ASSUME NEW t \in Streams, NEW f \in Files, f # fd[s]
        PROVE  HostOutput(content', buffer', fd, t, f) = HostOutput(content, buffer, fd, t, f)
    BY <2>1, <2>2, <2>4 DEF HostOutput
  <2>5. HostOutput(content', buffer', fd, s, fd[s]) =
          Append(HostOutput(content, buffer, fd, s, fd[s]), printed)
    <3>1. /\ HostOutput(content', buffer', fd, s, fd[s]) =
                Append(content[fd[s]]["host"], printed) \o <<>>
          /\ HostOutput(content, buffer, fd, s, fd[s]) = content[fd[s]]["host"] \o <<>>
      BY <1>3, <2>1, <2>2 DEF HostOutput
    <3>2. content[fd[s]]["host"] \in Outputs /\ Append(content[fd[s]]["host"], printed) \in Outputs
      BY <1>1, <1>2, <1>3, <1>6, AppendOutput
    <3>. QED
      BY <3>1, <3>2, ConcatEmptySeq DEF Outputs
  <2>6. Receives("host", s)
    BY <1>3, <1>5, <2>4, <2>5 DEF Receives
  <2>. QED
    BY <1>2, <1>3, <2>3, <2>6, PrintPlaced
<1>. QED
  BY <1>7, <1>8

\* What the executor prints is none of this process's output.
LEMMA ExecutorPrintsOutput ==
  ASSUME OutputInv, UNCHANGED outOfProcess, NEW s \in Streams, ExecutorPrints(s)
  PROVE  Single' /\ Placed' /\ CaptureExact'
<1>1. DescriptorInv /\ Single /\ Placed /\ TypeOK
  BY DEF OutputInv, DescriptorInv
<1>2. /\ Record("executor", s) /\ UNCHANGED <<outOfProcess, fd, stack, last>> /\ buffer' = buffer
  BY DEF ExecutorPrints
<1>3. /\ content \in [Files -> [Processes -> Outputs]]
      /\ Redirect(s) \in Files /\ "host" \in Processes /\ "executor" \in Processes /\ "host" # "executor"
  BY <1>1, FilesApart DEF TypeOK, Processes
<1>4. \A f \in Files : content'[f]["host"] = content[f]["host"]
  <2>1. CASE s \in Buffered
    BY <2>1 DEF ExecutorPrints
  <2>2. CASE s \notin Buffered
    <3>1. content' = [content EXCEPT ![Redirect(s)] =
            [content[Redirect(s)] EXCEPT !["executor"] = Append(content[Redirect(s)]["executor"], printed)]]
      BY <2>2 DEF ExecutorPrints
    <3>. QED
      BY <1>3, <3>1
  <2>. QED
    BY <2>1, <2>2
<1>5. \A t \in Streams : t \notin Buffered => buffer'[t] = <<>>
  BY <1>1, <1>2 DEF Placed
<1>6. ASSUME NEW t \in Streams, NEW f \in Files
      PROVE  HostOutput(content', buffer', fd, t, f) = HostOutput(content, buffer, fd, t, f)
  BY <1>2, <1>4 DEF HostOutput
<1>7. Receives("executor", s)
  BY <1>3, <1>6 DEF Receives
<1>. QED
  BY <1>2, <1>3, <1>5, <1>7, PrintPlaced

\* Nor does it touch this process's output when it writes its buffer out.
LEMMA ExecutorFlushOutput ==
  ASSUME OutputInv, UNCHANGED outOfProcess, NEW s \in Streams, ExecutorFlush(s)
  PROVE  Single' /\ Placed' /\ CaptureExact'
<1>1. DescriptorInv /\ Single /\ Placed /\ TypeOK /\ CaptureExact
  BY DEF OutputInv, DescriptorInv
<1>2. /\ UNCHANGED <<outOfProcess, fd, buffer, stack, expected, outside, last>>
      /\ content' = [content EXCEPT ![Redirect(s)] =
                       [content[Redirect(s)] EXCEPT !["executor"] =
                          content[Redirect(s)]["executor"] \o remote[s]]]
  BY DEF ExecutorFlush
<1>3. /\ content \in [Files -> [Processes -> Outputs]]
      /\ Redirect(s) \in Files /\ "host" \in Processes /\ "executor" \in Processes /\ "host" # "executor"
  BY <1>1, FilesApart DEF TypeOK, Processes
<1>4. \A f \in Files : content'[f]["host"] = content[f]["host"]
  BY <1>2, <1>3
<1>5. \A t \in Streams : \A f \in Files :
        HostOutput(content', buffer', fd', t, f) = HostOutput(content, buffer, fd, t, f)
  BY <1>2, <1>4 DEF HostOutput
<1>6. \A t \in Streams : Open(stack', t) = Open(stack, t)
  BY <1>2
<1>7. \A t \in Streams : Terminal(t) \in Files /\ \A k \in Open(stack, t) : stack[k].m_TempFile \in Files
  BY <1>1, FilesApart DEF DescriptorInv, Chained
<1>8. ASSUME NEW t \in Streams
      PROVE  /\ t \notin Buffered => buffer'[t] = <<>>
             /\ outside'["host"][t] = HostOutput(content', buffer', fd', t, Terminal(t))
  BY <1>1, <1>2, <1>5, <1>7 DEF Placed
<1>9. ASSUME NEW t \in Streams, NEW k \in Open(stack', t)
      PROVE  expected'[k]["host"] = HostOutput(content', buffer', fd', t, stack'[k].m_TempFile)
  <2>1. k \in Open(stack, t) /\ stack'[k].m_TempFile = stack[k].m_TempFile /\ expected'[k] = expected[k]
    BY <1>2, <1>6, <1>9
  <2>2. expected[k]["host"] = HostOutput(content, buffer, fd, t, stack[k].m_TempFile)
    BY <1>1, <2>1 DEF Placed
  <2>. QED
    BY <1>5, <1>7, <2>1, <2>2
<1>10. Single'
  BY <1>1, <1>2, <1>6 DEF Single
<1>. QED
  BY <1>1, <1>2, <1>8, <1>9, <1>10, SameAnswer DEF Placed

\* Nobody's output moves when buffers are flushed.
LEMMA FlushedOutput ==
  ASSUME DescriptorInv, Single, NEW S \in SUBSET Streams, NEW s \in Streams, NEW f, Owns(s, f)
  PROVE  HostOutput(Flushed(S, content), Drained(S), fd, s, f) =
           HostOutput(content, buffer, fd, s, f)
<1>1. /\ f \in Files /\ content \in [Files -> [Processes -> Outputs]] /\ "host" \in Processes
      /\ buffer \in [Streams -> Outputs]
  BY OwnsApart DEF DescriptorInv, TypeOK, Processes
<1>2. \A t \in Streams : fd[t] = f => t = s
  BY OwnsApart
<1>3. CASE fd[s] = f /\ s \in S
  <2>1. Flushed(S, content)[f]["host"] = content[f]["host"] \o buffer[s]
    BY <1>1, <1>2, <1>3, FlushedHere
  <2>2. Drained(S)[s] = <<>>
    BY <1>3 DEF Drained
  <2>3. content[f]["host"] \o buffer[s] \in Outputs
    <3>1. content[f]["host"] \in Outputs /\ buffer[s] \in Outputs
      BY <1>1
    <3>. QED
      BY <3>1 DEF Outputs
  <2>4. (content[f]["host"] \o buffer[s]) \o <<>> = content[f]["host"] \o buffer[s]
    BY <2>3, ConcatEmptySeq DEF Outputs
  <2>. QED
    BY <1>3, <2>1, <2>2, <2>4 DEF HostOutput
<1>4. CASE ~(fd[s] = f /\ s \in S)
  <2>1. Flushed(S, content)[f] = content[f]
    BY <1>1, <1>2, <1>4, FlushedElsewhere
  <2>2. fd[s] = f => Drained(S)[s] = buffer[s]
    BY <1>4 DEF Drained
  <2>. QED
    BY <2>1, <2>2 DEF HostOutput
<1>. QED
  BY <1>3, <1>4

\* A flush moves output and loses none.
LEMMA FlushOutput ==
  ASSUME OutputInv, UNCHANGED outOfProcess, NEW s \in Streams, Flush(s)
  PROVE  Single' /\ Placed' /\ CaptureExact'
<1>1. DescriptorInv /\ Single /\ Placed /\ TypeOK
  BY DEF OutputInv, DescriptorInv
<1>2. /\ content' = Flushed({s}, content) /\ buffer' = Drained({s})
      /\ UNCHANGED <<outOfProcess, fd, stack, printed, expected, outside, last>>
  BY DEF Flush
<1>3. Single' /\ CaptureExact' /\ \A t \in Streams : Open(stack, t)' = Open(stack, t)
  BY <1>2, SameAnswer DEF OutputInv, Single, Open
<1>4. \A t \in Streams : \A f : Owns(t, f) =>
        HostOutput(content', buffer', fd, t, f) = HostOutput(content, buffer, fd, t, f)
  BY <1>1, <1>2, FlushedOutput
<1>6. ASSUME NEW t \in Streams
      PROVE  /\ t \notin Buffered => buffer'[t] = <<>>
             /\ outside'["host"][t] = HostOutput(content', buffer', fd, t, Terminal(t))
  <2>1. Owns(t, Terminal(t)) /\ outside'["host"][t] = HostOutput(content, buffer, fd, t, Terminal(t))
    BY <1>1, <1>2 DEF Placed, Owns
  <2>2. t \notin Buffered => buffer'[t] = <<>>
    BY <1>1, <1>2 DEF Placed, Drained
  <2>. QED
    BY <1>4, <2>1, <2>2
<1>7. ASSUME NEW t \in Streams, NEW k \in Open(stack, t)
      PROVE  expected'[k]["host"] = HostOutput(content', buffer', fd, t, stack[k].m_TempFile)
  <2>1. Owns(t, stack[k].m_TempFile)
    BY DEF Owns
  <2>2. expected'[k]["host"] = HostOutput(content, buffer, fd, t, stack[k].m_TempFile)
    BY <1>1, <1>2 DEF Placed
  <2>. QED
    BY <1>4, <2>1, <2>2
<1>. QED
  BY <1>2, <1>3, <1>6, <1>7 DEF Placed

\* The file of a new capture is nobody's.
LEMMA NewFile ==
  ASSUME DescriptorInv, Single, NEW s \in Streams, outOfProcess => Open(stack, s) = {}
  PROVE  \A t \in Streams : \A f : Owns(t, f) => f # CaptureFile(s)
<1>. SUFFICES ASSUME NEW t \in Streams, NEW f, Owns(t, f), f = CaptureFile(s)
              PROVE  FALSE
  OBVIOUS
<1>1. Len(stack) \in Nat /\ Len(stack) + 1 \in Nat
  BY DEF DescriptorInv, TypeOK
<1>2. f # Terminal(t)
  BY <1>1, FilesApart DEF CaptureFile
<1>3. PICK k \in Open(stack, t) : f = stack[k].m_TempFile
  BY <1>2 DEF Owns
<1>4. /\ k \in 1 .. Len(stack) /\ stack[k].m_FD = t
      /\ f = IF outOfProcess THEN Redirect(t) ELSE Temp(k)
  BY <1>3, OpenTyped DEF DescriptorInv, OwnFiles, TypeOK
<1>5. CASE outOfProcess
  BY <1>4, <1>5, FilesApart DEF CaptureFile
<1>6. CASE ~outOfProcess
  <2>1. Temp(k) = Temp(Len(stack) + 1) /\ k \in Nat
    BY <1>4, <1>6 DEF CaptureFile
  <2>2. k = Len(stack) + 1
    BY <1>1, <2>1, FilesApart
  <2>. QED
    BY <1>1, <1>4, <2>2
<1>. QED
  BY <1>5, <1>6

\* A capture begins empty, after a flush.
LEMMA BeginOutput ==
  ASSUME ~Renesting, OutputInv, UNCHANGED outOfProcess, NEW s \in Streams,
         BeginStdStreamCapture(s)
  PROVE  Single' /\ Placed' /\ CaptureExact'
<1>. DEFINE c == [m_FD |-> s, m_TempFile |-> CaptureFile(s), m_OwnsFile |-> ~outOfProcess,
                  m_DupFD |-> fd[s]]
            cleared == [content EXCEPT ![CaptureFile(s)] = Empty]
            n == Len(stack)
<1>0. DescriptorInv /\ Single /\ Placed /\ CaptureExact /\ TypeOK
  BY DEF OutputInv, DescriptorInv
<1>1. /\ n < MaxDepth /\ stack' = Append(stack, c) /\ fd' = [fd EXCEPT ![s] = CaptureFile(s)]
      /\ content' = Flushed({s}, cleared) /\ buffer' = Drained({s})
      /\ expected' = Append(expected, [Empty EXCEPT !["executor"] = remote[s]]) /\ last' = last
      /\ outside' = [outside EXCEPT !["executor"] = [outside["executor"] EXCEPT ![s] = <<>>]]
      /\ outOfProcess => Open(stack, s) = {}
  BY <1>0, Innermost DEF BeginStdStreamCapture, FlushedAtBegin
<1>2. CaptureFile(s) \in Files /\ c \in Captures /\ c.m_DupFD # Closed
  BY <1>0, <1>1, BeginStack
<1>3. c.m_FD = s /\ c.m_TempFile = CaptureFile(s)
  OBVIOUS
<1>. HIDE DEF c
<1>4. /\ stack \in Seq(Captures) /\ n \in Nat /\ Len(expected) = n
      /\ \A k \in 1 .. n : stack'[k] = stack[k] /\ expected'[k] = expected[k]
      /\ stack'[n + 1] = c /\ expected'[n + 1] = [Empty EXCEPT !["executor"] = remote[s]]
      /\ outside'["host"] = outside["host"]
  BY <1>0, <1>1, <1>2 DEF TypeOK, Processes
<1>5. \A t \in Streams : Open(stack', t) = Open(stack, t) \cup (IF t = s THEN {n + 1} ELSE {})
  <2>. SUFFICES ASSUME NEW t \in Streams
                PROVE  Open(stack', t) = Open(stack, t) \cup (IF t = s THEN {n + 1} ELSE {})
    OBVIOUS
  <2>1. Open(Append(stack, c), t) = Open(stack, t) \cup
             (IF c.m_FD = t /\ c.m_DupFD # Closed THEN {Len(stack) + 1} ELSE {})
    BY <1>2, <1>4, OpenAfterPush
  <2>. QED
    BY <1>1, <1>2, <1>3, <2>1
<1>6. \A t \in Streams : \A f : Owns(t, f) => f # CaptureFile(s) /\ f \in Files
  BY <1>0, <1>1, NewFile, OwnsApart
<1>7. fd[s] # CaptureFile(s) /\ fd[s] \in Files
  BY <1>0, <1>6, OwnsApart
<1>8. /\ content \in [Files -> [Processes -> Outputs]] /\ buffer \in [Streams -> Outputs]
      /\ cleared \in [Files -> [Processes -> Outputs]] /\ {s} \in SUBSET Streams
      /\ \A f \in Files : cleared[f] = IF f = CaptureFile(s) THEN Empty ELSE content[f]
      /\ fd' = [t \in Streams |-> IF t = s THEN CaptureFile(s) ELSE fd[t]]
      /\ \A t \in Streams : buffer'[t] = IF t = s THEN <<>> ELSE buffer[t]
  <2>1. Empty \in [Processes -> Outputs]
    BY DEF Empty, Outputs
  <2>. QED
    BY <1>0, <1>1, <1>2, <2>1 DEF TypeOK, Drained
<1>. HIDE DEF cleared
<1>9. content'[CaptureFile(s)] = Empty
  <2>1. Flushed({s}, cleared)[CaptureFile(s)] = cleared[CaptureFile(s)]
    BY <1>2, <1>7, <1>8, FlushedElsewhere
  <2>. QED
    BY <1>1, <1>2, <1>8, <2>1
<1>10. ASSUME NEW t \in Streams, NEW f, Owns(t, f)
       PROVE  HostOutput(content', buffer', fd', t, f) = HostOutput(content, buffer, fd, t, f)
  <2>1. f \in Files /\ f # CaptureFile(s) /\ cleared[f] = content[f]
    BY <1>6, <1>8, <1>10
  <2>3. fd[s] # f => content'[f] = content[f]
    BY <1>1, <1>8, <2>1, FlushedElsewhere
  <2>4. fd[s] = f => content'[f]["host"] = content[f]["host"] \o buffer[s]
    <3>. SUFFICES ASSUME fd[s] = f PROVE Flushed({s}, cleared)[f]["host"] = content[f]["host"] \o buffer[s]
      BY <1>1
    <3>1. Flushed({s}, cleared)[fd[s]]["host"] = cleared[fd[s]]["host"] \o buffer[s]
      BY <1>7, <1>8, FlushedHere
    <3>. QED
      BY <2>1, <3>1
  <2>5. CASE t = s
    <3>1. HostOutput(content', buffer', fd', s, f) = content'[f]["host"]
      BY <1>8, <2>1 DEF HostOutput
    <3>. QED
      BY <2>3, <2>4, <2>5, <3>1 DEF HostOutput
  <2>6. CASE t # s
    <3>1. fd[s] # f
      BY <1>0, <1>10, <2>6, OwnsApart
    <3>2. fd'[t] = fd[t] /\ buffer'[t] = buffer[t] /\ content'[f] = content[f]
      BY <1>8, <2>3, <2>6, <3>1
    <3>. QED
      BY <3>2 DEF HostOutput
  <2>. QED
    BY <2>5, <2>6
<1>11. ASSUME NEW t \in Streams
       PROVE  /\ t \notin Buffered => buffer'[t] = <<>>
              /\ outside'["host"][t] = HostOutput(content', buffer', fd', t, Terminal(t))
  <2>1. Owns(t, Terminal(t)) /\ outside'["host"][t] = HostOutput(content, buffer, fd, t, Terminal(t))
    BY <1>0, <1>4 DEF Placed, Owns
  <2>2. t \notin Buffered => buffer'[t] = <<>>
    BY <1>0, <1>8 DEF Placed
  <2>. QED
    BY <1>10, <2>1, <2>2
<1>12. ASSUME NEW t \in Streams, NEW k \in Open(stack', t)
       PROVE  expected'[k]["host"] = HostOutput(content', buffer', fd', t, stack'[k].m_TempFile)
  <2>1. CASE k \in Open(stack, t)
    <3>1. k \in 1 .. n /\ Owns(t, stack[k].m_TempFile) /\ stack'[k] = stack[k] /\ expected'[k] = expected[k]
      BY <1>0, <1>4, <2>1, OpenTyped DEF Owns
    <3>2. expected[k]["host"] = HostOutput(content, buffer, fd, t, stack[k].m_TempFile)
      BY <1>0, <2>1 DEF Placed
    <3>. QED
      BY <1>10, <3>1, <3>2
  <2>2. CASE k \notin Open(stack, t)
    <3>1. k = n + 1 /\ t = s
      BY <1>5, <1>12, <2>2
    <3>2. stack'[k].m_TempFile = CaptureFile(s) /\ expected'[k]["host"] = Empty["host"]
      BY <1>3, <1>4, <3>1 DEF Empty, Processes
    <3>3. Empty["host"] = <<>>
      BY DEF Empty, Processes
    <3>4. HostOutput(content', buffer', fd', s, CaptureFile(s)) = <<>> \o <<>>
      BY <1>8, <1>9, <3>3 DEF HostOutput
    <3>. QED
      BY <1>9, <3>1, <3>2, <3>3, <3>4
  <2>. QED
    BY <2>1, <2>2
<1>13. Single'
  BY <1>0, <1>1, <1>5 DEF Single
<1>. QED
  BY <1>0, <1>1, <1>11, <1>12, <1>13 DEF Placed, CaptureExact, CaptureIsOwn

\* A capture without a file changes no output.
LEMMA BeginWithoutFileOutput ==
  ASSUME OutputInv, UNCHANGED outOfProcess, NEW s \in Streams, BeginWithoutFile(s)
  PROVE  Single' /\ Placed' /\ CaptureExact'
<1>. DEFINE c == [m_FD |-> s, m_TempFile |-> Closed, m_OwnsFile |-> TRUE, m_DupFD |-> Closed]
            n == Len(stack)
<1>0. DescriptorInv /\ Single /\ Placed /\ CaptureExact /\ TypeOK
  BY DEF OutputInv, DescriptorInv
<1>1. /\ stack' = Append(stack, c) /\ expected' = Append(expected, Empty) /\ ~outOfProcess
      /\ UNCHANGED <<fd, content, buffer, outside, last>>
  BY DEF BeginWithoutFile
<1>2. c \in Captures /\ c.m_DupFD = Closed
  BY DEF Captures
<1>. HIDE DEF c
<1>3. /\ stack \in Seq(Captures) /\ n \in Nat /\ Len(expected) = n
      /\ \A k \in 1 .. n : stack'[k] = stack[k] /\ expected'[k] = expected[k]
  BY <1>0, <1>1, <1>2 DEF TypeOK
<1>4. \A t \in Streams : Open(stack', t) = Open(stack, t)
  <2>. SUFFICES ASSUME NEW t \in Streams PROVE Open(stack', t) = Open(stack, t)
    OBVIOUS
  <2>1. Open(Append(stack, c), t) = Open(stack, t) \cup
             (IF c.m_FD = t /\ c.m_DupFD # Closed THEN {Len(stack) + 1} ELSE {})
    <3>1. stack \in Seq(Captures) /\ c \in Captures
      BY <1>2, <1>3
    <3>. QED
      BY <3>1, OpenAfterPush
  <2>. QED
    BY <1>1, <1>2, <2>1
<1>5. \A t \in Streams : \A k \in Open(stack, t) : stack'[k] = stack[k] /\ expected'[k] = expected[k]
  BY <1>0, <1>3, OpenTyped
<1>6. ASSUME NEW t \in Streams, NEW k \in Open(stack', t)
      PROVE  expected'[k]["host"] = HostOutput(content', buffer', fd', t, stack'[k].m_TempFile)
  <2>1. k \in Open(stack, t) /\ stack'[k] = stack[k] /\ expected'[k] = expected[k]
    BY <1>4, <1>5, <1>6
  <2>2. content' = content /\ buffer' = buffer /\ fd' = fd
    BY <1>1
  <2>. QED
    BY <1>0, <2>1, <2>2 DEF Placed
<1>7. \A t \in Streams : /\ t \notin Buffered => buffer'[t] = <<>>
                         /\ outside'["host"][t] = HostOutput(content', buffer', fd', t, Terminal(t))
  BY <1>0, <1>1 DEF Placed
<1>8. Single' /\ CaptureExact'
  BY <1>0, <1>1 DEF Single, CaptureExact, CaptureIsOwn
<1>. QED
  BY <1>6, <1>7, <1>8 DEF Placed

\* The executor's output is where it was, if no step of the executor and no
\* beginning or end of a capture moves it.
LEMMA ExecutorKept ==
  ASSUME DescriptorInv, ExecutorPlaced, outOfProcess' = outOfProcess, remote' = remote,
         \A f \in Files : content'[f]["executor"] = content[f]["executor"],
         \A t \in Streams : outside'["executor"][t] = outside["executor"][t],
         \A t \in Streams : Open(stack', t) = Open(stack, t),
         \A t \in Streams : \A k \in Open(stack, t) : expected'[k]["executor"] = expected[k]["executor"]
  PROVE  ExecutorPlaced'
<1>1. \A t \in Streams : ExecutorOutput(content', remote', t) = ExecutorOutput(content, remote, t)
  BY FilesApart DEF ExecutorOutput
<1>2. ~outOfProcess => Silent'
  BY DEF ExecutorPlaced, Silent
<1>. QED
  BY <1>1, <1>2 DEF ExecutorPlaced

\* What this process prints is none of the executor's output.
LEMMA HostPrintsExecutor ==
  ASSUME OutputInv, UNCHANGED outOfProcess, NEW s \in Streams, HostPrints(s)
  PROVE  ExecutorPlaced'
<1>1. DescriptorInv /\ ExecutorPlaced /\ TypeOK
  BY DEF OutputInv, DescriptorInv
<1>2. Record("host", s) /\ UNCHANGED <<remote, stack>>
  BY DEF HostPrints
<1>3. /\ content \in [Files -> [Processes -> Outputs]] /\ fd[s] \in Files
      /\ "host" \in Processes /\ "executor" \in Processes /\ "host" # "executor"
  BY <1>1 DEF TypeOK, Processes
<1>4. \A f \in Files : content'[f]["executor"] = content[f]["executor"]
  <2>1. CASE s \in Buffered
    BY <2>1 DEF HostPrints
  <2>2. CASE s \notin Buffered
    <3>1. content' = [content EXCEPT ![fd[s]] =
            [content[fd[s]] EXCEPT !["host"] = Append(content[fd[s]]["host"], printed)]]
      BY <2>2 DEF HostPrints
    <3>. QED
      BY <1>3, <3>1
  <2>. QED
    BY <2>1, <2>2
<1>5. \A t \in Streams : outside'["executor"][t] = outside["executor"][t]
  BY <1>1, <1>2, <1>3, Recorded
<1>6. ASSUME NEW t \in Streams, NEW k \in Open(stack, t)
      PROVE  expected'[k]["executor"] = expected[k]["executor"]
  <2>1. k \in 1 .. Len(stack)
    BY <1>1, OpenTyped
  <2>. QED
    BY <1>1, <1>2, <1>3, <2>1, Recorded
<1>7. \A t \in Streams : Open(stack', t) = Open(stack, t)
  BY <1>2
<1>. QED
  BY <1>1, <1>2, <1>4, <1>5, <1>6, <1>7, ExecutorKept

\* Nor is what it flushes.
LEMMA FlushExecutor ==
  ASSUME OutputInv, UNCHANGED outOfProcess, NEW s \in Streams, Flush(s)
  PROVE  ExecutorPlaced'
<1>1. DescriptorInv /\ ExecutorPlaced /\ TypeOK
  BY DEF OutputInv, DescriptorInv
<1>2. content' = Flushed({s}, content) /\ UNCHANGED <<remote, stack, expected, outside>>
  BY DEF Flush
<1>3. \A f \in Files : content'[f]["executor"] = content[f]["executor"]
  <2>1. {s} \in SUBSET Streams /\ content \in [Files -> [Processes -> Outputs]]
    BY <1>1 DEF TypeOK
  <2>. QED
    BY <1>2, <2>1, FlushedExecutor
<1>. QED
  BY <1>1, <1>2, <1>3, ExecutorKept

\* A capture without a file moves nothing.
LEMMA BeginWithoutFileExecutor ==
  ASSUME OutputInv, UNCHANGED outOfProcess, NEW s \in Streams, BeginWithoutFile(s)
  PROVE  ExecutorPlaced'
<1>. DEFINE c == [m_FD |-> s, m_TempFile |-> Closed, m_OwnsFile |-> TRUE, m_DupFD |-> Closed]
<1>1. DescriptorInv /\ ExecutorPlaced /\ TypeOK
  BY DEF OutputInv, DescriptorInv
<1>2. /\ stack' = Append(stack, c) /\ expected' = Append(expected, Empty)
      /\ UNCHANGED <<content, remote, outside>>
  BY DEF BeginWithoutFile
<1>3. c \in Captures /\ c.m_DupFD = Closed
  BY DEF Captures
<1>. HIDE DEF c
<1>4. stack \in Seq(Captures) /\ expected \in Seq([Processes -> Outputs]) /\ Len(expected) = Len(stack)
  BY <1>1 DEF TypeOK
<1>5. ASSUME NEW t \in Streams PROVE Open(stack', t) = Open(stack, t)
  <2>1. Open(Append(stack, c), t) = Open(stack, t) \cup
             (IF c.m_FD = t /\ c.m_DupFD # Closed THEN {Len(stack) + 1} ELSE {})
    <3>1. stack \in Seq(Captures) /\ c \in Captures
      BY <1>3, <1>4
    <3>. QED
      BY <3>1, OpenAfterPush
  <2>2. Open(Append(stack, c), t) = Open(stack, t)
    <3>1. ~(c.m_FD = t /\ c.m_DupFD # Closed)
      BY <1>3
    <3>2. Open(Append(stack, c), t) = Open(stack, t) \cup {}
      BY <2>1, <3>1
    <3>. QED
      BY <3>2
  <2>3. stack' = Append(stack, c)
    BY <1>2
  <2>. QED
    BY <2>2, <2>3
<1>6. ASSUME NEW t \in Streams, NEW k \in Open(stack, t)
      PROVE  expected'[k]["executor"] = expected[k]["executor"]
  <2>1. k \in 1 .. Len(stack)
    BY <1>1, OpenTyped
  <2>. QED
    BY <1>2, <1>4, <2>1
<1>. QED
  BY <1>1, <1>2, <1>5, <1>6, ExecutorKept

\* What the executor prints is expected where it will arrive.
LEMMA ExecutorPrintsExecutor ==
  ASSUME OutputInv, UNCHANGED outOfProcess, NEW s \in Streams, ExecutorPrints(s)
  PROVE  ExecutorPlaced'
<1>1. DescriptorInv /\ Single /\ ExecutorPlaced /\ TypeOK
  BY DEF OutputInv, DescriptorInv
<1>2. /\ outOfProcess /\ printed < MaxMessages /\ Record("executor", s) /\ stack' = stack
  BY DEF ExecutorPrints
<1>3. /\ content \in [Files -> [Processes -> Outputs]] /\ remote \in [Streams -> Outputs]
      /\ \A t \in Streams : Redirect(t) \in Files /\ (Redirect(t) = Redirect(s) <=> t = s)
      /\ "executor" \in Processes
  BY <1>1, FilesApart DEF TypeOK, Processes
<1>4. \A t \in Streams : content[Redirect(t)]["executor"] \in Outputs
  BY <1>3
<1>5. /\ \A t \in Streams : t \notin Buffered => remote'[t] = <<>>
      /\ \A t \in Streams : ExecutorOutput(content', remote', t) =
           IF t = s THEN Append(ExecutorOutput(content, remote, t), printed)
                    ELSE ExecutorOutput(content, remote, t)
  <2>1. CASE s \in Buffered
    <3>1. content' = content /\ remote' = [remote EXCEPT ![s] = Append(remote[s], printed)]
      BY <2>1 DEF ExecutorPrints
    <3>2. \A t \in Streams : remote'[t] = IF t = s THEN Append(remote[t], printed) ELSE remote[t]
      BY <1>3, <3>1
    <3>3. Append(content[Redirect(s)]["executor"] \o remote[s], printed) =
             content[Redirect(s)]["executor"] \o Append(remote[s], printed)
      BY <1>1, <1>2, <1>3, <1>4, AppendAtEnd
    <3>4. ASSUME NEW t \in Streams
          PROVE  ExecutorOutput(content', remote', t) =
                   IF t = s THEN Append(ExecutorOutput(content, remote, t), printed)
                            ELSE ExecutorOutput(content, remote, t)
      <4>1. ExecutorOutput(content', remote', t) =
              content[Redirect(t)]["executor"] \o (IF t = s THEN Append(remote[t], printed) ELSE remote[t])
        BY <3>1, <3>2 DEF ExecutorOutput
      <4>2. ExecutorOutput(content, remote, t) = content[Redirect(t)]["executor"] \o remote[t]
        BY DEF ExecutorOutput
      <4>3. t = s => Append(content[Redirect(t)]["executor"] \o remote[t], printed) =
                       content[Redirect(t)]["executor"] \o Append(remote[t], printed)
        BY <3>3
      <4>. QED
        BY <4>1, <4>2, <4>3
    <3>5. \A t \in Streams : t \notin Buffered => remote'[t] = <<>>
      BY <1>1, <2>1, <3>2 DEF ExecutorPlaced
    <3>. QED
      BY <3>4, <3>5
  <2>2. CASE s \notin Buffered
    <3>1. /\ remote' = remote /\ remote[s] = <<>>
          /\ content' = [content EXCEPT ![Redirect(s)] =
               [content[Redirect(s)] EXCEPT !["executor"] =
                  Append(content[Redirect(s)]["executor"], printed)]]
      BY <1>1, <2>2 DEF ExecutorPrints, ExecutorPlaced
    <3>2. \A t \in Streams : content'[Redirect(t)]["executor"] =
             IF t = s THEN Append(content[Redirect(t)]["executor"], printed)
                      ELSE content[Redirect(t)]["executor"]
      BY <1>3, <3>1
    <3>3. /\ content[Redirect(s)]["executor"] \o <<>> = content[Redirect(s)]["executor"]
          /\ Append(content[Redirect(s)]["executor"], printed) \o <<>> =
               Append(content[Redirect(s)]["executor"], printed)
      <4>1. /\ content[Redirect(s)]["executor"] \in Outputs
            /\ Append(content[Redirect(s)]["executor"], printed) \in Outputs
        BY <1>1, <1>2, <1>4, AppendOutput
      <4>. QED
        BY <4>1, ConcatEmptySeq DEF Outputs
    <3>4. ASSUME NEW t \in Streams
          PROVE  ExecutorOutput(content', remote', t) =
                   IF t = s THEN Append(ExecutorOutput(content, remote, t), printed)
                            ELSE ExecutorOutput(content, remote, t)
      <4>1. ExecutorOutput(content', remote', t) =
              (IF t = s THEN Append(content[Redirect(t)]["executor"], printed)
                        ELSE content[Redirect(t)]["executor"]) \o remote[t]
        BY <3>1, <3>2 DEF ExecutorOutput
      <4>2. ExecutorOutput(content, remote, t) = content[Redirect(t)]["executor"] \o remote[t]
        BY DEF ExecutorOutput
      <4>3. t = s => /\ content[Redirect(t)]["executor"] \o remote[t] = content[Redirect(t)]["executor"]
                     /\ Append(content[Redirect(t)]["executor"], printed) \o remote[t] =
                          Append(content[Redirect(t)]["executor"], printed)
        BY <3>1, <3>3
      <4>. QED
        BY <4>1, <4>2, <4>3
    <3>5. \A t \in Streams : t \notin Buffered => remote'[t] = <<>>
      BY <1>1, <3>1 DEF ExecutorPlaced
    <3>. QED
      BY <3>4, <3>5
  <2>. QED
    BY <2>1, <2>2
<1>6. ASSUME NEW t \in Streams, Open(stack, t) = {}
      PROVE  outside'["executor"][t] = ExecutorOutput(content', remote', t)
  <2>1. outside["executor"][t] = ExecutorOutput(content, remote, t)
    BY <1>1, <1>6 DEF ExecutorPlaced
  <2>2. outside'["executor"][t] = IF t = s THEN Append(outside["executor"][t], printed)
                                           ELSE outside["executor"][t]
    BY <1>1, <1>2, <1>3, <1>6, Recorded
  <2>. QED
    BY <1>5, <2>1, <2>2
<1>7. ASSUME NEW t \in Streams, NEW k \in Open(stack, t)
      PROVE  expected'[k]["executor"] = ExecutorOutput(content', remote', t)
  <2>1. expected[k]["executor"] = ExecutorOutput(content, remote, t) /\ k \in 1 .. Len(stack)
    BY <1>1, OpenTyped DEF ExecutorPlaced
  <2>2. expected'[k]["executor"] = IF Open(stack, s) # {} /\ k = Max(Open(stack, s))
                                   THEN Append(expected[k]["executor"], printed)
                                   ELSE expected[k]["executor"]
    BY <1>1, <1>2, <1>3, <2>1, Recorded
  <2>3. t = s => Open(stack, s) # {} /\ k = Max(Open(stack, s))
    BY <1>1, <1>2, <1>7, Innermost DEF Single
  <2>4. t # s => ~(Open(stack, s) # {} /\ k = Max(Open(stack, s)))
    BY <1>1, <1>7, Innermost, OpenTyped
  <2>. QED
    BY <1>5, <2>1, <2>2, <2>3, <2>4
<1>. QED
  BY <1>2, <1>5, <1>6, <1>7 DEF ExecutorPlaced

\* Writing the executor's buffer out moves its output and loses none.
LEMMA ExecutorFlushExecutor ==
  ASSUME OutputInv, UNCHANGED outOfProcess, NEW s \in Streams, ExecutorFlush(s)
  PROVE  ExecutorPlaced'
<1>1. DescriptorInv /\ ExecutorPlaced /\ TypeOK
  BY DEF OutputInv, DescriptorInv
<1>2. /\ UNCHANGED <<stack, expected, outside>> /\ remote[s] # <<>>
      /\ remote' = [remote EXCEPT ![s] = <<>>]
      /\ content' = [content EXCEPT ![Redirect(s)] =
                       [content[Redirect(s)] EXCEPT !["executor"] =
                          content[Redirect(s)]["executor"] \o remote[s]]]
  BY DEF ExecutorFlush
<1>3. /\ content \in [Files -> [Processes -> Outputs]] /\ remote \in [Streams -> Outputs]
      /\ \A t \in Streams : Redirect(t) \in Files /\ (Redirect(t) = Redirect(s) <=> t = s)
      /\ "executor" \in Processes
  BY <1>1, FilesApart DEF TypeOK, Processes
<1>4. outOfProcess
  BY <1>1, <1>2 DEF ExecutorPlaced, Silent
<1>5. /\ \A t \in Streams : remote'[t] = IF t = s THEN <<>> ELSE remote[t]
      /\ \A t \in Streams : content'[Redirect(t)]["executor"] =
             IF t = s THEN content[Redirect(t)]["executor"] \o remote[t]
                      ELSE content[Redirect(t)]["executor"]
  BY <1>2, <1>3
<1>6. (content[Redirect(s)]["executor"] \o remote[s]) \o <<>> = content[Redirect(s)]["executor"] \o remote[s]
  <2>1. content[Redirect(s)]["executor"] \in Outputs /\ remote[s] \in Outputs
    BY <1>3
  <2>2. content[Redirect(s)]["executor"] \o remote[s] \in Seq(0 .. MaxMessages)
    BY <2>1 DEF Outputs
  <2>. QED
    BY <2>2, ConcatEmptySeq
<1>7. ASSUME NEW t \in Streams
      PROVE  ExecutorOutput(content', remote', t) = ExecutorOutput(content, remote, t)
  <2>1. CASE t = s
    BY <1>5, <1>6, <2>1 DEF ExecutorOutput
  <2>2. CASE t # s
    BY <1>5, <2>2 DEF ExecutorOutput
  <2>. QED
    BY <2>1, <2>2
<1>. QED
  BY <1>1, <1>2, <1>4, <1>5, <1>7 DEF ExecutorPlaced

\* Nothing before a text is the text.
LEMMA EmptyBefore ==
  ASSUME TypeOK, NEW s \in Streams
  PROVE  <<>> \o remote[s] = remote[s]
<1>1. remote[s] \in Seq(0 .. MaxMessages)
  BY DEF TypeOK, Outputs
<1>. QED
  BY <1>1, ConcatEmptySeq

\* What the executor has not written when a capture begins arrives in it.
LEMMA BeginExecutor ==
  ASSUME ~Renesting, OutputInv, UNCHANGED outOfProcess, NEW s \in Streams,
         BeginStdStreamCapture(s)
  PROVE  ExecutorPlaced'
<1>. DEFINE c == [m_FD |-> s, m_TempFile |-> CaptureFile(s), m_OwnsFile |-> ~outOfProcess,
                  m_DupFD |-> fd[s]]
            cleared == [content EXCEPT ![CaptureFile(s)] = Empty]
            e == [Empty EXCEPT !["executor"] = remote[s]]
            n == Len(stack)
<1>0. DescriptorInv /\ Single /\ ExecutorPlaced /\ TypeOK
  BY DEF OutputInv, DescriptorInv
<1>1. /\ n < MaxDepth /\ stack' = Append(stack, c) /\ content' = Flushed({s}, cleared)
      /\ expected' = Append(expected, e) /\ remote' = remote
      /\ outside' = [outside EXCEPT !["executor"] = [outside["executor"] EXCEPT ![s] = <<>>]]
      /\ outOfProcess => Open(stack, s) = {}
  BY <1>0, Innermost DEF BeginStdStreamCapture, FlushedAtBegin
<1>2. CaptureFile(s) \in Files /\ c \in Captures /\ c.m_DupFD # Closed
  BY <1>0, <1>1, BeginStack
<1>3. c.m_FD = s /\ e["executor"] = remote[s] /\ "executor" \in Processes
  BY DEF Empty, Processes
<1>. HIDE DEF c, e
<1>4. /\ stack \in Seq(Captures) /\ n \in Nat /\ Len(expected) = n
      /\ \A k \in 1 .. n : expected'[k] = expected[k]
      /\ expected'[n + 1] = e
  BY <1>0, <1>1 DEF TypeOK
<1>5. ASSUME NEW t \in Streams
      PROVE  Open(stack', t) = Open(stack, t) \cup (IF t = s THEN {n + 1} ELSE {})
  <2>1. Open(Append(stack, c), t) = Open(stack, t) \cup
             (IF c.m_FD = t /\ c.m_DupFD # Closed THEN {Len(stack) + 1} ELSE {})
    BY <1>2, <1>4, OpenAfterPush
  <2>. QED
    BY <1>1, <1>2, <1>3, <2>1
<1>6. \A f \in Files : content'[f]["executor"] =
        IF f = CaptureFile(s) THEN <<>> ELSE content[f]["executor"]
  <2>1. content \in [Files -> [Processes -> Outputs]] /\ Empty \in [Processes -> Outputs]
    BY <1>0 DEF TypeOK, Empty, Outputs
  <2>2. cleared \in [Files -> [Processes -> Outputs]] /\ {s} \in SUBSET Streams
    BY <2>1
  <2>3. \A f \in Files : cleared[f] = IF f = CaptureFile(s) THEN Empty ELSE content[f]
    BY <2>1
  <2>4. Empty["executor"] = <<>>
    BY <1>3 DEF Empty
  <2>. HIDE DEF cleared
  <2>. QED
    BY <1>1, <2>2, <2>3, <2>4, FlushedExecutor
<1>7. ASSUME NEW t \in Streams
      PROVE  ExecutorOutput(content', remote', t) =
               IF t = s THEN remote[s] ELSE ExecutorOutput(content, remote, t)
  <2>1. Redirect(t) \in Files /\ (Redirect(t) = Redirect(s) <=> t = s)
    BY FilesApart
  <2>2. CASE outOfProcess
    <3>1. content'[Redirect(t)]["executor"] = IF t = s THEN <<>> ELSE content[Redirect(t)]["executor"]
      BY <1>6, <2>1, <2>2 DEF CaptureFile
    <3>2. CASE t = s
      BY <1>0, <1>1, <3>1, <3>2, EmptyBefore DEF ExecutorOutput
    <3>3. CASE t # s
      BY <1>1, <3>1, <3>3 DEF ExecutorOutput
    <3>. QED
      BY <3>2, <3>3
  <2>3. CASE ~outOfProcess
    <3>1. content'[Redirect(t)]["executor"] = <<>> /\ content[Redirect(t)]["executor"] = <<>>
      BY <1>0, <1>6, <2>1, <2>3 DEF ExecutorPlaced, Silent
    <3>2. ExecutorOutput(content', remote', t) = remote[t] /\ ExecutorOutput(content, remote, t) = remote[t]
      BY <1>0, <1>1, <3>1, EmptyBefore DEF ExecutorOutput
    <3>. QED
      BY <3>2
  <2>. QED
    BY <2>2, <2>3
<1>8. ASSUME NEW t \in Streams, Open(stack', t) = {}
      PROVE  outside'["executor"][t] = ExecutorOutput(content', remote', t)
  <2>1. t # s /\ Open(stack, t) = {}
    BY <1>5, <1>8
  <2>2. outside["executor"][t] = ExecutorOutput(content, remote, t)
    BY <1>0, <2>1 DEF ExecutorPlaced
  <2>3. outside'["executor"][t] = outside["executor"][t]
    <3>1. outside \in [Processes -> [Streams -> Outputs]]
      BY <1>0 DEF TypeOK
    <3>. QED
      BY <1>1, <1>3, <2>1, <3>1
  <2>. QED
    BY <1>7, <2>1, <2>2, <2>3
<1>9. ASSUME NEW t \in Streams, NEW k \in Open(stack', t)
      PROVE  expected'[k]["executor"] = ExecutorOutput(content', remote', t)
  <2>1. CASE k \in Open(stack, t)
    <3>1. k \in 1 .. n /\ expected[k]["executor"] = ExecutorOutput(content, remote, t)
      BY <1>0, <2>1, OpenTyped DEF ExecutorPlaced
    <3>2. t = s => ExecutorOutput(content, remote, t) = remote[s]
      <4>1. SUFFICES ASSUME t = s PROVE ExecutorOutput(content, remote, s) = remote[s]
        OBVIOUS
      <4>2. ~outOfProcess
        BY <1>1, <2>1, <4>1
      <4>3. content[Redirect(s)]["executor"] = <<>>
        BY <1>0, <4>2, FilesApart DEF ExecutorPlaced, Silent
      <4>. QED
        BY <1>0, <4>3, EmptyBefore DEF ExecutorOutput
    <3>. QED
      BY <1>4, <1>7, <3>1, <3>2
  <2>2. CASE k \notin Open(stack, t)
    <3>1. k = n + 1 /\ t = s
      BY <1>5, <1>9, <2>2
    <3>. QED
      BY <1>3, <1>4, <1>7, <3>1
  <2>. QED
    BY <2>1, <2>2
<1>10. ~outOfProcess => Silent'
  BY <1>0, <1>1, <1>6 DEF ExecutorPlaced, Silent
<1>11. \A t \in Streams : t \notin Buffered => remote'[t] = <<>>
  BY <1>0, <1>1 DEF ExecutorPlaced
<1>. QED
  BY <1>8, <1>9, <1>10, <1>11 DEF ExecutorPlaced

\* A capture that ends has its output, and what follows goes below.
LEMMA EndOutput ==
  ASSUME OutputInv, UNCHANGED outOfProcess, EndStdStreamCapture
  PROVE  Single' /\ Placed' /\ CaptureExact'
<1>0. DescriptorInv /\ Single /\ Placed /\ ExecutorPlaced /\ CaptureExact /\ TypeOK
  BY DEF OutputInv, DescriptorInv
<1>1. CASE Last(stack).m_DupFD = Closed
  <2>1. UNCHANGED <<fd, content, buffer, stack, expected, last, outside>>
    BY <1>1 DEF EndStdStreamCapture
  <2>. QED
    BY <1>0, <2>1, SameAnswer DEF Single, Placed
<1>2. CASE Last(stack).m_DupFD # Closed
  <2>. DEFINE sci == Last(stack)
              written == Flushed(Streams, content)
              n == Len(stack)
              s == sci.m_FD
              f0 == sci.m_TempFile
  <2>1. /\ stack # <<>>
        /\ content' = [written EXCEPT ![f0] = Empty]
        /\ buffer' = Drained(Streams)
        /\ stack' = Front(stack) /\ expected' = Front(expected)
        /\ outside' = [outside EXCEPT !["executor"] = [outside["executor"] EXCEPT ![s] = remote[s]]]
        /\ \E result \in Answers(sci, written[f0]) :
             last' = [result |-> result, expected |-> Last(expected), left |-> remote[s],
                      again |-> ReadAgain(sci, written[f0])]
    BY <1>2 DEF EndStdStreamCapture, FlushedAtEnd
  <2>2. /\ sci \in Captures /\ n \in Nat \ {0} /\ n \in Open(stack, s) /\ sci = stack[n]
        /\ f0 \in Files /\ fd[s] = f0
    BY <1>0, <1>2, <2>1, EndStack
  <2>3. s \in Streams /\ f0 = stack[n].m_TempFile
    BY <2>2 DEF Captures
  <2>. HIDE DEF sci
  <2>4. /\ stack \in Seq(Captures) /\ expected \in Seq([Processes -> Outputs]) /\ Len(expected) = n
        /\ content \in [Files -> [Processes -> Outputs]] /\ buffer \in [Streams -> Outputs]
        /\ Streams \in SUBSET Streams
    BY <1>0 DEF TypeOK
  <2>5. written \in [Files -> [Processes -> Outputs]]
    BY <1>0, <2>4, FlushedType
  <2>6. \A t \in Streams : buffer'[t] = <<>> /\ Drained(Streams)[t] = <<>>
    BY <2>1 DEF Drained
  <2>7. ASSUME NEW t \in Streams, NEW f, Owns(t, f)
        PROVE  /\ f \in Files
               /\ written[f]["host"] = HostOutput(content, buffer, fd, t, f)
               /\ written[f]["executor"] = content[f]["executor"]
    <3>1. f \in Files /\ "host" \in Processes
      BY <1>0, <2>7, OwnsApart DEF Processes
    <3>2. written[f]["executor"] = content[f]["executor"]
      BY <2>4, <3>1, FlushedExecutor
    <3>3. HostOutput(Flushed(Streams, content), Drained(Streams), fd, t, f) =
            HostOutput(content, buffer, fd, t, f)
      BY <1>0, <2>4, <2>7, FlushedOutput
    <3>4. written[f]["host"] \in Outputs
      BY <2>5, <3>1
    <3>5. written[f]["host"] \o <<>> = written[f]["host"]
      BY <3>4, ConcatEmptySeq DEF Outputs
    <3>6. HostOutput(written, Drained(Streams), fd, t, f) = written[f]["host"]
      BY <2>6, <3>5 DEF HostOutput
    <3>. QED
      BY <3>1, <3>2, <3>3, <3>6
  <2>8. CaptureExact'
    <3>. SUFFICES ASSUME ~last'.again PROVE CaptureIsOwn'
      BY DEF CaptureExact
    <3>1. Owns(s, f0)
      BY <2>2, <2>3 DEF Owns
    <3>2. /\ expected[n]["host"] = HostOutput(content, buffer, fd, s, f0)
          /\ expected[n]["executor"] = ExecutorOutput(content, remote, s)
      BY <1>0, <2>2, <2>3 DEF Placed, ExecutorPlaced
    <3>3. written[f0]["host"] = expected[n]["host"] /\ written[f0]["executor"] = content[f0]["executor"]
      BY <2>3, <2>7, <3>1, <3>2
    <3>4. content[f0]["executor"] = content[Redirect(s)]["executor"]
      <4>1. f0 = IF outOfProcess THEN Redirect(s) ELSE Temp(n)
        BY <1>0, <2>2, <2>3, OpenTyped DEF DescriptorInv, OwnFiles, Open
      <4>2. ~outOfProcess => content[f0]["executor"] = <<>> /\ content[Redirect(s)]["executor"] = <<>>
        BY <1>0, <2>2, <2>3, FilesApart DEF ExecutorPlaced, Silent
      <4>. QED
        BY <4>1, <4>2
    <3>5. expected[n]["executor"] = content[Redirect(s)]["executor"] \o remote[s]
      BY <3>2 DEF ExecutorOutput
    <3>6. PICK result \in Answers(sci, written[f0]) :
            last' = [result |-> result, expected |-> Last(expected), left |-> remote[s],
                     again |-> ReadAgain(sci, written[f0])]
      BY <2>1
    <3>7. last'.again = ReadAgain(sci, written[f0])
      BY <3>6
    <3>8. result = written[f0]
      BY <3>6, <3>7 DEF Answers
    <3>9. last'.result = written[f0] /\ last'.expected = expected[n] /\ last'.left = remote[s]
      BY <2>1, <2>4, <3>6, <3>8 DEF Last
    <3>10. last'.result["host"] = last'.expected["host"]
      BY <3>3, <3>9
    <3>11. last'.result["executor"] \o last'.left = last'.expected["executor"]
      BY <3>3, <3>4, <3>5, <3>9
    <3>. QED
      BY <3>10, <3>11 DEF CaptureIsOwn
  <2>. HIDE DEF written
  <2>9. /\ \A k \in 1 .. n - 1 : stack'[k] = stack[k] /\ expected'[k] = expected[k]
        /\ \A t \in Streams : Open(stack', t) \subseteq Open(stack, t) /\ Open(stack', t) \subseteq 1 .. n - 1
    <3>1. \A k \in 1 .. n - 1 : stack'[k] = stack[k]
      BY <2>1, <2>4, PopFacts
    <3>2. \A k \in 1 .. n - 1 : expected'[k] = expected[k]
      BY <2>1, <2>2, <2>4 DEF Front
    <3>3. ASSUME NEW t \in Streams
          PROVE  Open(stack', t) \subseteq Open(stack, t) /\ Open(stack', t) \subseteq 1 .. n - 1
      BY <2>1, <2>4, OpenAfterPop DEF Under
    <3>. QED
      BY <3>1, <3>2, <3>3
  <2>10. ASSUME NEW t \in Streams, NEW f, Owns(t, f), f # f0
         PROVE  HostOutput(content', buffer', fd', t, f) = HostOutput(content, buffer, fd, t, f)
    <3>1. content'[f] = written[f] /\ "host" \in Processes
      BY <2>1, <2>5, <2>7, <2>10 DEF Processes
    <3>2. written[f]["host"] \in Outputs
      BY <2>5, <2>7, <2>10, <3>1
    <3>3. written[f]["host"] \o <<>> = written[f]["host"]
      BY <3>2, ConcatEmptySeq DEF Outputs
    <3>4. HostOutput(content', buffer', fd', t, f) = written[f]["host"]
      BY <2>6, <3>1, <3>3 DEF HostOutput
    <3>. QED
      BY <2>7, <2>10, <3>1, <3>4
  <2>11. ASSUME NEW t \in Streams
         PROVE  outside'["host"][t] = HostOutput(content', buffer', fd', t, Terminal(t))
    <3>0. outside'["host"] = outside["host"]
      BY <1>0, <2>1 DEF TypeOK, Processes
    <3>1. Owns(t, Terminal(t)) /\ outside["host"][t] = HostOutput(content, buffer, fd, t, Terminal(t))
      BY <1>0 DEF Placed, Owns
    <3>2. Terminal(t) # f0
      BY <1>0, <2>2, <2>3, OwnsApart
    <3>. QED
      BY <2>10, <3>0, <3>1, <3>2
  <2>12. ASSUME NEW t \in Streams, NEW k \in Open(stack', t)
         PROVE  expected'[k]["host"] = HostOutput(content', buffer', fd', t, stack'[k].m_TempFile)
    <3>1. /\ k \in Open(stack, t) /\ k \in 1 .. n - 1 /\ stack'[k] = stack[k] /\ expected'[k] = expected[k]
          /\ Owns(t, stack[k].m_TempFile)
      BY <2>9, <2>12 DEF Owns
    <3>2. stack[k].m_TempFile # f0
      <4>1. Owns(s, f0)
        BY <2>2, <2>3 DEF Owns
      <4>2. stack[k].m_TempFile = f0 => t = s
        BY <1>0, <2>3, <3>1, <4>1, OwnsApart
      <4>3. stack[k].m_TempFile = f0 => k = n
        BY <1>0, <2>2, <2>3, <3>1, <4>2, OwnsApart
      <4>. QED
        BY <2>2, <3>1, <4>3
    <3>3. expected[k]["host"] = HostOutput(content, buffer, fd, t, stack[k].m_TempFile)
      BY <1>0, <3>1 DEF Placed
    <3>. QED
      BY <2>10, <3>1, <3>2, <3>3
  <2>13. Single'
    BY <1>0, <2>9 DEF Single
  <2>. QED
    BY <2>6, <2>8, <2>11, <2>12, <2>13 DEF Placed
<1>. QED
  BY <1>1, <1>2

\* What the executor has not written when a capture ends is outside it.
LEMMA EndExecutor ==
  ASSUME OutputInv, UNCHANGED outOfProcess, EndStdStreamCapture
  PROVE  ExecutorPlaced'
<1>0. DescriptorInv /\ Single /\ ExecutorPlaced /\ TypeOK
  BY DEF OutputInv, DescriptorInv
<1>1. CASE Last(stack).m_DupFD = Closed
  <2>1. UNCHANGED <<content, remote, stack, expected, outside>>
    BY <1>1 DEF EndStdStreamCapture
  <2>. QED
    BY <1>0, <2>1, ExecutorKept
<1>2. CASE Last(stack).m_DupFD # Closed
  <2>. DEFINE sci == Last(stack)
              written == Flushed(Streams, content)
              n == Len(stack)
              s == sci.m_FD
              f0 == sci.m_TempFile
  <2>1. /\ stack # <<>>
        /\ content' = [written EXCEPT ![f0] = Empty]
        /\ stack' = Front(stack) /\ expected' = Front(expected) /\ remote' = remote
        /\ outside' = [outside EXCEPT !["executor"] = [outside["executor"] EXCEPT ![s] = remote[s]]]
    BY <1>2 DEF EndStdStreamCapture, FlushedAtEnd
  <2>2. /\ sci \in Captures /\ n \in Nat \ {0} /\ n \in Open(stack, s) /\ sci = stack[n] /\ f0 \in Files
    BY <1>0, <1>2, <2>1, EndStack
  <2>3. s \in Streams /\ f0 = IF outOfProcess THEN Redirect(s) ELSE Temp(n)
    BY <1>0, <2>2, OpenTyped DEF Captures, DescriptorInv, OwnFiles, Open
  <2>. HIDE DEF sci
  <2>4. /\ stack \in Seq(Captures) /\ expected \in Seq([Processes -> Outputs]) /\ Len(expected) = n
        /\ content \in [Files -> [Processes -> Outputs]] /\ Streams \in SUBSET Streams
        /\ outside \in [Processes -> [Streams -> Outputs]] /\ "executor" \in Processes
    BY <1>0 DEF TypeOK, Processes
  <2>5. written \in [Files -> [Processes -> Outputs]]
        /\ \A f \in Files : written[f]["executor"] = content[f]["executor"]
    BY <1>0, <2>4, FlushedType, FlushedExecutor
  <2>6. Empty["executor"] = <<>>
    BY <2>4 DEF Empty
  <2>. HIDE DEF written
  <2>7. \A f \in Files : content'[f]["executor"] = IF f = f0 THEN <<>> ELSE content[f]["executor"]
    BY <2>1, <2>5, <2>6
  <2>8. ASSUME NEW t \in Streams
        PROVE  ExecutorOutput(content', remote', t) =
                 IF t = s THEN remote[s] ELSE ExecutorOutput(content, remote, t)
    <3>1. Redirect(t) \in Files /\ (Redirect(t) = Redirect(s) <=> t = s)
      BY <2>3, FilesApart
    <3>2. CASE outOfProcess
      <4>1. content'[Redirect(t)]["executor"] = IF t = s THEN <<>> ELSE content[Redirect(t)]["executor"]
        BY <2>3, <2>7, <3>1, <3>2
      <4>2. CASE t = s
        <5>1. content'[Redirect(t)]["executor"] = <<>> /\ remote'[t] = remote[t]
          BY <2>1, <4>1, <4>2
        <5>2. <<>> \o remote[t] = remote[t]
          BY <1>0, EmptyBefore
        <5>. QED
          BY <4>2, <5>1, <5>2 DEF ExecutorOutput
      <4>3. CASE t # s
        <5>1. content'[Redirect(t)]["executor"] = content[Redirect(t)]["executor"] /\ remote'[t] = remote[t]
          BY <2>1, <4>1, <4>3
        <5>. QED
          BY <4>3, <5>1 DEF ExecutorOutput
      <4>. QED
        BY <4>2, <4>3
    <3>3. CASE ~outOfProcess
      <4>1. content'[Redirect(t)]["executor"] = <<>> /\ content[Redirect(t)]["executor"] = <<>>
        BY <1>0, <2>7, <3>1, <3>3 DEF ExecutorPlaced, Silent
      <4>2. ExecutorOutput(content', remote', t) = remote[t] /\ ExecutorOutput(content, remote, t) = remote[t]
        BY <1>0, <2>1, <4>1, EmptyBefore DEF ExecutorOutput
      <4>. QED
        BY <4>2
    <3>. QED
      BY <3>2, <3>3
  <2>9. ASSUME NEW t \in Streams
        PROVE  /\ Open(stack', t) \subseteq Open(stack, t) /\ Open(stack', t) \subseteq 1 .. n - 1
               /\ t # s => Open(stack', t) = Open(stack, t)
    <3>1. /\ Open(Front(stack), t) = Under(stack, t, n)
          /\ Open(stack, t) = Under(stack, t, n) \cup
               (IF sci.m_FD = t /\ sci.m_DupFD # Closed THEN {n} ELSE {})
          /\ Under(stack, t, n) \subseteq 1 .. n - 1
      BY <2>1, <2>4, OpenAfterPop DEF sci
    <3>. QED
      BY <2>1, <3>1
  <2>10. ASSUME NEW t \in Streams, Open(stack', t) = {}
         PROVE  outside'["executor"][t] = ExecutorOutput(content', remote', t)
    <3>1. outside'["executor"][t] = IF t = s THEN remote[s] ELSE outside["executor"][t]
      BY <2>1, <2>4
    <3>2. t # s => outside["executor"][t] = ExecutorOutput(content, remote, t)
      BY <1>0, <2>9, <2>10 DEF ExecutorPlaced
    <3>. QED
      BY <2>8, <3>1, <3>2
  <2>11. ASSUME NEW t \in Streams, NEW k \in Open(stack', t)
         PROVE  expected'[k]["executor"] = ExecutorOutput(content', remote', t)
    <3>1. k \in Open(stack, t) /\ k \in 1 .. n - 1
      BY <2>9, <2>11
    <3>2. expected'[k] = expected[k]
      BY <2>1, <2>2, <2>4, <3>1 DEF Front
    <3>3. expected[k]["executor"] = ExecutorOutput(content, remote, t)
      BY <1>0, <3>1 DEF ExecutorPlaced
    <3>4. t = s => ExecutorOutput(content, remote, t) = remote[s]
      <4>. SUFFICES ASSUME t = s PROVE ExecutorOutput(content, remote, s) = remote[s]
        OBVIOUS
      <4>1. k # n
        BY <2>2, <3>1
      <4>2. ~outOfProcess
        BY <1>0, <2>2, <2>3, <3>1, <4>1 DEF Single
      <4>3. content[Redirect(s)]["executor"] = <<>>
        BY <1>0, <2>3, <4>2, FilesApart DEF ExecutorPlaced, Silent
      <4>. QED
        BY <1>0, <2>3, <4>3, EmptyBefore DEF ExecutorOutput
    <3>. QED
      BY <2>8, <3>2, <3>3, <3>4
  <2>12. ~outOfProcess => Silent'
    BY <1>0, <2>1, <2>7 DEF ExecutorPlaced, Silent
  <2>13. \A t \in Streams : t \notin Buffered => remote'[t] = <<>>
    BY <1>0, <2>1 DEF ExecutorPlaced
  <2>. QED
    BY <2>10, <2>11, <2>12, <2>13 DEF ExecutorPlaced
<1>. QED
  BY <1>1, <1>2

\* As long as a stream is not captured twice at a time out of process, where the
\* captures of a stream would share its redirection file: what
\* EndStdStreamCapture returns is what this process printed to the capture, and
\* what the executor wrote during it (unless a longer text was read from the
\* redirection file before, which the C library may then answer with: ReadAgain);
\* the terminal receives the rest of what this process prints, and the redirection
\* file the rest of what the executor prints until the next capture discards it,
\* complete and in order, whatever the C libraries of the two processes buffer.
THEOREM CaptureOutput ==
  ASSUME ~Renesting
  PROVE  Spec => []OutputExact
<1>1. Init => OutputInv
  <2>. SUFFICES ASSUME Init PROVE OutputInv
    OBVIOUS
  <2>1. \A s \in Streams : Open(stack, s) = {}
    BY DEF Init, Open
  <2>2. /\ \A f \in Files : content[f]["host"] = <<>> /\ content[f]["executor"] = <<>>
        /\ \A s \in Streams : /\ outside["host"][s] = <<>> /\ outside["executor"][s] = <<>>
                              /\ buffer[s] = <<>> /\ remote[s] = <<>>
    BY DEF Init, Empty, Processes
  <2>3. ASSUME NEW s \in Streams
        PROVE  /\ outside["host"][s] = HostOutput(content, buffer, fd, s, Terminal(s))
               /\ outside["executor"][s] = ExecutorOutput(content, remote, s)
    <3>1. Terminal(s) \in Files /\ Redirect(s) \in Files
      BY FilesApart
    <3>2. content[Terminal(s)]["host"] = <<>> /\ content[Redirect(s)]["executor"] = <<>>
      BY <2>2, <3>1
    <3>3. HostOutput(content, buffer, fd, s, Terminal(s)) = <<>>
      BY <2>2, <3>2 DEF HostOutput
    <3>4. ExecutorOutput(content, remote, s) = <<>>
      BY <2>2, <3>2 DEF ExecutorOutput
    <3>. QED
      BY <2>2, <3>3, <3>4
  <2>4. Placed /\ ExecutorPlaced /\ Single
    BY <2>1, <2>2, <2>3 DEF Placed, ExecutorPlaced, Silent, Single
  <2>5. CaptureExact
    <3>1. /\ last.result["host"] = <<>> /\ last.expected["host"] = <<>>
          /\ last.result["executor"] = <<>> /\ last.expected["executor"] = <<>> /\ last.left = <<>>
      BY DEF Init, Empty, Processes
    <3>. QED
      BY <3>1 DEF CaptureExact, CaptureIsOwn
  <2>. QED
    BY <2>4, <2>5, InitDescriptors DEF OutputInv
<1>2. OutputInv /\ [Next]_vars => OutputInv'
  <2>. SUFFICES ASSUME OutputInv, [Next]_vars PROVE OutputInv'
    OBVIOUS
  <2>1. DescriptorInv'
    BY NextDescriptors DEF OutputInv
  <2>2. CASE UNCHANGED vars
    <3>1. UNCHANGED <<outOfProcess, fd, content, buffer, remote, stack, expected, outside, last>>
      BY <2>2 DEF vars
    <3>2. Single' /\ Placed'
      BY <3>1 DEF OutputInv, Single, Placed
    <3>3. ExecutorPlaced'
      BY <3>1, ExecutorKept DEF OutputInv
    <3>. QED
      BY <2>1, <3>1, <3>2, <3>3, SameAnswer DEF OutputInv
  <2>3. CASE Next
    <3>1. Single' /\ Placed' /\ CaptureExact'
      BY <2>3, HostPrintsOutput, ExecutorPrintsOutput, ExecutorFlushOutput, FlushOutput, BeginOutput,
         BeginWithoutFileOutput, EndOutput DEF Next
    <3>2. ExecutorPlaced'
      BY <2>3, HostPrintsExecutor, ExecutorPrintsExecutor, ExecutorFlushExecutor, FlushExecutor,
         BeginExecutor, BeginWithoutFileExecutor, EndExecutor DEF Next
    <3>. QED
      BY <2>1, <3>1, <3>2 DEF OutputInv
  <2>. QED
    BY <2>2, <2>3
<1>3. OutputInv => OutputExact
  <2>. SUFFICES ASSUME OutputInv PROVE TerminalExact /\ RedirectExact
    BY DEF OutputInv, OutputExact
  <2>1. ASSUME NEW s \in Streams
        PROVE  outside["host"][s] = content[Terminal(s)]["host"]
                         \o (IF fd[s] = Terminal(s) THEN buffer[s] ELSE <<>>)
    <3>1. outside["host"][s] = HostOutput(content, buffer, fd, s, Terminal(s))
      BY DEF OutputInv, Placed
    <3>2. content[Terminal(s)]["host"] \in Outputs
      BY FilesApart DEF OutputInv, DescriptorInv, TypeOK, Processes
    <3>3. content[Terminal(s)]["host"] \o <<>> = content[Terminal(s)]["host"]
      BY <3>2, ConcatEmptySeq DEF Outputs
    <3>. QED
      BY <3>1, <3>3 DEF HostOutput
  <2>2. ASSUME NEW s \in Streams, CapturesOf(s) = {}
        PROVE  outside["executor"][s] = content[Redirect(s)]["executor"] \o remote[s]
    BY <2>2, Innermost DEF OutputInv, ExecutorPlaced, ExecutorOutput
  <2>. QED
    BY <2>1, <2>2 DEF TerminalExact, RedirectExact
<1>. QED
  BY <1>1, <1>2, <1>3, PTL DEF Spec
=============================================================================
