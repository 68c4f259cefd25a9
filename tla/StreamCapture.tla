---------------------------- MODULE StreamCapture ----------------------------
(***************************************************************************)
(* Capturing the standard streams: BeginStdStreamCapture points a standard *)
(* descriptor at a temporary file and pushes a StreamCaptureInfo;          *)
(* EndStdStreamCapture pops it, points the descriptor back and returns     *)
(* what the file holds.  Output goes through the C library's buffers, so   *)
(* what a descriptor points at when a message is printed and when it is    *)
(* written differ.                                                         *)
(*                                                                         *)
(* Out of process, the code that runs is in another process whose output   *)
(* always goes to one redirection file per stream, owned by the            *)
(* interpreter, through the buffers of a C library of its own, which       *)
(* nothing here flushes: the captures of a stream share that file, and a   *)
(* message is in it only when the executor has written it.                 *)
(***************************************************************************)
EXTENDS Integers, Sequences, SequencesExt, FiniteSetsExt

CONSTANTS
    Streams,      \* the standard streams that are captured
    Buffered,     \* those the C library buffers
    Modes,        \* whether interpreters run code in another process
    TmpFileFails, \* tmpfile() may fail
    Renesting,    \* clients capture a stream twice out of process
    MaxDepth,     \* bound on the captures that are open
    MaxMessages   \* bound on the messages printed

ASSUME CaptureAssumption ==
    /\ Buffered \subseteq Streams
    /\ {TmpFileFails, Renesting} \cup Modes \subseteq BOOLEAN
    /\ {MaxDepth, MaxMessages} \subseteq Nat

VARIABLES
    outOfProcess, \* of the interpreter, fixed when it is created
    fd,       \* the file a standard descriptor refers to
    content,  \* what each process wrote to a file, in order
    buffer,   \* what the C library of this process has not written yet
    remote,   \* what the C library of the executor has not written yet
    read,     \* the longest text read from the redirection file of a stream
    stack,    \* GetRedirectionStack()
    printed,  \* the number of messages printed
    aborted,  \* an assertion of GetCapturedString failed
    expected, \* history: what each process printed to each open capture
    outside,  \* history: what each process printed to a stream nobody captured;
              \* of the executor, since the last capture of that stream
    last      \* history: the last string returned, and what it should be

vars == <<outOfProcess, fd, content, buffer, remote, read, stack, printed, aborted,
          expected, outside, last>>

-----------------------------------------------------------------------------
(* A stream starts out on the terminal; tmpfile() makes a file for a       *)
(* capture; the redirection file of a stream lives as long as its          *)
(* interpreter.                                                            *)
Terminal(s) == <<"terminal", s>>
Temp(k) == <<"temp", k>>
Redirect(s) == <<"redirect", s>>

Files == {Terminal(s) : s \in Streams} \cup {Temp(k) : k \in 1 .. MaxDepth}
            \cup {Redirect(s) : s \in Streams}

(* A closed descriptor, and a FILE pointer that is null.                   *)
Closed == <<"none", 0>>

Captures == [m_FD : Streams, m_TempFile : Files \cup {Closed},
             m_OwnsFile : BOOLEAN, m_DupFD : Files \cup {Closed}]

(* The processes that print.  Their outputs are not ordered among each     *)
(* other: of a file, what each of them wrote to it is told apart.          *)
Processes == {"host", "executor"}

Empty == [p \in Processes |-> <<>>]

(* A message is the number of messages printed before it.                  *)
Outputs == Seq(0 .. MaxMessages)

(* fflush of the streams in S: what is buffered reaches the file the       *)
(* descriptor refers to, after what c says that file holds.                *)
Flushed(S, c) ==
    [f \in Files |-> [p \in Processes |->
        IF p = "host" /\ \E s \in S : fd[s] = f
        THEN c[f][p] \o buffer[CHOOSE s \in S : fd[s] = f] ELSE c[f][p]]]

Drained(S) == [s \in Streams |-> IF s \in S THEN <<>> ELSE buffer[s]]

(* The open capture of a stream a message belongs to: the innermost one.   *)
CapturesOf(s) == {k \in DOMAIN stack : stack[k].m_FD = s /\ stack[k].m_DupFD # Closed}

Record(p, s) ==
    IF CapturesOf(s) # {}
    THEN /\ expected' = [expected EXCEPT ![Max(CapturesOf(s))][p] = Append(@, printed)]
         /\ UNCHANGED outside
    ELSE /\ outside' = [outside EXCEPT ![p][s] = Append(@, printed)]
         /\ UNCHANGED expected

(* How many messages a text holds, and the texts of n messages that t      *)
(* begins with, in whatever order the two processes wrote it.              *)
Size(t) == Len(t["host"]) + Len(t["executor"])

Beginnings(t, n) ==
    {r \in {[host |-> h, executor |-> e] : h \in Prefixes(t["host"]),
                                          e \in Prefixes(t["executor"])} : Size(r) = n}

(* A redirection file is emptied through its descriptor, and read through  *)
(* its FILE, whose buffer keeps what was read: a shorter text than one     *)
(* read before is answered from that buffer.  (A longer one is beyond it,  *)
(* and read from the file.)                                                *)
ReadAgain(sci, text) == ~sci.m_OwnsFile /\ Size(text) \in 1 .. Size(read[sci.m_FD]) - 1

Answers(sci, text) ==
    IF ReadAgain(sci, text) THEN {text} \cup Beginnings(read[sci.m_FD], Size(text)) ELSE {text}

-----------------------------------------------------------------------------
Init ==
    /\ outOfProcess \in Modes
    /\ fd = [s \in Streams |-> Terminal(s)]
    /\ content = [f \in Files |-> Empty]
    /\ buffer = [s \in Streams |-> <<>>]
    /\ remote = [s \in Streams |-> <<>>]
    /\ read = [s \in Streams |-> Empty]
    /\ stack = <<>>
    /\ printed = 0
    /\ aborted = FALSE
    /\ expected = <<>>
    /\ outside = [p \in Processes |-> [s \in Streams |-> <<>>]]
    /\ last = [result |-> Empty, expected |-> Empty, left |-> <<>>, again |-> FALSE]

(* This process prints to a stream.                                        *)
HostPrints(s) ==
    /\ printed < MaxMessages
    /\ printed' = printed + 1
    /\ IF s \in Buffered
       THEN buffer' = [buffer EXCEPT ![s] = Append(@, printed)] /\ UNCHANGED content
       ELSE content' = [content EXCEPT ![fd[s]]["host"] = Append(@, printed)] /\ UNCHANGED buffer
    /\ Record("host", s)
    /\ UNCHANGED <<fd, remote, read, stack, aborted, last>>

(* The executor process prints: its descriptors refer to the redirection   *)
(* files.  CustomizeFork asks for unbuffered streams, but of FILEs it      *)
(* makes before the executor's program is started; that program has its    *)
(* own, and buffers them as any C program does.                            *)
ExecutorPrints(s) ==
    /\ outOfProcess
    /\ printed < MaxMessages
    /\ printed' = printed + 1
    /\ IF s \in Buffered
       THEN remote' = [remote EXCEPT ![s] = Append(@, printed)] /\ UNCHANGED content
       ELSE content' = [content EXCEPT ![Redirect(s)]["executor"] = Append(@, printed)] /\ UNCHANGED remote
    /\ Record("executor", s)
    /\ UNCHANGED <<fd, buffer, read, stack, aborted, last>>

(* The executor's C library writes its buffer out: it is full, or the code *)
(* that runs there calls fflush.                                           *)
ExecutorFlush(s) ==
    /\ remote[s] # <<>>
    /\ content' = [content EXCEPT ![Redirect(s)]["executor"] = @ \o remote[s]]
    /\ remote' = [remote EXCEPT ![s] = <<>>]
    /\ UNCHANGED <<fd, buffer, read, stack, printed, aborted, expected, outside, last>>

(* The C library writes a full buffer out.                                 *)
Flush(s) ==
    /\ buffer[s] # <<>>
    /\ content' = Flushed({s}, content)
    /\ buffer' = Drained({s})
    /\ UNCHANGED <<fd, remote, read, stack, printed, aborted, expected, outside, last>>

(* The file a new capture writes to, emptied: its own, or the stream's     *)
(* redirection file.                                                       *)
CaptureFile(s) == IF outOfProcess THEN Redirect(s) ELSE Temp(Len(stack) + 1)

\* A faulty constructor that does not flush.
FlushedAtBeginNone(s) == {}

(* The constructor flushes the stream before it switches the descriptor.   *)
FlushedAtBegin(s) == {s}

(* Out of process it discards what the executor wrote to the file while    *)
(* nobody captured the stream; what the executor has not written yet will  *)
(* arrive in this capture.                                                 *)
BeginStdStreamCapture(s) ==
    /\ Len(stack) < MaxDepth
    /\ Renesting \/ ~outOfProcess \/ CapturesOf(s) = {}
    /\ stack' = Append(stack, [m_FD |-> s,
                               m_TempFile |-> CaptureFile(s),
                               m_OwnsFile |-> ~outOfProcess,
                               m_DupFD |-> fd[s]])
    /\ content' = Flushed(FlushedAtBegin(s), [content EXCEPT ![CaptureFile(s)] = Empty])
    /\ buffer' = Drained(FlushedAtBegin(s))
    /\ fd' = [fd EXCEPT ![s] = CaptureFile(s)]
    /\ expected' = Append(expected, [Empty EXCEPT !["executor"] = remote[s]])
    /\ outside' = [outside EXCEPT !["executor"][s] = <<>>]
    /\ UNCHANGED <<remote, read, printed, aborted, last>>

(* tmpfile() fails: the constructor returns with nothing redirected, and   *)
(* the capture is on the stack all the same.                               *)
BeginWithoutFile(s) ==
    /\ TmpFileFails
    /\ ~outOfProcess
    /\ Len(stack) < MaxDepth
    /\ stack' = Append(stack, [m_FD |-> s, m_TempFile |-> Closed,
                               m_OwnsFile |-> TRUE, m_DupFD |-> Closed])
    /\ expected' = Append(expected, Empty)
    /\ UNCHANGED <<fd, content, buffer, remote, read, printed, aborted, outside, last>>

(* GetCapturedString flushes every stream before it restores one.          *)
FlushedAtEnd == Streams

\* A faulty end that always restores the terminal.
RestoredFDTerminal(sci) == Terminal(sci.m_FD)

(* The descriptor the stream is pointed back at: the duplicate made when   *)
(* the capture began, still open.                                          *)
RestoredFD(sci) == sci.m_DupFD

(* EndStdStreamCapture: flush, point the descriptor back, read the file    *)
(* from start to end, empty it if it is shared, close and pop.  What the   *)
(* executor has not written is left, and will be outside any capture.      *)
EndStdStreamCapture ==
    /\ stack # <<>>
    /\ LET sci == Last(stack)
           written == Flushed(FlushedAtEnd, content)
           text == written[sci.m_TempFile]
       IN  IF sci.m_DupFD = Closed
           THEN /\ aborted' = TRUE
                /\ UNCHANGED <<fd, content, buffer, read, stack, expected, outside, last>>
           ELSE /\ fd' = [fd EXCEPT ![sci.m_FD] = RestoredFD(sci)]
                /\ \E result \in Answers(sci, text) :
                      last' = [result |-> result, expected |-> Last(expected),
                               left |-> remote[sci.m_FD], again |-> ReadAgain(sci, text)]
                /\ read' = IF ~sci.m_OwnsFile /\ Size(text) >= Size(read[sci.m_FD])
                           THEN [read EXCEPT ![sci.m_FD] = text] ELSE read
                /\ content' = [written EXCEPT ![sci.m_TempFile] = Empty]
                /\ buffer' = Drained(FlushedAtEnd)
                /\ stack' = Front(stack)
                /\ expected' = Front(expected)
                /\ outside' = [outside EXCEPT !["executor"][sci.m_FD] = remote[sci.m_FD]]
                /\ UNCHANGED aborted
    /\ UNCHANGED <<remote, printed>>

Next ==
    /\ ~aborted
    /\ UNCHANGED outOfProcess
    /\ \/ \E s \in Streams : HostPrints(s)
       \/ \E s \in Streams : ExecutorPrints(s)
       \/ \E s \in Streams : ExecutorFlush(s)
       \/ \E s \in Streams : Flush(s)
       \/ \E s \in Streams : BeginStdStreamCapture(s)
       \/ \E s \in Streams : BeginWithoutFile(s)
       \/ EndStdStreamCapture

Spec == Init /\ [][Next]_vars

-----------------------------------------------------------------------------
(* Every variable has its type; no standard descriptor is ever left on a   *)
(* closed duplicate.                                                       *)
TypeOK ==
    /\ outOfProcess \in BOOLEAN /\ aborted \in BOOLEAN
    /\ fd \in [Streams -> Files]
    /\ content \in [Files -> [Processes -> Outputs]]
    /\ buffer \in [Streams -> Outputs] /\ remote \in [Streams -> Outputs]
    /\ read \in [Streams -> [Processes -> Outputs]]
    /\ outside \in [Processes -> [Streams -> Outputs]]
    /\ printed \in 0 .. MaxMessages
    /\ stack \in Seq(Captures) /\ Len(stack) <= MaxDepth
    /\ expected \in Seq([Processes -> Outputs]) /\ Len(expected) = Len(stack)

(* The descriptors the open captures saved chain back to the terminal, in  *)
(* any mix of streams: after its last EndStdStreamCapture a stream is      *)
(* where it was before its first BeginStdStreamCapture.                    *)
DescriptorsRestored ==
    \A s \in Streams :
        LET open == CapturesOf(s) IN
        IF open = {} THEN fd[s] = Terminal(s)
        ELSE /\ fd[s] = stack[Max(open)].m_TempFile
             /\ stack[Min(open)].m_DupFD = Terminal(s)

\* The descriptors: each refers to the file it had before the captures that
\* have ended, and never to a closed duplicate (EndStdStreamCapture).
DescriptorsSafe == TypeOK /\ DescriptorsRestored

(* What EndStdStreamCapture returns: of this process, what was printed to  *)
(* the stream while that capture was its innermost one, in order, nothing  *)
(* buffered before the capture, nothing of another capture, nothing lost.  *)
(* Of the executor, that too, except that what it had not written when the *)
(* capture began is in it, and what it has not written when it ends is     *)
(* left.                                                                   *)
CaptureIsOwn ==
    /\ last.result["host"] = last.expected["host"]
    /\ last.result["executor"] \o last.left = last.expected["executor"]

(* It does, unless a longer text was read from the same redirection file   *)
(* before.                                                                 *)
CaptureExact == ~last.again => CaptureIsOwn

(* What this process prints to a stream nobody captures reaches the        *)
(* terminal, in order and complete, whatever captures are opened and       *)
(* closed around it.                                                       *)
TerminalExact ==
    \A s \in Streams :
        outside["host"][s] = content[Terminal(s)]["host"]
                                \o (IF fd[s] = Terminal(s) THEN buffer[s] ELSE <<>>)

(* What the executor prints to a stream nobody captures is kept, in order, *)
(* in the redirection file or on its way there, since the last capture of  *)
(* that stream ended: it reaches no terminal, and the next capture         *)
(* discards what the file holds of it.                                     *)
RedirectExact ==
    \A s \in Streams :
        CapturesOf(s) = {} =>
            outside["executor"][s] = content[Redirect(s)]["executor"] \o remote[s]

\* The output: what this process prints goes to the innermost capture of its
\* stream, or to the terminal if there is none, complete and in order, though the
\* C library buffers it (BeginStdStreamCapture and EndStdStreamCapture flush); what
\* the executor prints goes to the capture during which it is written, or stays in
\* the redirection file if there is none.
OutputExact == CaptureExact /\ TerminalExact /\ RedirectExact

(* EndStdStreamCapture is never reached with a capture that redirects      *)
(* nothing (the assertion in GetCapturedString).                           *)
CaptureHasFile == ~aborted
=============================================================================
