----------------------------- MODULE AgentCall -----------------------------
(***************************************************************************)
(* One call of a command line agent (crates/rara-agent): the child process *)
(* that executor.rs spawns, the tasks that read its two output streams,    *)
(* the channel in which their lines meet, and the inactivity timeout with  *)
(* its SIGTERM.                                                            *)
(*                                                                         *)
(* The child is external.  It reads its prompt, writes lines and exits     *)
(* when it likes; a pipe that is full stops its writer, and so does the    *)
(* channel.  A line is its number on its stream.                           *)
(***************************************************************************)
EXTENDS Integers, Sequences, SequencesExt

CONSTANTS
  MaxLines,     \* MaxLines[s]: bound on the lines that a child writes on stream s
  PipeSize,     \* what a pipe holds (64 KiB)
  LineChannelSize,  \* capacity of the channel of lines (256)
  PromptSize,   \* a prompt that goes to stdin, in units of the pipe
  MaxFailures   \* bound: what fails of the calls and of their callers' own work

Streams == {"stdout", "stderr"}

ASSUME AgentAssumption ==
  /\ MaxLines \in [Streams -> Nat] /\ PromptSize \in Nat /\ MaxFailures \in Nat
  /\ PipeSize \in Nat \ {0} /\ LineChannelSize \in Nat \ {0}

VARIABLES
  call,    \* the call in hand: where it stands, its timeout, its outcome
  child,   \* external: the process, and what it has not read of its stdin
  wrote,   \* external: how many lines the child has written on each stream
  pipe,    \* the lines in the pipe of each stream
  reader,  \* the task of each stream
  chan,    \* the channel: <<stream, line>>, line 0 for the end of the stream
  out,     \* accumulated_output and accumulated_stderr
  failures \* history: failures so far

agentVars == <<call, child, wrote, pipe, reader, chan, out, failures>>

NoCall == [at |-> "idle", timeout |-> FALSE, timedOut |-> FALSE, prompt |-> 0,
           done |-> {}, success |-> FALSE]
NoChild == [alive |-> FALSE, ok |-> FALSE, told |-> FALSE, stdin |-> 0]
Each(x) == [s \in Streams |-> x]

AgentInit ==
  /\ call = NoCall /\ child = NoChild
  /\ wrote = Each(0) /\ pipe = Each(<<>>) /\ reader = Each("none")
  /\ chan = <<>> /\ out = Each(<<>>) /\ failures = 0

\* The caller has the result, and all that belonged to the call is dropped.
Dropped ==
  /\ call' = NoCall /\ child' = NoChild
  /\ wrote' = Each(0) /\ pipe' = Each(<<>>) /\ reader' = Each("none")
  /\ chan' = <<>> /\ out' = Each(<<>>)

-----------------------------------------------------------------------------
(***************************************************************************)
(* CliExecutor::execute.                                                   *)
(***************************************************************************)
\* How the prompt of a backend reaches the child: as an argument (the text, or the
\* name of a file that holds a long one), or through its stdin.
PromptsByArg == {"claude", "kiro", "gemini", "codex", "amp", "copilot", "opencode", "pi"}
PromptsByStdin == {"kiro-acp"}
\* Large or small, the prompt is written to a temporary file.
PromptsByFile == {"roo"}

\* A name that is unknown has no backend, and no call is made.
FromName(name) ==
  IF name \in PromptsByArg \cup PromptsByFile THEN {"arg"}
  ELSE IF name \in PromptsByStdin THEN {"stdin"} ELSE {}

\* A custom backend prompts as its configuration says.
Custom == {"arg", "stdin"}

FromAgentConfig(backend) == IF backend = "custom" THEN Custom ELSE FromName(backend)

StdinInput(mode) == IF mode = "stdin" THEN PromptSize ELSE 0

Spawn(backend, timeout) ==
  /\ call.at = "idle"
  /\ \E mode \in FromAgentConfig(backend) :
       call' = [NoCall EXCEPT !.at = "writing", !.timeout = timeout,
                              !.prompt = StdinInput(mode)]
  /\ child' = [NoChild EXCEPT !.alive = TRUE]
  /\ UNCHANGED <<wrote, pipe, reader, chan, out, failures>>

\* The whole prompt is written before anything is read.
WriteStdin ==
  /\ call.at = "writing" /\ call.prompt > 0
  /\ child.alive /\ child.stdin < PipeSize
  /\ call' = [call EXCEPT !.prompt = @ - 1]
  /\ child' = [child EXCEPT !.stdin = @ + 1]
  /\ UNCHANGED <<wrote, pipe, reader, chan, out, failures>>

\* The child closed its stdin: the call fails.
WriteFails ==
  /\ call.at = "writing" /\ call.prompt > 0 /\ ~child.alive
  /\ call' = [call EXCEPT !.at = "returned"]
  /\ UNCHANGED <<child, wrote, pipe, reader, chan, out, failures>>

StartReaders ==
  /\ call.at = "writing" /\ call.prompt = 0
  /\ call' = [call EXCEPT !.at = "reading"]
  /\ reader' = Each("reading")
  /\ UNCHANGED <<child, wrote, pipe, chan, out, failures>>

\* Deviation: the task ends with the process, whatever is left in its pipe.
ReadUntilExit(s) ==
  /\ reader[s] = "reading" /\ Len(chan) < LineChannelSize
  /\ \/ /\ pipe[s] # <<>> /\ child.alive
        /\ chan' = Append(chan, <<s, Head(pipe[s])>>)
        /\ pipe' = [pipe EXCEPT ![s] = Tail(@)] /\ reader' = reader
     \/ /\ ~child.alive
        /\ chan' = Append(chan, <<s, 0>>)
        /\ reader' = [reader EXCEPT ![s] = "ended"] /\ pipe' = pipe
  /\ UNCHANGED <<call, child, wrote, out, failures>>

\* read_stream sends line after line while the channel has room, and the end.
ReadStream(s) ==
  /\ reader[s] = "reading" /\ Len(chan) < LineChannelSize
  /\ \/ /\ pipe[s] # <<>>
        /\ chan' = Append(chan, <<s, Head(pipe[s])>>)
        /\ pipe' = [pipe EXCEPT ![s] = Tail(@)] /\ reader' = reader
     \/ /\ pipe[s] = <<>> /\ ~child.alive
        /\ chan' = Append(chan, <<s, 0>>)
        /\ reader' = [reader EXCEPT ![s] = "ended"] /\ pipe' = pipe
  /\ UNCHANGED <<call, child, wrote, out, failures>>

TakeLine ==
  /\ call.at = "reading" /\ call.done # Streams /\ chan # <<>>
  /\ LET s == Head(chan)[1]  line == Head(chan)[2]
     IN IF line = 0
        THEN call' = [call EXCEPT !.done = @ \cup {s}] /\ out' = out
        ELSE out' = [out EXCEPT ![s] = Append(@, line)] /\ call' = call
  /\ chan' = Tail(chan)
  /\ UNCHANGED <<child, wrote, pipe, reader, failures>>


\* No line for the whole timeout: the child gets SIGTERM and the loop ends.
Timeout ==
  /\ call.at = "reading" /\ call.done # Streams
  /\ call.timeout /\ chan = <<>>
  /\ call' = [call EXCEPT !.at = "joining", !.timedOut = TRUE]
  /\ child' = [child EXCEPT !.told = TRUE]
  /\ UNCHANGED <<wrote, pipe, reader, chan, out, failures>>

BothEnded ==
  /\ call.at = "reading" /\ call.done = Streams
  /\ call' = [call EXCEPT !.at = "joining"]
  /\ UNCHANGED <<child, wrote, pipe, reader, chan, out, failures>>

\* Nothing takes lines from the channel any more while the tasks are awaited.
JoinAndWait ==
  /\ call.at = "joining"
  /\ reader = Each("ended") /\ ~child.alive
  /\ call' = [call EXCEPT !.at = "returned", !.success = child.ok /\ ~call.timedOut]
  /\ UNCHANGED <<child, wrote, pipe, reader, chan, out, failures>>

-----------------------------------------------------------------------------
(***************************************************************************)
(* The child.                                                              *)
(***************************************************************************)
ChildReads ==
  /\ child.alive /\ child.stdin > 0
  /\ child' = [child EXCEPT !.stdin = @ - 1]
  /\ UNCHANGED <<call, wrote, pipe, reader, chan, out, failures>>

ChildWrites(s) ==
  /\ child.alive /\ wrote[s] < MaxLines[s] /\ Len(pipe[s]) < PipeSize
  /\ wrote' = [wrote EXCEPT ![s] = @ + 1]
  /\ pipe' = [pipe EXCEPT ![s] = Append(@, wrote[s] + 1)]
  /\ UNCHANGED <<call, child, reader, chan, out, failures>>

Failing == failures < MaxFailures /\ failures' = failures + 1

\* Between two writes: what is in the pipes stays there.  It is a failure to exit with
\* an error, or before the prompt is read; to exit when told is none.
ChildExits ==
  /\ child.alive
  /\ \E ok \in IF child.told THEN {FALSE} ELSE BOOLEAN :
       /\ child' = [child EXCEPT !.alive = FALSE, !.ok = ok]
       /\ IF child.told \/ (ok /\ call.prompt = 0) THEN failures' = failures ELSE Failing
  /\ UNCHANGED <<call, wrote, pipe, reader, chan, out>>

Executor ==
  \/ WriteStdin \/ WriteFails \/ StartReaders
  \/ TakeLine \/ Timeout \/ BothEnded \/ JoinAndWait

AgentStep ==
  \/ Executor
  \/ \E s \in Streams : ReadStream(s)
  \/ ChildReads \/ ChildExits \/ \E s \in Streams : ChildWrites(s)

\* The steps of the program are taken, and a child that is told to stop does.  Whether
\* it reads its prompt, or ever ends by itself, is left to those who call without a
\* timeout.
AgentFairness ==
  /\ WF_agentVars(WriteStdin \/ WriteFails \/ StartReaders)
  /\ WF_agentVars(TakeLine \/ Timeout \/ BothEnded)
  /\ WF_agentVars(JoinAndWait)
  /\ \A s \in Streams : WF_agentVars(ReadStream(s))
  /\ WF_agentVars(child.told /\ ChildExits)

-----------------------------------------------------------------------------
(***************************************************************************)
(* Properties.                                                             *)
(***************************************************************************)
Numbered(n) == [i \in 1 .. n |-> i]

\* Whoever gets the output of a successful call gets every line that the child
\* wrote on either stream, in order, although the child is gone before its last
\* lines are read; a call that is cut off has the beginning of them.
OutputIsWhole ==
  \A s \in Streams :
    /\ IsPrefix(out[s], Numbered(wrote[s]))
    /\ call.at = "returned" /\ call.success => out[s] = Numbered(wrote[s])

\* executor.rs:69-71: "If `timeout` is provided and the execution produces no
\* stdout/stderr activity for longer than that duration, the process is terminated and
\* the result indicates timeout."  So a call with a timeout comes back.
Timed == call.at # "idle" /\ call.timeout

TimedCallReturns == Timed ~> call.at = "returned"

\* A prompt is still to be written, and its pipe is full (executor.rs:86); a task
\* still has to send a line or the end of its stream, and nobody takes lines from a
\* channel that is full (executor.rs:215).
PromptUnread == call.at = "writing" /\ child.alive /\ child.stdin = PipeSize

LinesUndrained == /\ call.at = "joining" /\ Len(chan) = LineChannelSize
                  /\ \E s \in Streams : reader[s] = "reading"

Hangs == []PromptUnread \/ []LinesUndrained

=============================================================================
