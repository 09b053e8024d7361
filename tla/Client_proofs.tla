--------------------------- MODULE Client_proofs ----------------------------
(***************************************************************************)
(* Theorems on the programs around the daemon: the call of an agent's command *)
(* line, the console, and the commands that share the files of one machine. *)
(*                                                                         *)
(* The agent call: a line is written, read into the channel and taken.  Each *)
(* line between two of the places is at exactly one of them, in order, and *)
(* the end of a stream comes after its last line (CallInv), so the output is *)
(* whole when both ends are taken.                                         *)
(*                                                                         *)
(* The console: the number of an event is listed, in the channel, on the   *)
(* wire, with a receiver or untold, and at one of these places only, as no *)
(* two tasks are alive at a time (ConsoleInv).                             *)
(*                                                                         *)
(* The commands: what a shell has loaded agrees with the file unless it is *)
(* stale, what a command knows holds as long as it runs alone, and a fetch *)
(* that is under way explains what its directory lacks (FilesInv).         *)
(***************************************************************************)
EXTENDS Workstation, Console, Sentinel, SequenceTheorems, WellFoundedInduction, TLAPS

(* The agent call. *)

\* Where the lines of a stream are.  A line is its number, so what was taken of
\* stream s is 1 .. Len(out[s]), what is in the pipe comes last, and the channel
\* holds what is between the two.
Calls ==
  [at : {"idle", "writing", "reading", "joining", "returned"}, timeout : {FALSE, IdleTimeout},
   timedOut : BOOLEAN, prompt : Nat, done : SUBSET Streams, success : BOOLEAN]
Children == [alive : BOOLEAN, ok : BOOLEAN, told : BOOLEAN, stdin : Nat]

CallTypeOK ==
  /\ call \in Calls /\ child \in Children
  /\ wrote \in [Streams -> Nat] /\ pipe \in [Streams -> Seq(Nat)]
  /\ reader \in [Streams -> {"none", "reading", "ended"}]
  /\ chan \in Seq(Streams \X Nat) /\ out \in [Streams -> Seq(Nat)]

Piped(s) ==
  /\ Len(pipe[s]) <= wrote[s]
  /\ \A i \in 1 .. Len(pipe[s]) : pipe[s][i] = wrote[s] - Len(pipe[s]) + i

Taken(s) ==
  /\ Len(out[s]) <= wrote[s] - Len(pipe[s])
  /\ \A i \in 1 .. Len(out[s]) : out[s][i] = i

\* Each line between the two is in the channel, and nothing else of the stream.
Carried(s) ==
  /\ \A m \in Len(out[s]) + 1 .. wrote[s] - Len(pipe[s]) :
       \E i \in 1 .. Len(chan) : chan[i] = <<s, m>>
  /\ \A i \in 1 .. Len(chan) : chan[i][1] = s /\ chan[i][2] # 0 =>
       /\ Len(out[s]) < chan[i][2] /\ chan[i][2] <= wrote[s] - Len(pipe[s])

\* In the order in which they were written, and the end behind them.
InOrder(s) ==
  \A i, j \in 1 .. Len(chan) : i < j /\ chan[i][1] = s /\ chan[j][1] = s =>
    /\ chan[i][2] # 0
    /\ chan[j][2] = 0 \/ chan[i][2] < chan[j][2]

\* A stream ends once: after its child, and after all that was in its pipe.
EndsOnce(s) ==
  /\ reader[s] = "ended" => ~child.alive /\ pipe[s] = <<>>
  /\ \A i \in 1 .. Len(chan) : chan[i] = <<s, 0>> => reader[s] = "ended"
  /\ s \in call.done =>
       reader[s] = "ended" /\ \A i \in 1 .. Len(chan) : chan[i][1] # s

\* A call succeeds after both ends; one that is cut off was timed out.
Finished ==
  /\ call.at \in {"idle", "writing"} => reader = Each("none") /\ call.done = {}
  /\ call.at = "joining" => call.done = Streams \/ call.timedOut
  /\ call.success => call.at = "returned" /\ call.done = Streams

LinesOf(s) == Piped(s) /\ Taken(s) /\ Carried(s) /\ InOrder(s) /\ EndsOnce(s)

CallInv == CallTypeOK /\ (\A s \in Streams : LinesOf(s)) /\ Finished

LEMMA CallInit == AgentInit => CallInv
BY AgentAssumption
   DEF AgentInit, CallInv, CallTypeOK, Calls, Children, LinesOf, Piped, Taken, Carried, InOrder, EndsOnce,
       Finished, NoCall, NoChild, Each, Streams

\* Steps that leave the streams alone.
LEMMA SameLines ==
  ASSUME CallInv, UNCHANGED <<wrote, pipe, reader, chan, out>>, child'.alive => child.alive,
         call'.done = call.done
  PROVE  \A s \in Streams : LinesOf(s)'
<1>. SUFFICES ASSUME NEW s \in Streams PROVE LinesOf(s)'
  OBVIOUS
<1>. LinesOf(s)
  BY DEF CallInv
<1>1. Piped(s)'
  BY DEF LinesOf, Piped
<1>2. Taken(s)'
  BY DEF LinesOf, Taken
<1>3. Carried(s)'
  BY DEF LinesOf, Carried
<1>4. InOrder(s)'
  BY DEF LinesOf, InOrder
<1>5. EndsOnce(s)'
  BY DEF LinesOf, EndsOnce
<1>. QED BY <1>1, <1>2, <1>3, <1>4, <1>5 DEF LinesOf

LEMMA SpawnKeeps ==
  ASSUME CallInv, NEW backend, NEW timeout \in {FALSE, IdleTimeout}, Spawn(backend, timeout)
  PROVE  CallInv'
<1>1. /\ call.at = "idle" /\ call.done = {} /\ reader = Each("none")
  BY DEF Spawn, CallInv, Finished
<1>2. PICK way \in FromAgentConfig(backend) :
        call' = [NoCall EXCEPT !.at = "writing", !.timeout = timeout,
                               !.prompt = StdinInput(way)]
  BY DEF Spawn
<1>3. StdinInput(way) \in Nat
  BY AgentAssumption DEF StdinInput
<1>4. CallTypeOK'
  BY <1>2, <1>3 DEF CallInv, CallTypeOK, Calls, Children, Spawn, NoCall, NoChild
<1>5. ASSUME NEW s \in Streams PROVE LinesOf(s)'
  <2>. LinesOf(s) /\ UNCHANGED <<wrote, pipe, reader, chan, out>>
    BY DEF CallInv, Spawn
  <2>1. Piped(s)' /\ Taken(s)' /\ Carried(s)'
    BY DEF LinesOf, Piped, Taken, Carried
  <2>2. InOrder(s)'
    BY DEF LinesOf, InOrder
  <2>3. reader[s] = "none" /\ call'.done = {}
    BY <1>1, <1>2 DEF NoCall, Each
  <2>4. EndsOnce(s)'
    BY <2>3 DEF LinesOf, EndsOnce
  <2>. QED BY <2>1, <2>2, <2>4 DEF LinesOf
<1>6. Finished'
  BY <1>1, <1>2 DEF Spawn, Finished, NoCall
<1>. QED BY <1>4, <1>5, <1>6 DEF CallInv

LEMMA DroppedKeeps == Dropped => CallInv'
BY AgentAssumption
   DEF Dropped, CallInv, CallTypeOK, Calls, Children, LinesOf, Piped, Taken, Carried, InOrder, EndsOnce,
       Finished, NoCall, NoChild, Each, Streams

LEMMA WriteStdinKeeps ==
  ASSUME CallInv, WriteStdin
  PROVE  CallInv'
<1>1. CallTypeOK'
  <2>1. CallTypeOK
    BY DEF CallInv
  <2>2. call' \in Calls
    <3>1. call \in Calls /\ call' = [call EXCEPT !.prompt = @ - 1]
      BY <2>1 DEF CallTypeOK, WriteStdin
    <3>2. call.prompt - 1 \in Nat
      BY <3>1 DEF Calls, WriteStdin
    <3>. QED BY <3>1, <3>2 DEF Calls
  <2>3. child' \in Children
    <3>1. child \in Children /\ child' = [child EXCEPT !.stdin = @ + 1]
      BY <2>1 DEF CallTypeOK, WriteStdin
    <3>2. child.stdin + 1 \in Nat
      BY <3>1 DEF Children
    <3>. QED BY <3>1, <3>2 DEF Children
  <2>. QED BY <2>1, <2>2, <2>3 DEF CallTypeOK, WriteStdin
<1>2. Finished'
  BY DEF CallInv, CallTypeOK, Calls, Children, Finished, WriteStdin
<1>3. \A s \in Streams : LinesOf(s)'
  BY SameLines DEF CallInv, CallTypeOK, Calls, Children, WriteStdin
<1>. QED BY <1>1, <1>2, <1>3 DEF CallInv

LEMMA WriteFailsKeeps ==
  ASSUME CallInv, WriteFails
  PROVE  CallInv'
<1>1. CallTypeOK'
  BY DEF CallInv, CallTypeOK, Calls, Children, WriteFails
<1>2. Finished'
  BY DEF CallInv, CallTypeOK, Calls, Children, Finished, WriteFails
<1>3. \A s \in Streams : LinesOf(s)'
  BY SameLines DEF CallInv, CallTypeOK, Calls, Children, WriteFails
<1>. QED BY <1>1, <1>2, <1>3 DEF CallInv

LEMMA StartReadersKeeps ==
  ASSUME CallInv, StartReaders
  PROVE  CallInv'
<1>1. CallTypeOK'
  BY DEF CallInv, CallTypeOK, Calls, Children, StartReaders, Each
<1>2. Finished'
  BY DEF CallInv, CallTypeOK, Calls, Children, Finished, StartReaders
<1>3. call.done = {} /\ reader = Each("none") /\ call'.done = {}
  BY DEF CallInv, CallTypeOK, Calls, Children, Finished, StartReaders
<1>4. ASSUME NEW s \in Streams PROVE LinesOf(s)'
  <2>. LinesOf(s) /\ UNCHANGED <<child, wrote, pipe, chan, out>>
    BY DEF CallInv, StartReaders
  <2>1. Piped(s)' /\ Taken(s)' /\ Carried(s)'
    BY DEF LinesOf, Piped, Taken, Carried
  <2>2. InOrder(s)'
    BY DEF LinesOf, InOrder
  <2>3. reader[s] = "none" /\ reader'[s] = "reading" /\ call'.done = {}
    BY <1>3 DEF StartReaders, Each
  <2>4. EndsOnce(s)'
    BY <2>3 DEF LinesOf, EndsOnce
  <2>. QED BY <2>1, <2>2, <2>4 DEF LinesOf
<1>. QED BY <1>1, <1>2, <1>4 DEF CallInv

LEMMA TimeoutKeeps ==
  ASSUME CallInv, Timeout
  PROVE  CallInv'
<1>1. CallTypeOK'
  BY DEF CallInv, CallTypeOK, Calls, Children, Timeout
<1>2. Finished'
  BY DEF CallInv, CallTypeOK, Calls, Children, Finished, Timeout
<1>3. \A s \in Streams : LinesOf(s)'
  BY SameLines DEF CallInv, CallTypeOK, Calls, Children, Timeout
<1>. QED BY <1>1, <1>2, <1>3 DEF CallInv

LEMMA BothEndedKeeps ==
  ASSUME CallInv, BothEnded
  PROVE  CallInv'
<1>1. CallTypeOK'
  BY DEF CallInv, CallTypeOK, Calls, Children, BothEnded
<1>2. Finished'
  BY DEF CallInv, CallTypeOK, Calls, Children, Finished, BothEnded
<1>3. \A s \in Streams : LinesOf(s)'
  BY SameLines DEF CallInv, CallTypeOK, Calls, Children, BothEnded
<1>. QED BY <1>1, <1>2, <1>3 DEF CallInv

LEMMA JoinKeeps ==
  ASSUME CallInv, JoinAndWait
  PROVE  CallInv'
<1>1. CallTypeOK'
  BY DEF CallInv, CallTypeOK, Calls, Children, JoinAndWait
<1>2. Finished'
  BY DEF CallInv, CallTypeOK, Calls, Children, Finished, JoinAndWait
<1>3. \A s \in Streams : LinesOf(s)'
  BY SameLines DEF CallInv, CallTypeOK, Calls, Children, JoinAndWait
<1>. QED BY <1>1, <1>2, <1>3 DEF CallInv

LEMMA ChildReadsKeeps ==
  ASSUME CallInv, ChildReads
  PROVE  CallInv'
<1>1. CallTypeOK'
  <2>1. CallTypeOK
    BY DEF CallInv
  <2>2. call' \in Calls
    BY <2>1 DEF CallTypeOK, ChildReads
  <2>3. child' \in Children
    <3>1. child \in Children /\ child' = [child EXCEPT !.stdin = @ - 1]
      BY <2>1 DEF CallTypeOK, ChildReads
    <3>2. child.stdin - 1 \in Nat
      BY <3>1 DEF Children, ChildReads
    <3>. QED BY <3>1, <3>2 DEF Children
  <2>. QED BY <2>1, <2>2, <2>3 DEF CallTypeOK, ChildReads
<1>2. Finished'
  BY DEF CallInv, CallTypeOK, Calls, Children, Finished, ChildReads
<1>3. \A s \in Streams : LinesOf(s)'
  BY SameLines DEF CallInv, CallTypeOK, Calls, Children, ChildReads
<1>. QED BY <1>1, <1>2, <1>3 DEF CallInv

LEMMA ChildExitsKeeps ==
  ASSUME CallInv, ChildExits
  PROVE  CallInv'
<1>1. PICK ok \in BOOLEAN : child' = [child EXCEPT !.alive = FALSE, !.ok = ok]
  BY DEF ChildExits
<1>2. CallTypeOK'
  BY <1>1 DEF CallInv, CallTypeOK, Calls, Children, ChildExits
<1>3. Finished'
  BY DEF CallInv, CallTypeOK, Calls, Children, Finished, ChildExits
<1>4. \A s \in Streams : LinesOf(s)'
  BY <1>1, SameLines DEF CallInv, CallTypeOK, Calls, Children, ChildExits
<1>. QED BY <1>2, <1>3, <1>4 DEF CallInv

LEMMA ChildWritesKeeps ==
  ASSUME CallInv, NEW s \in Streams, ChildWrites(s)
  PROVE  CallInv'
<1>1. /\ child.alive /\ wrote' = [wrote EXCEPT ![s] = @ + 1]
      /\ pipe' = [pipe EXCEPT ![s] = Append(@, wrote[s] + 1)]
      /\ UNCHANGED <<call, child, reader, chan, out>>
  BY DEF ChildWrites
<1>2. /\ wrote \in [Streams -> Nat] /\ pipe \in [Streams -> Seq(Nat)]
      /\ pipe[s] \in Seq(Nat) /\ wrote[s] \in Nat
  BY DEF CallInv, CallTypeOK, Calls, Children
<1>3. /\ wrote'[s] = wrote[s] + 1 /\ pipe'[s] = Append(pipe[s], wrote[s] + 1)
      /\ \A r \in Streams \ {s} : wrote'[r] = wrote[r] /\ pipe'[r] = pipe[r]
  BY <1>1, <1>2
<1>4. Len(pipe'[s]) = Len(pipe[s]) + 1 /\ pipe'[s] \in Seq(Nat)
  BY <1>2, <1>3
<1>5. CallTypeOK'
  <2>1. wrote' \in [Streams -> Nat]
    BY <1>1, <1>2
  <2>2. pipe' \in [Streams -> Seq(Nat)]
    BY <1>1, <1>2
  <2>. QED BY <1>1, <2>1, <2>2 DEF CallInv, CallTypeOK
<1>6. Finished'
  BY <1>1 DEF CallInv, Finished
<1>7. ASSUME NEW r \in Streams \ {s} PROVE LinesOf(r)'
  <2>. LinesOf(r) /\ wrote'[r] = wrote[r] /\ pipe'[r] = pipe[r]
    BY <1>3 DEF CallInv
  <2>1. Piped(r)' /\ Taken(r)' /\ Carried(r)'
    BY <1>1 DEF LinesOf, Piped, Taken, Carried
  <2>2. InOrder(r)' /\ EndsOnce(r)'
    BY <1>1 DEF LinesOf, InOrder, EndsOnce
  <2>. QED BY <2>1, <2>2 DEF LinesOf
<1>8. LinesOf(s)'
  <2>. LinesOf(s)
    BY DEF CallInv
  <2>1. Piped(s)'
    <3>. PICK l : l = pipe[s]
      OBVIOUS
    <3>1. l \in Seq(Nat) /\ pipe'[s] = Append(l, wrote[s] + 1)
      BY <1>2, <1>3
    <3>2. /\ Len(l) <= wrote[s]
          /\ \A i \in 1 .. Len(l) : l[i] = wrote[s] - Len(l) + i
      BY DEF LinesOf, Piped
    <3>3. \A i \in 1 .. Len(l) + 1 :
            Append(l, wrote[s] + 1)[i] = wrote[s] - Len(l) + i
      <4>. SUFFICES ASSUME NEW i \in 1 .. Len(l) + 1
                    PROVE  Append(l, wrote[s] + 1)[i] = wrote[s] - Len(l) + i
        OBVIOUS
      <4>0. Len(l) \in Nat
        BY <3>1
      <4>1. CASE i \in 1 .. Len(l)
        <5>1. Append(l, wrote[s] + 1)[i] = l[i]
          BY <4>1, <3>1
        <5>. QED BY <5>1, <4>1, <3>2
      <4>2. CASE i = Len(l) + 1
        <5>1. Append(l, wrote[s] + 1)[i] = wrote[s] + 1
          BY <4>2, <3>1, <1>2
        <5>. QED BY <5>1, <4>2, <4>0, <1>2
      <4>. QED BY <4>0, <4>1, <4>2
    <3>4. wrote'[s] - Len(pipe'[s]) = wrote[s] - Len(l)
      BY <1>2, <1>3, <1>4
    <3>. QED BY <1>2, <1>3, <1>4, <3>1, <3>2, <3>3, <3>4 DEF Piped
  <2>2. wrote'[s] - Len(pipe'[s]) = wrote[s] - Len(pipe[s])
    BY <1>2, <1>3, <1>4
  <2>3. Taken(s)' /\ Carried(s)' /\ InOrder(s)'
    BY <1>1, <2>2 DEF LinesOf, Taken, Carried, InOrder
  <2>4. EndsOnce(s)'
    BY <1>1 DEF LinesOf, EndsOnce
  <2>. QED BY <2>1, <2>3, <2>4 DEF LinesOf
<1>. QED BY <1>5, <1>6, <1>7, <1>8 DEF CallInv

\* What Append does to the channel, position by position.
LEMMA Sent ==
  ASSUME NEW s \in Streams, NEW l \in Nat, CallTypeOK, chan' = Append(chan, <<s, l>>)
  PROVE  /\ chan' \in Seq(Streams \X Nat) /\ Len(chan') = Len(chan) + 1
         /\ chan'[Len(chan) + 1] = <<s, l>>
         /\ \A i \in 1 .. Len(chan) : chan'[i] = chan[i]
BY DEF CallTypeOK

\* What is sent of one stream is nothing to the other.
LEMMA OtherStream ==
  ASSUME CallTypeOK, NEW s \in Streams, NEW r \in Streams, r # s, LinesOf(r), NEW l,
         Len(chan') = Len(chan) + 1, chan'[Len(chan) + 1] = <<s, l>>,
         \A i \in 1 .. Len(chan) : chan'[i] = chan[i],
         wrote'[r] = wrote[r], pipe'[r] = pipe[r], reader'[r] = reader[r], out'[r] = out[r],
         UNCHANGED <<call, child>>
  PROVE  Carried(r)' /\ InOrder(r)' /\ EndsOnce(r)'
<1>1. Len(chan) \in Nat
  BY DEF CallTypeOK
<1>2. \A i \in 1 .. Len(chan') : chan'[i][1] = r => i \in 1 .. Len(chan) /\ chan'[i] = chan[i]
  <2>. SUFFICES ASSUME NEW i \in 1 .. Len(chan'), chan'[i][1] = r
                PROVE  i \in 1 .. Len(chan) /\ chan'[i] = chan[i]
    OBVIOUS
  <2>1. i # Len(chan) + 1
    OBVIOUS
  <2>. QED BY <1>1, <2>1
<1>3. \A i \in 1 .. Len(chan) : i \in 1 .. Len(chan')
  BY <1>1
<1>4. Carried(r)'
  <2>1. \A m \in Len(out'[r]) + 1 .. wrote'[r] - Len(pipe'[r]) :
          \E i \in 1 .. Len(chan') : chan'[i] = <<r, m>>
    <3>. SUFFICES ASSUME NEW m \in Len(out[r]) + 1 .. wrote[r] - Len(pipe[r])
                  PROVE  \E i \in 1 .. Len(chan') : chan'[i] = <<r, m>>
      OBVIOUS
    <3>1. PICK i \in 1 .. Len(chan) : chan[i] = <<r, m>>
      BY DEF LinesOf, Carried
    <3>. QED BY <3>1, <1>3
  <2>2. \A i \in 1 .. Len(chan') : chan'[i][1] = r /\ chan'[i][2] # 0 =>
          Len(out'[r]) < chan'[i][2] /\ chan'[i][2] <= wrote'[r] - Len(pipe'[r])
    BY <1>2 DEF LinesOf, Carried
  <2>. QED BY <2>1, <2>2 DEF Carried
<1>5. InOrder(r)'
  BY <1>2 DEF LinesOf, InOrder
<1>6. EndsOnce(r)'
  <2>1. \A i \in 1 .. Len(chan') : chan'[i] = <<r, 0>> => reader'[r] = "ended"
    BY <1>2 DEF LinesOf, EndsOnce
  <2>2. r \in call'.done => \A i \in 1 .. Len(chan') : chan'[i][1] # r
    BY <1>2 DEF LinesOf, EndsOnce
  <2>. QED BY <2>1, <2>2 DEF LinesOf, EndsOnce
<1>. QED BY <1>4, <1>5, <1>6

LEMMA OneFurther ==
  ASSUME NEW w \in Int, NEW n \in Int, NEW i \in Int
  PROVE  w - n + (i + 1) = w - (n - 1) + i
OBVIOUS

LEMMA TailNumbered ==
  ASSUME NEW w \in Int, NEW p \in Seq(Nat), p # <<>>, \A i \in 1 .. Len(p) : p[i] = w - Len(p) + i
  PROVE  \A i \in 1 .. Len(p) - 1 : Tail(p)[i] = w - (Len(p) - 1) + i
<1>1. PICK n, q : n = Len(p) /\ q = Tail(p)
  OBVIOUS
<1>2. n \in Int /\ \A i \in 1 .. n - 1 : q[i] = p[i + 1]
  BY <1>1
<1>3. \A i \in 1 .. n : p[i] = w - n + i
  BY <1>1
<1>4. ASSUME NEW i \in 1 .. n - 1 PROVE q[i] = w - (n - 1) + i
  <2>1. i \in Int /\ i + 1 \in 1 .. n
    BY <1>2
  <2>2. q[i] = w - n + (i + 1)
    BY <1>2, <1>3, <2>1
  <2>. QED BY <1>2, <2>1, <2>2, OneFurther
<1>. QED BY <1>1, <1>4, Zenon

LEMMA ReadLineKeeps ==
  ASSUME CallInv, NEW s \in Streams, reader[s] = "reading", pipe[s] # <<>>,
         chan' = Append(chan, <<s, Head(pipe[s])>>),
         pipe' = [pipe EXCEPT ![s] = Tail(@)], reader' = reader,
         UNCHANGED <<call, child, wrote, out>>
  PROVE  CallInv'
<1>1. /\ pipe[s] \in Seq(Nat) /\ Len(pipe[s]) > 0 /\ wrote[s] \in Nat
      /\ Head(pipe[s]) = pipe[s][1] /\ CallTypeOK /\ Head(pipe[s]) \in Nat
  <2>. PICK p : p = pipe[s]
    OBVIOUS
  <2>1. p \in Seq(Nat) /\ p # <<>> /\ wrote[s] \in Nat /\ CallTypeOK
    BY DEF CallInv, CallTypeOK
  <2>2. Len(p) > 0 /\ Head(p) = p[1] /\ p[1] \in Nat
    BY <2>1
  <2>. QED BY <2>1, <2>2
<1>2. /\ Tail(pipe[s]) \in Seq(Nat) /\ Len(Tail(pipe[s])) = Len(pipe[s]) - 1
      /\ \A i \in 1 .. Len(pipe[s]) - 1 : Tail(pipe[s])[i] = pipe[s][i + 1]
  BY <1>1
<1>3. pipe'[s] = Tail(pipe[s]) /\ \A r \in Streams \ {s} : pipe'[r] = pipe[r]
  BY <1>1 DEF CallTypeOK
<1>. DEFINE l == Head(pipe[s])
<1>4. l \in Nat /\ l = wrote[s] - Len(pipe[s]) + 1 /\ l # 0 /\ Len(pipe[s]) <= wrote[s]
  BY <1>1 DEF CallInv, LinesOf, Piped
<1>5. /\ chan' \in Seq(Streams \X Nat) /\ Len(chan') = Len(chan) + 1
      /\ chan'[Len(chan) + 1] = <<s, l>>
      /\ \A i \in 1 .. Len(chan) : chan'[i] = chan[i]
  BY <1>1, Sent
<1>5a. Len(chan) \in Nat
  BY DEF CallInv, CallTypeOK, Calls, Children
<1>. HIDE DEF l
<1>6. CallTypeOK'
  <2>1. pipe' \in [Streams -> Seq(Nat)]
    BY <1>1, <1>2 DEF CallTypeOK
  <2>. QED BY <1>1, <1>5, <2>1 DEF CallTypeOK
<1>7. Finished'
  BY DEF CallInv, Finished
<1>8. ASSUME NEW r \in Streams, r # s PROVE LinesOf(r)'
  <2>. LinesOf(r) /\ pipe'[r] = pipe[r]
    BY <1>3, <1>8 DEF CallInv
  <2>1. Piped(r)' /\ Taken(r)'
    BY DEF LinesOf, Piped, Taken
  <2>2. Carried(r)' /\ InOrder(r)' /\ EndsOnce(r)'
    BY <1>1, <1>5, <1>8, OtherStream
  <2>. QED BY <2>1, <2>2 DEF LinesOf
<1>9. LinesOf(s)'
  <2>. LinesOf(s)
    BY DEF CallInv
  <2>0. /\ wrote'[s] - Len(pipe'[s]) = l
        /\ wrote[s] - Len(pipe[s]) = l - 1
        /\ Len(out[s]) \in Nat /\ Len(out[s]) <= l - 1
    BY <1>1, <1>2, <1>3, <1>4 DEF CallTypeOK, LinesOf, Taken
  <2>1. Piped(s)'
    <3>. PICK p, w : p = pipe[s] /\ w = wrote[s]
      OBVIOUS
    <3>0. w \in Nat
      BY <1>1
    <3>1. p \in Seq(Nat) /\ Len(p) \in Nat \ {0} /\ pipe'[s] = Tail(p) /\ Len(Tail(p)) = Len(p) - 1
      BY <1>1, <1>2, <1>3
    <3>2. Len(p) <= w /\ \A i \in 1 .. Len(p) : p[i] = w - Len(p) + i
      BY DEF LinesOf, Piped
    <3>3. \A i \in 1 .. Len(p) - 1 : Tail(p)[i] = w - (Len(p) - 1) + i
      <4>1. p \in Seq(Nat) /\ p # <<>> /\ w \in Int
        BY <3>0, <3>1
      <4>. QED BY <3>2, <4>1, TailNumbered, Zenon
    <3>4. Len(pipe'[s]) = Len(p) - 1 /\ wrote'[s] = w
      BY <3>1
    <3>5. Len(p) - 1 <= w
      BY <3>0, <3>1, <3>2
    <3>. QED BY <3>3, <3>4, <3>5 DEF Piped
  <2>2. Taken(s)'
    BY <2>0, <1>4 DEF LinesOf, Taken
  <2>3. Carried(s)'
    <3>1. ASSUME NEW m \in Len(out[s]) + 1 .. l PROVE \E i \in 1 .. Len(chan') : chan'[i] = <<s, m>>
      <4>1. CASE m = l
        <5>1. Len(chan) + 1 \in 1 .. Len(chan')
          BY <1>5, <1>5a
        <5>. QED BY <4>1, <5>1, <1>5
      <4>2. CASE m # l
        <5>1. m \in Len(out[s]) + 1 .. wrote[s] - Len(pipe[s])
          BY <4>2, <2>0, <1>4
        <5>2. PICK i \in 1 .. Len(chan) : chan[i] = <<s, m>>
          BY <5>1 DEF LinesOf, Carried
        <5>3. i \in 1 .. Len(chan') /\ chan'[i] = <<s, m>>
          BY <5>2, <1>5, <1>5a
        <5>. QED BY <5>3
      <4>. QED BY <4>1, <4>2
    <3>2. ASSUME NEW i \in 1 .. Len(chan'), chan'[i][1] = s, chan'[i][2] # 0
          PROVE  Len(out[s]) < chan'[i][2] /\ chan'[i][2] <= l
      <4>1. CASE i = Len(chan) + 1
        BY <4>1, <1>5, <2>0, <1>4
      <4>2. CASE i \in 1 .. Len(chan)
        <5>1. chan'[i] = chan[i] /\ chan[i][2] \in Nat
          <6>1. chan[i] \in Streams \X Nat
            BY <4>2, <1>1 DEF CallTypeOK
          <6>. QED BY <4>2, <6>1, <1>5
        <5>2. Len(out[s]) < chan[i][2] /\ chan[i][2] <= l - 1
          BY <4>2, <5>1, <3>2, <2>0 DEF LinesOf, Carried
        <5>. QED BY <5>1, <5>2, <1>4
      <4>. QED BY <4>1, <4>2, <1>5, <1>5a
    <3>. QED BY <3>1, <3>2, <2>0 DEF Carried
  <2>4. InOrder(s)'
    <3>. SUFFICES ASSUME NEW i \in 1 .. Len(chan'), NEW j \in 1 .. Len(chan'), i < j,
                         chan'[i][1] = s, chan'[j][1] = s
                  PROVE  chan'[i][2] # 0 /\ (chan'[j][2] = 0 \/ chan'[i][2] < chan'[j][2])
      BY DEF InOrder
    <3>1. i \in 1 .. Len(chan) /\ chan'[i] = chan[i]
      BY <1>5, <1>5a
    <3>2. CASE j \in 1 .. Len(chan)
      BY <3>1, <3>2, <1>5 DEF LinesOf, InOrder
    <3>3. CASE j = Len(chan) + 1
      <4>0. chan[i] \in Streams \X Nat
        BY <3>1, <1>1 DEF CallTypeOK
      <4>1. chan[i][2] # 0
        <5>1. chan[i][2] = 0 => chan[i] = <<s, 0>>
          BY <3>1, <4>0
        <5>. QED BY <3>1, <5>1 DEF LinesOf, EndsOnce
      <4>2. chan[i][2] <= l - 1
        BY <3>1, <4>1, <2>0 DEF LinesOf, Carried
      <4>3. chan'[j][2] = l
        BY <3>3, <1>5
      <4>4. chan[i][2] < l
        BY <4>0, <4>2, <1>4
      <4>. QED BY <4>1, <4>3, <4>4, <3>1
    <3>. QED BY <3>2, <3>3, <1>5, <1>5a
  <2>5. EndsOnce(s)'
    <3>1. s \notin call.done
      BY DEF LinesOf, EndsOnce
    <3>2. \A i \in 1 .. Len(chan') : chan'[i] # <<s, 0>>
      <4>1. \A i \in 1 .. Len(chan) : chan[i] # <<s, 0>>
        BY DEF LinesOf, EndsOnce
      <4>2. <<s, l>> # <<s, 0>>
        BY <1>4
      <4>3. \A i \in 1 .. Len(chan') : i \in 1 .. Len(chan) \/ i = Len(chan) + 1
        BY <1>5, <1>5a
      <4>4. \A i \in 1 .. Len(chan) : chan'[i] # <<s, 0>>
        BY <4>1, <1>5
      <4>5. chan'[Len(chan) + 1] # <<s, 0>>
        BY <4>2, <1>5
      <4>. QED BY <4>3, <4>4, <4>5, Zenon
    <3>. QED BY <3>1, <3>2 DEF EndsOnce
  <2>. QED BY <2>1, <2>2, <2>3, <2>4, <2>5 DEF LinesOf
<1>. QED BY <1>6, <1>7, <1>8, <1>9 DEF CallInv

LEMMA ReadEndKeeps ==
  ASSUME CallInv, NEW s \in Streams, reader[s] = "reading", pipe[s] = <<>>, ~child.alive,
         chan' = Append(chan, <<s, 0>>),
         reader' = [reader EXCEPT ![s] = "ended"], pipe' = pipe,
         UNCHANGED <<call, child, wrote, out>>
  PROVE  CallInv'
<1>1. CallTypeOK /\ Len(chan) \in Nat /\ 0 \in Nat
  BY DEF CallInv, CallTypeOK
<1>2. /\ chan' \in Seq(Streams \X Nat) /\ Len(chan') = Len(chan) + 1
      /\ chan'[Len(chan) + 1] = <<s, 0>>
      /\ \A i \in 1 .. Len(chan) : chan'[i] = chan[i]
  BY <1>1, Sent
<1>3. reader' \in [Streams -> {"none", "reading", "ended"}]
  BY <1>1 DEF CallTypeOK
<1>4. reader'[s] = "ended" /\ \A r \in Streams \ {s} : reader'[r] = reader[r]
  BY <1>1 DEF CallTypeOK
<1>5. CallTypeOK'
  BY <1>1, <1>2, <1>3 DEF CallTypeOK
<1>6. Finished'
  <2>1. call.at \notin {"idle", "writing"}
    BY DEF CallInv, Finished, Each
  <2>. QED BY <2>1 DEF CallInv, Finished
<1>7. ASSUME NEW r \in Streams, r # s PROVE LinesOf(r)'
  <2>. LinesOf(r)
    BY DEF CallInv
  <2>1. Piped(r)' /\ Taken(r)'
    BY DEF LinesOf, Piped, Taken
  <2>2. Carried(r)' /\ InOrder(r)' /\ EndsOnce(r)'
    BY <1>1, <1>2, <1>4, <1>7, OtherStream
  <2>. QED BY <2>1, <2>2 DEF LinesOf
<1>8. LinesOf(s)'
  <2>. LinesOf(s)
    BY DEF CallInv
  <2>1. Piped(s)' /\ Taken(s)'
    BY DEF LinesOf, Piped, Taken
  <2>2. \A i \in 1 .. Len(chan) : chan[i] # <<s, 0>>
    BY DEF LinesOf, EndsOnce
  <2>3. \A i \in 1 .. Len(chan) : chan[i][1] = s => chan[i][2] # 0
    <3>. SUFFICES ASSUME NEW i \in 1 .. Len(chan), chan[i][1] = s, chan[i][2] = 0 PROVE FALSE
      OBVIOUS
    <3>1. chan[i] \in Streams \X Nat
      BY <1>1 DEF CallTypeOK
    <3>. QED BY <3>1, <2>2
  <2>4. \A i \in 1 .. Len(chan') : i \in 1 .. Len(chan) \/ i = Len(chan) + 1
    BY <1>1, <1>2
  <2>5. Carried(s)'
    <3>1. \A m \in Len(out[s]) + 1 .. wrote[s] - Len(pipe[s]) :
            \E i \in 1 .. Len(chan') : chan'[i] = <<s, m>>
      <4>. SUFFICES ASSUME NEW m \in Len(out[s]) + 1 .. wrote[s] - Len(pipe[s])
                    PROVE  \E i \in 1 .. Len(chan') : chan'[i] = <<s, m>>
        OBVIOUS
      <4>1. PICK i \in 1 .. Len(chan) : chan[i] = <<s, m>>
        BY DEF LinesOf, Carried
      <4>2. i \in 1 .. Len(chan') /\ chan'[i] = <<s, m>>
        BY <4>1, <1>1, <1>2
      <4>. QED BY <4>2
    <3>2. \A i \in 1 .. Len(chan') : chan'[i][1] = s /\ chan'[i][2] # 0 =>
            Len(out[s]) < chan'[i][2] /\ chan'[i][2] <= wrote[s] - Len(pipe[s])
      BY <1>2, <2>4 DEF LinesOf, Carried
    <3>. QED BY <3>1, <3>2 DEF Carried
  <2>6. InOrder(s)'
    <3>. SUFFICES ASSUME NEW i \in 1 .. Len(chan'), NEW j \in 1 .. Len(chan'), i < j,
                         chan'[i][1] = s, chan'[j][1] = s
                  PROVE  chan'[i][2] # 0 /\ (chan'[j][2] = 0 \/ chan'[i][2] < chan'[j][2])
      BY DEF InOrder
    <3>1. i \in 1 .. Len(chan) /\ chan'[i] = chan[i]
      BY <1>1, <1>2
    <3>2. CASE j \in 1 .. Len(chan)
      BY <3>1, <3>2, <1>2 DEF LinesOf, InOrder
    <3>3. CASE j = Len(chan) + 1
      BY <3>1, <3>3, <2>3, <1>2
    <3>. QED BY <3>2, <3>3, <2>4
  <2>7. EndsOnce(s)'
    <3>1. s \notin call.done
      BY DEF LinesOf, EndsOnce
    <3>. QED BY <3>1, <1>4 DEF EndsOnce
  <2>. QED BY <2>1, <2>5, <2>6, <2>7 DEF LinesOf
<1>. QED BY <1>5, <1>6, <1>7, <1>8 DEF CallInv

\* What Tail does to the channel, position by position.
LEMMA Received ==
  ASSUME CallTypeOK, chan # <<>>, chan' = Tail(chan)
  PROVE  /\ chan' \in Seq(Streams \X Nat) /\ Len(chan) \in Nat \ {0}
         /\ Len(chan') = Len(chan) - 1 /\ Head(chan) = chan[1]
         /\ chan[1] \in Streams \X Nat
         /\ \A i \in 1 .. Len(chan) - 1 : chan'[i] = chan[i + 1] /\ i + 1 \in 1 .. Len(chan)
         /\ \A i \in 1 .. Len(chan) : i = 1 \/ i - 1 \in 1 .. Len(chan) - 1
<1>. PICK c : c = chan
  OBVIOUS
<1>1. c \in Seq(Streams \X Nat) /\ c # <<>>
  BY DEF CallTypeOK
<1>2. /\ Tail(c) \in Seq(Streams \X Nat) /\ Len(c) \in Nat \ {0}
      /\ Len(Tail(c)) = Len(c) - 1 /\ Head(c) = c[1] /\ c[1] \in Streams \X Nat
      /\ \A i \in 1 .. Len(c) - 1 : Tail(c)[i] = c[i + 1]
  BY <1>1
<1>3. \A i \in 1 .. Len(c) - 1 : i + 1 \in 1 .. Len(c)
  BY <1>2
<1>4. \A i \in 1 .. Len(c) : i = 1 \/ i - 1 \in 1 .. Len(c) - 1
  BY <1>2
<1>. QED BY <1>2, <1>3, <1>4

\* Every line of the channel is where it was, one place further.
LEMMA StillCarried ==
  ASSUME CallTypeOK, chan # <<>>, chan' = Tail(chan), NEW x, x # chan[1],
         NEW i \in 1 .. Len(chan), chan[i] = x
  PROVE  \E j \in 1 .. Len(chan') : chan'[j] = x
<1>1. i - 1 \in 1 .. Len(chan) - 1 /\ Len(chan') = Len(chan) - 1
  BY Received
<1>2. chan'[i - 1] = chan[(i - 1) + 1] /\ (i - 1) + 1 = i
  BY <1>1, Received
<1>3. i - 1 \in 1 .. Len(chan') /\ chan'[i - 1] = x
  BY <1>1, <1>2
<1>. QED BY <1>3

LEMMA Shifted ==
  ASSUME CallTypeOK, chan # <<>>, chan' = Tail(chan), NEW r \in Streams, InOrder(r)
  PROVE  InOrder(r)'
<1>. SUFFICES ASSUME NEW i \in 1 .. Len(chan'), NEW j \in 1 .. Len(chan'), i < j,
                     chan'[i][1] = r, chan'[j][1] = r
              PROVE  chan'[i][2] # 0 /\ (chan'[j][2] = 0 \/ chan'[i][2] < chan'[j][2])
  BY DEF InOrder
<1>1. /\ chan'[i] = chan[i + 1] /\ i + 1 \in 1 .. Len(chan)
      /\ chan'[j] = chan[j + 1] /\ j + 1 \in 1 .. Len(chan)
  BY Received
<1>. QED BY <1>1 DEF InOrder

\* A stream whose line it is not: nothing of it has moved.
LEMMA OtherTaken ==
  ASSUME CallTypeOK, chan # <<>>, chan' = Tail(chan), NEW r \in Streams, chan[1][1] # r,
         LinesOf(r), out'[r] = out[r], r \in call'.done => r \in call.done,
         UNCHANGED <<child, wrote, pipe, reader>>
  PROVE  LinesOf(r)'
<1>1. Piped(r)' /\ Taken(r)'
  BY DEF LinesOf, Piped, Taken
<1>2. \A i \in 1 .. Len(chan') : chan'[i] = chan[i + 1] /\ i + 1 \in 1 .. Len(chan)
  BY Received
<1>3. Carried(r)'
  <2>1. \A m \in Len(out[r]) + 1 .. wrote[r] - Len(pipe[r]) :
          \E j \in 1 .. Len(chan') : chan'[j] = <<r, m>>
    <3>. SUFFICES ASSUME NEW m \in Len(out[r]) + 1 .. wrote[r] - Len(pipe[r])
                  PROVE  \E j \in 1 .. Len(chan') : chan'[j] = <<r, m>>
      OBVIOUS
    <3>1. PICK i \in 1 .. Len(chan) : chan[i] = <<r, m>>
      BY DEF LinesOf, Carried
    <3>2. <<r, m>> # chan[1]
      OBVIOUS
    <3>. QED BY <3>1, <3>2, StillCarried
  <2>2. \A i \in 1 .. Len(chan') : chan'[i][1] = r /\ chan'[i][2] # 0 =>
          Len(out[r]) < chan'[i][2] /\ chan'[i][2] <= wrote[r] - Len(pipe[r])
    BY <1>2 DEF LinesOf, Carried
  <2>. QED BY <2>1, <2>2 DEF Carried
<1>4. InOrder(r)'
  BY Shifted DEF LinesOf
<1>5. EndsOnce(r)'
  BY <1>2 DEF LinesOf, EndsOnce
<1>. QED BY <1>1, <1>3, <1>4, <1>5 DEF LinesOf

LEMMA TakeEndKeeps ==
  ASSUME CallInv, call.at = "reading", chan # <<>>, NEW s \in Streams, chan[1] = <<s, 0>>,
         call' = [call EXCEPT !.done = @ \cup {s}], out' = out, chan' = Tail(chan),
         UNCHANGED <<child, wrote, pipe, reader>>
  PROVE  CallInv'
<1>1. CallTypeOK /\ call \in Calls
  BY DEF CallInv, CallTypeOK
<1>2. call' \in Calls /\ call'.done = call.done \cup {s} /\ call'.at = "reading"
      /\ call'.success = call.success
  BY <1>1 DEF Calls
<1>3. CallTypeOK'
  BY <1>1, <1>2, Received DEF CallTypeOK
<1>4. Finished'
  BY <1>2 DEF CallInv, Finished
<1>5. ASSUME NEW r \in Streams, r # s PROVE LinesOf(r)'
  <2>1. LinesOf(r) /\ chan[1][1] # r /\ (r \in call'.done => r \in call.done)
    BY <1>2, <1>5 DEF CallInv
  <2>. QED BY <1>1, <2>1, OtherTaken
<1>6. LinesOf(s)'
  <2>. LinesOf(s)
    BY DEF CallInv
  <2>1. Piped(s)' /\ Taken(s)'
    BY DEF LinesOf, Piped, Taken
  <2>2. \A i \in 1 .. Len(chan') : chan'[i] = chan[i + 1] /\ i + 1 \in 1 .. Len(chan) /\ 1 < i + 1
    BY <1>1, Received
  <2>3. \A i \in 1 .. Len(chan') : chan'[i][1] # s
    <3>1. 1 \in 1 .. Len(chan) /\ chan[1][1] = s /\ chan[1][2] = 0
      BY <1>1, Received
    <3>. QED BY <2>2, <3>1 DEF LinesOf, InOrder
  <2>4. Carried(s)'
    <3>1. \A m \in Len(out[s]) + 1 .. wrote[s] - Len(pipe[s]) :
            \E j \in 1 .. Len(chan') : chan'[j] = <<s, m>>
      <4>. SUFFICES ASSUME NEW m \in Len(out[s]) + 1 .. wrote[s] - Len(pipe[s])
                    PROVE  \E j \in 1 .. Len(chan') : chan'[j] = <<s, m>>
        OBVIOUS
      <4>1. PICK i \in 1 .. Len(chan) : chan[i] = <<s, m>>
        BY DEF LinesOf, Carried
      <4>2. <<s, m>> # chan[1]
        <5>1. Len(out[s]) \in Nat
          BY <1>1 DEF CallTypeOK
        <5>. QED BY <5>1
      <4>. QED BY <1>1, <4>1, <4>2, StillCarried
    <3>. QED BY <3>1, <2>3 DEF Carried
  <2>5. InOrder(s)'
    BY <2>3 DEF InOrder
  <2>6. EndsOnce(s)'
    <3>1. reader[s] = "ended" /\ pipe[s] = <<>> /\ ~child.alive
      <4>1. 1 \in 1 .. Len(chan)
        BY <1>1, Received
      <4>. QED BY <4>1 DEF LinesOf, EndsOnce
    <3>. QED BY <3>1, <2>3 DEF EndsOnce
  <2>. QED BY <2>1, <2>4, <2>5, <2>6 DEF LinesOf
<1>. QED BY <1>3, <1>4, <1>5, <1>6 DEF CallInv

LEMMA TakeTextKeeps ==
  ASSUME CallInv, chan # <<>>, NEW s \in Streams, NEW l \in Nat, l # 0, chan[1] = <<s, l>>,
         out' = [out EXCEPT ![s] = Append(@, l)], chan' = Tail(chan),
         UNCHANGED <<call, child, wrote, pipe, reader>>
  PROVE  CallInv'
<1>1. CallTypeOK
  BY DEF CallInv
<1>2. /\ out[s] \in Seq(Nat) /\ out'[s] = Append(out[s], l)
      /\ out' \in [Streams -> Seq(Nat)] /\ \A r \in Streams \ {s} : out'[r] = out[r]
      /\ Len(out[s]) \in Nat /\ Len(out'[s]) = Len(out[s]) + 1
      /\ wrote[s] - Len(pipe[s]) \in Int
  <2>1. /\ out \in [Streams -> Seq(Nat)] /\ out[s] \in Seq(Nat)
        /\ wrote[s] \in Nat /\ pipe[s] \in Seq(Nat)
    BY <1>1 DEF CallTypeOK
  <2>2. /\ Append(out[s], l) \in Seq(Nat) /\ Len(out[s]) \in Nat
        /\ Len(Append(out[s], l)) = Len(out[s]) + 1 /\ Len(pipe[s]) \in Nat
    BY <2>1
  <2>. QED BY <2>1, <2>2
<1>3. CallTypeOK'
  <2>1. chan' \in Seq(Streams \X Nat)
    BY <1>1, Received
  <2>. QED BY <1>1, <1>2, <2>1, Zenon DEF CallTypeOK
<1>4. Finished'
  BY DEF CallInv, Finished
<1>5. ASSUME NEW r \in Streams, r # s PROVE LinesOf(r)'
  <2>1. LinesOf(r) /\ chan[1][1] # r /\ out'[r] = out[r]
    BY <1>2, <1>5 DEF CallInv
  <2>. QED BY <1>1, <2>1, OtherTaken
<1>6. LinesOf(s)'
  <2>. LinesOf(s)
    BY DEF CallInv
  <2>0. /\ 1 \in 1 .. Len(chan) /\ chan[1][1] = s /\ chan[1][2] = l
        /\ \A i \in 1 .. Len(chan) : chan[i] \in Streams \X Nat
    <3>1. 1 \in 1 .. Len(chan)
      BY <1>1, Received
    <3>2. chan[1][1] = s /\ chan[1][2] = l
      OBVIOUS
    <3>3. \A i \in 1 .. Len(chan) : chan[i] \in Streams \X Nat
      BY <1>1 DEF CallTypeOK
    <3>. QED BY <3>1, <3>2, <3>3
  <2>1. Len(out[s]) < l /\ l <= wrote[s] - Len(pipe[s])
    BY <2>0 DEF LinesOf, Carried
  <2>2. \A i \in 1 .. Len(chan') : chan'[i] = chan[i + 1] /\ i + 1 \in 1 .. Len(chan) /\ 1 < i + 1
    BY <1>1, Received
  <2>3. \A i \in 1 .. Len(chan') : chan'[i][1] = s /\ chan'[i][2] # 0 => l < chan'[i][2]
    <3>. SUFFICES ASSUME NEW i \in 1 .. Len(chan'), chan'[i][1] = s, chan'[i][2] # 0
                  PROVE  l < chan'[i][2]
      OBVIOUS
    <3>1. chan'[i] = chan[i + 1] /\ i + 1 \in 1 .. Len(chan) /\ 1 < i + 1
      BY <2>2
    <3>2. chan[i + 1][1] = s /\ chan[i + 1][2] # 0
      BY <3>1
    <3>. QED BY <2>0, <3>1, <3>2 DEF LinesOf, InOrder
  <2>4. l = Len(out[s]) + 1
    <3>. SUFFICES ASSUME l # Len(out[s]) + 1 PROVE FALSE
      OBVIOUS
    <3>1. Len(out[s]) + 1 \in Len(out[s]) + 1 .. wrote[s] - Len(pipe[s])
      BY <1>2, <2>1
    <3>2. PICK i \in 1 .. Len(chan) : chan[i] = <<s, Len(out[s]) + 1>>
      BY <3>1 DEF LinesOf, Carried
    <3>3. i # 1 /\ 1 < i
      BY <2>0, <3>2
    <3>4. chan[i][1] = s /\ chan[i][2] = Len(out[s]) + 1 /\ chan[i][2] # 0
      BY <3>2, <1>2
    <3>5. chan[1][2] < chan[i][2]
      BY <2>0, <3>3, <3>4 DEF LinesOf, InOrder
    <3>6. l < Len(out[s]) + 1
      BY <2>0, <3>4, <3>5
    <3>. QED BY <3>6, <2>1, <1>2
  <2>5. Piped(s)'
    BY DEF LinesOf, Piped
  <2>6. Taken(s)'
    <3>. PICK o : o = out[s]
      OBVIOUS
    <3>1. o \in Seq(Nat) /\ Len(o) \in Nat /\ out'[s] = Append(o, l) /\ Len(out'[s]) = Len(o) + 1
      BY <1>2
    <3>2. \A i \in 1 .. Len(o) : o[i] = i
      BY DEF LinesOf, Taken
    <3>3. ASSUME NEW i \in 1 .. Len(o) + 1 PROVE Append(o, l)[i] = i
      <4>1. CASE i \in 1 .. Len(o)
        <5>1. Append(o, l)[i] = o[i]
          BY <4>1, <3>1
        <5>. QED BY <5>1, <4>1, <3>2
      <4>2. CASE i = Len(o) + 1
        <5>1. Append(o, l)[i] = l
          BY <4>2, <3>1
        <5>. QED BY <5>1, <4>2, <2>4
      <4>. QED BY <4>1, <4>2, <3>1
    <3>4. Len(o) + 1 <= wrote[s] - Len(pipe[s])
      BY <2>1, <2>4
    <3>. QED BY <3>1, <3>3, <3>4 DEF Taken
  <2>7. Carried(s)'
    <3>1. ASSUME NEW m \in Len(out[s]) + 2 .. wrote[s] - Len(pipe[s])
          PROVE  \E j \in 1 .. Len(chan') : chan'[j] = <<s, m>>
      <4>1. m \in Len(out[s]) + 1 .. wrote[s] - Len(pipe[s]) /\ m # l
        BY <1>2, <2>4
      <4>2. PICK i \in 1 .. Len(chan) : chan[i] = <<s, m>>
        BY <4>1 DEF LinesOf, Carried
      <4>3. <<s, m>> # chan[1]
        BY <4>1
      <4>. QED BY <1>1, <4>2, <4>3, StillCarried
    <3>2. \A i \in 1 .. Len(chan') : chan'[i][1] = s /\ chan'[i][2] # 0 =>
            Len(out'[s]) < chan'[i][2] /\ chan'[i][2] <= wrote[s] - Len(pipe[s])
      BY <1>2, <2>2, <2>3, <2>4 DEF LinesOf, Carried
    <3>3. Len(out'[s]) + 1 = Len(out[s]) + 2
      BY <1>2
    <3>. QED BY <3>1, <3>2, <3>3 DEF Carried
  <2>8. InOrder(s)'
    BY <1>1, Shifted DEF LinesOf
  <2>9. EndsOnce(s)'
    BY <2>0, <2>2 DEF LinesOf, EndsOnce
  <2>. QED BY <2>5, <2>6, <2>7, <2>8, <2>9 DEF LinesOf
<1>. QED BY <1>3, <1>4, <1>5, <1>6 DEF CallInv

LEMMA TakeLineKeeps ==
  ASSUME CallInv, TakeLine
  PROVE  CallInv'
<1>1. /\ chan # <<>> /\ chan' = Tail(chan) /\ UNCHANGED <<child, wrote, pipe, reader>>
      /\ call.at = "reading"
  BY DEF TakeLine
<1>2. CallTypeOK
  BY DEF CallInv
<1>3. Head(chan) = chan[1] /\ chan[1] \in Streams \X Nat
  BY <1>1, <1>2, Received
<1>4. PICK s \in Streams, l \in Nat : chan[1] = <<s, l>>
  BY <1>3
<1>5. Head(chan)[1] = s /\ Head(chan)[2] = l
  BY <1>3, <1>4
<1>6. CASE l = 0
  <2>1. call' = [call EXCEPT !.done = @ \cup {s}] /\ out' = out
    BY <1>5, <1>6 DEF TakeLine
  <2>. QED BY <1>1, <1>4, <1>6, <2>1, TakeEndKeeps
<1>7. CASE l # 0
  <2>1. out' = [out EXCEPT ![s] = Append(@, l)] /\ call' = call
    BY <1>5, <1>7 DEF TakeLine
  <2>. QED BY <1>1, <1>4, <1>7, <2>1, TakeTextKeeps
<1>. QED BY <1>6, <1>7

LEMMA ReadStreamKeeps ==
  ASSUME CallInv, NEW s \in Streams, ReadStream(s)
  PROVE  CallInv'
BY ReadLineKeeps, ReadEndKeeps DEF ReadStream

LEMMA AgentStepKeeps ==
  ASSUME CallInv, AgentStep
  PROVE  CallInv'
BY WriteStdinKeeps, WriteFailsKeeps, StartReadersKeeps, TakeLineKeeps, TimeoutKeeps,
   BothEndedKeeps, JoinKeeps, ReadStreamKeeps, ChildReadsKeeps, ChildExitsKeeps,
   ChildWritesKeeps
   DEF AgentStep, Executor

LEMMA SameCall == CallInv /\ UNCHANGED callVars => CallInv'
<1>. SUFFICES ASSUME CallInv, UNCHANGED callVars PROVE CallInv'
  OBVIOUS
<1>1. UNCHANGED <<call, child, wrote, pipe, reader, chan, out>>
  BY DEF callVars
<1>2. CallTypeOK' /\ Finished'
  BY <1>1 DEF CallInv, CallTypeOK, Finished
<1>3. \A s \in Streams : LinesOf(s)'
  BY <1>1, SameLines
<1>. QED BY <1>2, <1>3 DEF CallInv

LEMMA CallNext == CallInv /\ [SentinelNext]_allVars => CallInv'
<1>. SUFFICES ASSUME CallInv, [SentinelNext]_allVars PROVE CallInv'
  OBVIOUS
<1>1. CASE UNCHANGED allVars
  BY <1>1, SameCall DEF allVars, agentVars, callVars
<1>2. CASE Ask
  BY <1>2, SpawnKeeps DEF Ask
<1>3. CASE AgentCommand
  BY <1>3, SpawnKeeps DEF AgentCommand
<1>4. CASE Judge \/ JudgeFails \/ CommandEnds
  BY <1>4, DroppedKeeps DEF Judge, JudgeFails, Answered, CommandEnds
<1>5. CASE Agent
  BY <1>5, AgentStepKeeps DEF Agent
<1>6. CASE StartCycle \/ PollFeed \/ AllPolled \/ EndCycle \/ FeedChanges
  BY <1>6, SameCall DEF StartCycle, PollFeed, AllPolled, EndCycle, FeedChanges, agentVars, callVars
<1>7. CASE FeedFails \/ AskFails
  BY <1>7, SameCall DEF FeedFails, AskFails
<1>. QED BY <1>1, <1>2, <1>3, <1>4, <1>5, <1>6, <1>7 DEF SentinelNext, Cycle

LEMMA NumberedIs ==
  ASSUME NEW n \in Nat
  PROVE  Numbered(n) \in Seq(Nat) /\ Len(Numbered(n)) = n /\ \A i \in 1 .. n : Numbered(n)[i] = i
BY DEF Numbered

LEMMA BeginningIs ==
  ASSUME NEW s \in Seq(Nat), NEW n \in Nat, n <= Len(s)
  PROVE  /\ SubSeq(s, 1, n) \in Seq(Nat) /\ Len(SubSeq(s, 1, n)) = n
         /\ \A i \in 1 .. n : SubSeq(s, 1, n)[i] = s[i]
<1>1. SubSeq(s, 1, n) \in Seq(Nat) /\ Len(SubSeq(s, 1, n)) = n
  OBVIOUS
<1>2. \A i \in 1 .. n : SubSeq(s, 1, n)[i] = s[i]
  OBVIOUS
<1>. QED BY <1>1, <1>2

LEMMA CallInvIsWhole == CallInv => OutputIsWhole
<1>. SUFFICES ASSUME CallInv, NEW s \in Streams
              PROVE  /\ IsPrefix(out[s], Numbered(wrote[s]))
                     /\ call.at = "returned" /\ call.success => out[s] = Numbered(wrote[s])
  BY DEF OutputIsWhole
<1>. PICK o, w, p : o = out[s] /\ w = wrote[s] /\ p = pipe[s]
  OBVIOUS
<1>. LinesOf(s)
  BY DEF CallInv
<1>1. o \in Seq(Nat) /\ w \in Nat /\ p \in Seq(Nat) /\ Len(o) \in Nat /\ Len(p) \in Nat
  BY DEF CallInv, CallTypeOK
<1>2. Len(o) <= w - Len(p) /\ \A i \in 1 .. Len(o) : o[i] = i
  BY DEF LinesOf, Taken
<1>3. Len(o) <= w
  BY <1>1, <1>2
<1>. DEFINE all == Numbered(w)
<1>4. all \in Seq(Nat) /\ Len(all) = w /\ \A i \in 1 .. w : all[i] = i
  BY <1>1, NumberedIs
<1>. HIDE DEF all
<1>5. SubSeq(o, 1, Len(o)) = o
  BY <1>1
<1>6. SubSeq(all, 1, Len(o)) = o
  <2>1. /\ SubSeq(all, 1, Len(o)) \in Seq(Nat) /\ Len(SubSeq(all, 1, Len(o))) = Len(o)
        /\ \A i \in 1 .. Len(o) : SubSeq(all, 1, Len(o))[i] = all[i]
    <3>1. all \in Seq(Nat) /\ Len(o) \in Nat /\ Len(o) <= Len(all)
      BY <1>1, <1>3, <1>4
    <3>. QED BY <3>1, BeginningIs
  <2>2. ASSUME NEW i \in 1 .. Len(o) PROVE SubSeq(all, 1, Len(o))[i] = o[i]
    <3>1. i \in 1 .. w
      BY <1>1, <1>3
    <3>. QED BY <2>1, <1>2, <1>4, <3>1
  <2>. QED BY <2>1, <2>2, <1>1
<1>7. IsPrefix(o, all)
  BY <1>3, <1>4, <1>5, <1>6 DEF IsPrefix
<1>8. ASSUME call.success PROVE o = all
  <2>1. s \in call.done
    BY <1>8 DEF CallInv, Finished
  <2>2. p = <<>> /\ \A i \in 1 .. Len(chan) : chan[i][1] # s
    BY <2>1 DEF LinesOf, EndsOnce
  <2>3. Len(p) = 0
    BY <2>2
  <2>4. ASSUME Len(o) # w PROVE FALSE
    <3>1. Len(o) + 1 \in Len(o) + 1 .. w - Len(p)
      BY <1>1, <1>3, <2>3, <2>4
    <3>2. PICK i \in 1 .. Len(chan) : chan[i] = <<s, Len(o) + 1>>
      BY <3>1 DEF LinesOf, Carried
    <3>. QED BY <3>2, <2>2
  <2>5. Len(o) = w /\ \A i \in 1 .. w : o[i] = all[i]
    BY <2>4, <1>1, <1>2, <1>4
  <2>. QED BY <2>5, <1>1, <1>4, SeqEqual
<1>. QED BY <1>7, <1>8 DEF all

\* crates/rara-agent/src/executor.rs:76-107, 147-223, 259-285: the output of a successful
\* call has every line of either stream in order, and any other call a beginning of
\* them, for every size of pipe and channel, with failed writes, timeouts and children
\* that exit when they like.
THEOREM OutputIsWholeHolds == SentinelSpec => []OutputIsWhole
<1>1. SentinelInit => CallInv
  BY CallInit DEF SentinelInit
<1>. QED BY <1>1, CallNext, CallInvIsWhole, PTL DEF SentinelSpec

-----------------------------------------------------------------------------
(* The console. *)

\* The numbers in a sequence of events.
Nos(q) == {q[i].seq : i \in 1 .. Len(q)}
\* Each of them has one place.
Once(q) == \A i, j \in 1 .. Len(q) : q[i].seq = q[j].seq => i = j

\* The same of a receiver, which holds the numbers alone.
FeedNos(f) == {f[i] : i \in 1 .. Len(f)}
FeedOnce(f) == \A i, j \in 1 .. Len(f) : f[i] = f[j] => i = j

Shown == [seq : Nat, topic : {"trading", "research"}]
Links == [phase : {"starting", "ready", "given up"}, attempts : Nat,
          status : {"connecting", "connected", "disconnected"}, client : BOOLEAN,
          ws : {"unknown", "connected", "disconnected"}]
StreamTasks == [live : BOOLEAN, open : BOOLEAN, feed : Seq(Nat), wire : Seq(Shown)]
Buses == [topics : Seq({"trading", "research"}), untold : SUBSET Nat]

ConsoleTypeOK ==
  /\ server \in [up : BOOLEAN, ws : BOOLEAN, crashes : Nat]
  /\ bus \in Buses /\ link \in Links /\ handle \in 0 .. 3
  /\ tasks \in [DOMAIN tasks -> StreamTasks]
  /\ rows \in Seq(Shown) /\ channel \in Seq(Shown)

\* No task but the one that the loop holds.
OneTask ==
  /\ DOMAIN tasks \subseteq {handle} \ {0}
  /\ link.phase = "starting" => handle = 0

\* A number is at one place only: listed, in the channel, on the wire, with the
\* receiver, or still untold.
OnePlace(r, c, w, f, untold, n) ==
  /\ Once(r) /\ Once(c) /\ Once(w) /\ FeedOnce(f)
  /\ Nos(r) \cap Nos(c) = {} /\ Nos(r) \cap Nos(w) = {} /\ Nos(r) \cap FeedNos(f) = {}
  /\ Nos(c) \cap Nos(w) = {} /\ Nos(c) \cap FeedNos(f) = {} /\ Nos(w) \cap FeedNos(f) = {}
  /\ (Nos(r) \cup Nos(c) \cup Nos(w) \cup FeedNos(f)) \cap untold = {}
  /\ Nos(r) \cup Nos(c) \cup Nos(w) \cup FeedNos(f) \cup untold \subseteq 1 .. n

InOnePlace ==
  /\ OnePlace(rows, channel, <<>>, <<>>, bus.untold, Len(bus.topics))
  /\ \A t \in DOMAIN tasks :
       OnePlace(rows, channel, tasks[t].wire, tasks[t].feed, bus.untold, Len(bus.topics))

ConsoleInv == ConsoleTypeOK /\ OneTask /\ InOnePlace

-----------------------------------------------------------------------------
\* Every set of numbers has a least one: induction on numbers, stated of a set.
LEMMA LeastNumber ==
  ASSUME NEW T, T \subseteq Nat, T # {}
  PROVE  \E n \in T : \A m \in T : n <= m
<1>1. \A m, n \in Nat : m < n => <<m, n>> \in OpToRel(<, Nat)
  <2>1. OpToRel(<, Nat) = {x \in Nat \X Nat : x[1] < x[2]}
    BY Zenon DEF OpToRel
  <2>2. QED
    BY <2>1
<1>2. PICK n \in T : \A m \in T : ~ (<<m, n>> \in OpToRel(<, Nat))
  BY WFMin, NatLessThanWellFounded
<1>3. \A m \in T : ~(m < n)
  BY <1>1, <1>2, Zenon
<1>4. \A m \in T : n <= m
  BY <1>3
<1>5. QED
  BY <1>4

\* A set of numbers that reaches up to no number but 0 and with each to the next
\* holds them all.
LEMMA AllNumbers ==
  ASSUME NEW S, 0 \in S, \A n \in Nat : n \in S => n + 1 \in S
  PROVE  Nat \subseteq S
<1> DEFINE T == Nat \ S
<1> SUFFICES ASSUME T # {} PROVE FALSE
  OBVIOUS
<1>1. PICK n \in T : \A m \in T : n <= m
  BY LeastNumber
<1>2. n # 0 /\ n - 1 \in Nat
  OBVIOUS
<1>3. n - 1 \in S
  BY <1>1, <1>2
<1>4. QED
  BY <1>2, <1>3

\* A bounded set of numbers has a largest one.
LEMMA LargestNumber ==
  ASSUME NEW k \in Nat, NEW s \in SUBSET (0 .. k), s # {}
  PROVE  \E n \in s : \A i \in s : i <= n
<1> DEFINE T == {n \in Nat : \A i \in s : i <= n}
<1>1. k \in T
  OBVIOUS
<1>2. PICK n \in T : \A m \in T : n <= m
  BY <1>1, LeastNumber
<1>3. n \in s
  <2> SUFFICES ASSUME n \notin s PROVE FALSE
    OBVIOUS
  <2>1. \A i \in s : i \in 0 .. k /\ i <= n /\ i # n
    OBVIOUS
  <2>2. PICK j \in s : TRUE
    OBVIOUS
  <2>3. n - 1 \in Nat /\ \A i \in s : i <= n - 1
    BY <2>1, <2>2
  <2>4. n - 1 \in T
    BY <2>3
  <2>5. QED
    BY <1>2, <2>3, <2>4
<1>4. QED
  BY <1>3

\* Max is the largest of a set of indices.
LEMMA LargestIndex ==
  ASSUME NEW k \in Nat, NEW s \in SUBSET (1 .. k), s # {}
  PROVE  Max(s) \in s /\ \A i \in s : i <= Max(s)
<1>1. s \in SUBSET (0 .. k)
  OBVIOUS
<1>2. PICK n \in s : \A i \in s : i <= n
  BY <1>1, LargestNumber
<1>3. \A i \in s : n >= i
  BY <1>1, <1>2
<1>4. Max(s) \in s /\ \A y \in s : Max(s) >= y
  BY <1>3 DEF Max
<1>5. QED
  BY <1>1, <1>4

LEMMA AppendNos ==
  ASSUME NEW q \in Seq(Shown), NEW e \in Shown
  PROVE  /\ Append(q, e) \in Seq(Shown) /\ Nos(Append(q, e)) = Nos(q) \cup {e.seq}
         /\ Once(q) /\ e.seq \notin Nos(q) => Once(Append(q, e))
<1>1. /\ Append(q, e) \in Seq(Shown) /\ Len(q) \in Nat /\ Len(Append(q, e)) = Len(q) + 1
      /\ \A i \in 1 .. Len(q) : Append(q, e)[i] = q[i]
      /\ Append(q, e)[Len(q) + 1] = e
  OBVIOUS
<1>. DEFINE p == Append(q, e)
<1>2. p \in Seq(Shown) /\ Len(q) \in Nat /\ Len(p) = Len(q) + 1
      /\ (\A i \in 1 .. Len(q) : p[i] = q[i]) /\ p[Len(q) + 1] = e
  BY <1>1
<1>. HIDE DEF p
<1>3. 1 .. Len(p) = (1 .. Len(q)) \cup {Len(q) + 1}
  BY <1>2
<1>4. Nos(p) \subseteq Nos(q) \cup {e.seq}
  BY <1>2, <1>3 DEF Nos
<1>5. Nos(q) \cup {e.seq} \subseteq Nos(p)
  BY <1>2, <1>3 DEF Nos
<1>6. ASSUME Once(q), e.seq \notin Nos(q) PROVE Once(p)
  BY <1>2, <1>3, <1>6 DEF Once, Nos
<1>7. p \in Seq(Shown) /\ Nos(p) = Nos(q) \cup {e.seq} /\ (Once(q) /\ e.seq \notin Nos(q) => Once(p))
  BY <1>2, <1>4, <1>5, <1>6
<1>. QED BY <1>7 DEF p

LEMMA TailNos ==
  ASSUME NEW q \in Seq(Shown), q # <<>>
  PROVE  /\ Tail(q) \in Seq(Shown) /\ Head(q) \in Shown
         /\ Nos(q) = Nos(Tail(q)) \cup {Head(q).seq}
         /\ Once(q) => Once(Tail(q)) /\ Head(q).seq \notin Nos(Tail(q))
<1>1. /\ Tail(q) \in Seq(Shown) /\ Len(q) \in Nat \ {0} /\ Len(Tail(q)) = Len(q) - 1
      /\ Head(q) = q[1] /\ q[1] \in Shown
      /\ \A i \in 1 .. Len(q) - 1 : Tail(q)[i] = q[i + 1]
  OBVIOUS
<1>. PICK p : p = Tail(q)
  OBVIOUS
<1>2. /\ p \in Seq(Shown) /\ Len(q) \in Nat \ {0} /\ Len(p) = Len(q) - 1
      /\ \A i \in 1 .. Len(p) : p[i] = q[i + 1] /\ i + 1 \in 1 .. Len(q) /\ i + 1 # 1
  BY <1>1
<1>3. \A i \in 1 .. Len(q) : i = 1 \/ (i - 1 \in 1 .. Len(p) /\ q[i] = p[i - 1])
  <2>. SUFFICES ASSUME NEW i \in 1 .. Len(q), i # 1
                PROVE  i - 1 \in 1 .. Len(p) /\ q[i] = p[i - 1]
    OBVIOUS
  <2>1. i - 1 \in 1 .. Len(p) /\ (i - 1) + 1 = i
    BY <1>2
  <2>. QED BY <2>1, <1>2
<1>4. 1 \in 1 .. Len(q)
  BY <1>2
<1>5. Nos(q) \subseteq Nos(p) \cup {q[1].seq}
  BY <1>3 DEF Nos
<1>6. Nos(p) \cup {q[1].seq} \subseteq Nos(q)
  BY <1>2, <1>4 DEF Nos
<1>7. ASSUME Once(q) PROVE Once(p) /\ q[1].seq \notin Nos(p)
  <2>1. Once(p)
    <3>. SUFFICES ASSUME NEW i \in 1 .. Len(p), NEW j \in 1 .. Len(p), p[i].seq = p[j].seq
                  PROVE  i = j
      BY DEF Once
    <3>1. i + 1 = j + 1
      BY <1>2, <1>7 DEF Once
    <3>. QED BY <3>1, <1>2
  <2>2. q[1].seq \notin Nos(p)
    <3>. SUFFICES ASSUME NEW i \in 1 .. Len(p), p[i].seq = q[1].seq PROVE FALSE
      BY DEF Nos
    <3>1. i + 1 = 1
      BY <1>2, <1>4, <1>7 DEF Once
    <3>. QED BY <3>1, <1>2
  <2>. QED BY <2>1, <2>2
<1>. QED BY <1>1, <1>2, <1>5, <1>6, <1>7

\* The last events of a list.
LEMMA SuffixNos ==
  ASSUME NEW q \in Seq(Shown), NEW a \in 1 .. Len(q) + 1
  PROVE  /\ SubSeq(q, a, Len(q)) \in Seq(Shown)
         /\ Nos(SubSeq(q, a, Len(q))) \subseteq Nos(q)
         /\ Once(q) => Once(SubSeq(q, a, Len(q)))
<1>. PICK p : p = SubSeq(q, a, Len(q))
  OBVIOUS
<1>0. Len(q) \in Nat /\ a \in Nat \ {0}
  OBVIOUS
<1>1. /\ p \in Seq(Shown) /\ Len(p) = Len(q) - a + 1
      /\ \A i \in 1 .. Len(p) : p[i] = q[a + i - 1]
  BY <1>0
<1>2. \A i \in 1 .. Len(p) : p[i] = q[a + i - 1] /\ a + i - 1 \in 1 .. Len(q)
  <2>. SUFFICES ASSUME NEW i \in 1 .. Len(p) PROVE p[i] = q[a + i - 1] /\ a + i - 1 \in 1 .. Len(q)
    OBVIOUS
  <2>1. i \in Nat \ {0} /\ i <= Len(q) - a + 1
    BY <1>0, <1>1
  <2>. QED BY <1>0, <1>1, <2>1
<1>3. Nos(p) \subseteq Nos(q)
  BY <1>2 DEF Nos
<1>4. ASSUME Once(q) PROVE Once(p)
  <2>. SUFFICES ASSUME NEW i \in 1 .. Len(p), NEW j \in 1 .. Len(p), p[i].seq = p[j].seq
                PROVE  i = j
    BY DEF Once
  <2>1. a + i - 1 = a + j - 1
    BY <1>2, <1>4 DEF Once
  <2>2. i \in Int /\ j \in Int
    BY <1>0, <1>1
  <2>. QED BY <2>1, <2>2, <1>0
<1>. QED BY <1>1, <1>3, <1>4

LEMMA AppendFeed ==
  ASSUME NEW f \in Seq(Nat), NEW n \in Nat
  PROVE  /\ Append(f, n) \in Seq(Nat) /\ FeedNos(Append(f, n)) = FeedNos(f) \cup {n}
         /\ FeedOnce(f) /\ n \notin FeedNos(f) => FeedOnce(Append(f, n))
<1>1. /\ Append(f, n) \in Seq(Nat) /\ Len(f) \in Nat /\ Len(Append(f, n)) = Len(f) + 1
      /\ \A i \in 1 .. Len(f) : Append(f, n)[i] = f[i]
      /\ Append(f, n)[Len(f) + 1] = n
  OBVIOUS
<1>. DEFINE p == Append(f, n)
<1>2. p \in Seq(Nat) /\ Len(f) \in Nat /\ Len(p) = Len(f) + 1
      /\ (\A i \in 1 .. Len(f) : p[i] = f[i]) /\ p[Len(f) + 1] = n
  BY <1>1
<1>. HIDE DEF p
<1>3. 1 .. Len(p) = (1 .. Len(f)) \cup {Len(f) + 1}
  BY <1>2
<1>4. FeedNos(p) \subseteq FeedNos(f) \cup {n}
  BY <1>2, <1>3 DEF FeedNos
<1>5. FeedNos(f) \cup {n} \subseteq FeedNos(p)
  BY <1>2, <1>3 DEF FeedNos
<1>6. ASSUME FeedOnce(f), n \notin FeedNos(f) PROVE FeedOnce(p)
  BY <1>2, <1>3, <1>6 DEF FeedOnce, FeedNos
<1>7. /\ p \in Seq(Nat) /\ FeedNos(p) = FeedNos(f) \cup {n}
      /\ FeedOnce(f) /\ n \notin FeedNos(f) => FeedOnce(p)
  BY <1>2, <1>4, <1>5, <1>6
<1>. QED BY <1>7 DEF p

LEMMA TailFeed ==
  ASSUME NEW f \in Seq(Nat), f # <<>>
  PROVE  /\ Tail(f) \in Seq(Nat) /\ Head(f) \in Nat
         /\ FeedNos(f) = FeedNos(Tail(f)) \cup {Head(f)}
         /\ FeedOnce(f) => FeedOnce(Tail(f)) /\ Head(f) \notin FeedNos(Tail(f))
<1>1. /\ Tail(f) \in Seq(Nat) /\ Len(f) \in Nat \ {0} /\ Len(Tail(f)) = Len(f) - 1
      /\ Head(f) = f[1] /\ f[1] \in Nat
      /\ \A i \in 1 .. Len(f) - 1 : Tail(f)[i] = f[i + 1]
  OBVIOUS
<1>. PICK p : p = Tail(f)
  OBVIOUS
<1>2. /\ p \in Seq(Nat) /\ Len(f) \in Nat \ {0} /\ Len(p) = Len(f) - 1
      /\ \A i \in 1 .. Len(p) : p[i] = f[i + 1] /\ i + 1 \in 1 .. Len(f) /\ i + 1 # 1
  BY <1>1
<1>3. \A i \in 1 .. Len(f) : i = 1 \/ (i - 1 \in 1 .. Len(p) /\ f[i] = p[i - 1])
  <2>. SUFFICES ASSUME NEW i \in 1 .. Len(f), i # 1
                PROVE  i - 1 \in 1 .. Len(p) /\ f[i] = p[i - 1]
    OBVIOUS
  <2>1. i - 1 \in 1 .. Len(p) /\ (i - 1) + 1 = i
    BY <1>2
  <2>. QED BY <2>1, <1>2
<1>4. 1 \in 1 .. Len(f)
  BY <1>2
<1>5. FeedNos(f) \subseteq FeedNos(p) \cup {f[1]}
  BY <1>3 DEF FeedNos
<1>6. FeedNos(p) \cup {f[1]} \subseteq FeedNos(f)
  BY <1>2, <1>4 DEF FeedNos
<1>7. ASSUME FeedOnce(f) PROVE FeedOnce(p) /\ f[1] \notin FeedNos(p)
  <2>1. FeedOnce(p)
    <3>. SUFFICES ASSUME NEW i \in 1 .. Len(p), NEW j \in 1 .. Len(p), p[i] = p[j]
                  PROVE  i = j
      BY DEF FeedOnce
    <3>1. i + 1 = j + 1
      BY <1>2, <1>7 DEF FeedOnce
    <3>. QED BY <3>1, <1>2
  <2>2. f[1] \notin FeedNos(p)
    <3>. SUFFICES ASSUME NEW i \in 1 .. Len(p), p[i] = f[1] PROVE FALSE
      BY DEF FeedNos
    <3>1. i + 1 = 1
      BY <1>2, <1>4, <1>7 DEF FeedOnce
    <3>. QED BY <3>1, <1>2
  <2>. QED BY <2>1, <2>2
<1>. QED BY <1>1, <1>2, <1>5, <1>6, <1>7

LEMMA NothingThere == Nos(<<>>) = {} /\ FeedNos(<<>>) = {} /\ Once(<<>>) /\ FeedOnce(<<>>)
BY DEF Nos, FeedNos, Once, FeedOnce

\* push_event (app.rs): what is kept is the end of what was there and the new one.
LEMMA Pushed ==
  ASSUME NEW state, NEW event \in Shown, state.rows \in Seq(Shown)
  PROVE  /\ PushEvent(state, event).rows \in Seq(Shown)
         /\ Nos(PushEvent(state, event).rows) \subseteq Nos(state.rows) \cup {event.seq}
         /\ Once(state.rows) /\ event.seq \notin Nos(state.rows) =>
              Once(PushEvent(state, event).rows)
<1>. DEFINE all == Append(state.rows, event)
            a == Len(all) - (IF Len(all) > MaxEvents THEN MaxEvents ELSE Len(all)) + 1
<1>1. PushEvent(state, event).rows = SubSeq(all, a, Len(all))
  BY DEF PushEvent
<1>2. /\ all \in Seq(Shown) /\ Nos(all) = Nos(state.rows) \cup {event.seq}
      /\ Once(state.rows) /\ event.seq \notin Nos(state.rows) => Once(all)
  BY AppendNos
<1>. HIDE DEF all
<1>3. a \in 1 .. Len(all) + 1
  <2>1. Len(all) \in Nat /\ MaxEvents \in Nat \ {0}
    BY <1>2, DashboardAssumption
  <2>. PICK n, m : n = Len(all) /\ m = MaxEvents
    OBVIOUS
  <2>2. n \in Nat /\ m \in Nat \ {0} /\ a = n - (IF n > m THEN m ELSE n) + 1
    BY <2>1
  <2>. HIDE DEF a
  <2>3. CASE n > m
    BY <2>2, <2>3
  <2>4. CASE ~(n > m)
    BY <2>2, <2>4
  <2>. QED BY <2>3, <2>4
<1>. HIDE DEF a
<1>4. /\ SubSeq(all, a, Len(all)) \in Seq(Shown)
      /\ Nos(SubSeq(all, a, Len(all))) \subseteq Nos(all)
      /\ Once(all) => Once(SubSeq(all, a, Len(all)))
  BY <1>2, <1>3, SuffixNos
<1>. QED BY <1>1, <1>2, <1>4

-----------------------------------------------------------------------------
\* One step of the recursion behind FoldLeft, over sets of indices.
Peeled(g, s, base, events) ==
  IF s = {} THEN base ELSE PushEvent(g[s \ {Max(s)}], events[Max(s)])

Recursion(g, S, base, events) == g = [s \in S |-> Peeled(g, s, base, events)]

LEMMA FoldIsRecursion ==
  ASSUME NEW base, NEW events
  PROVE  FoldLeft(PushEvent, base, events) =
           (CHOOSE g : Recursion(g, SUBSET DOMAIN events, base, events))[DOMAIN events]
BY DEF FoldLeft, MapThenFoldSet, Recursion, Peeled

\* The recursion has a solution: by induction on the largest index.
LEMMA RecursionSolved ==
  ASSUME NEW base, NEW events, NEW k \in Nat
  PROVE  \E g : Recursion(g, SUBSET (1 .. k), base, events)
<1> DEFINE S == {n \in Nat : \E g : Recursion(g, SUBSET (1 .. n), base, events)}
<1>1. 0 \in S
  <2>1. SUBSET (1 .. 0) = {{}}
    OBVIOUS
  <2>2. Recursion([s \in {{}} |-> base], {{}}, base, events)
    BY DEF Recursion, Peeled
  <2>3. QED
    BY <2>1, <2>2
<1>2. ASSUME NEW n \in Nat, n \in S PROVE n + 1 \in S
  <2>1. PICK g : Recursion(g, SUBSET (1 .. n), base, events)
    BY <1>2
  <2> DEFINE h == [s \in SUBSET (1 .. n + 1) |-> Peeled(g, s, base, events)]
  <2>2. ASSUME NEW s \in SUBSET (1 .. n + 1), s # {}
        PROVE  s \ {Max(s)} \in SUBSET (1 .. n)
    <3>1. n + 1 \in Nat
      OBVIOUS
    <3>2. Max(s) \in s /\ \A i \in s : i <= Max(s)
      BY <2>2, <3>1, LargestIndex
    <3>3. \A i \in s : i \in 1 .. n + 1
      BY <2>2
    <3>4. PICK m : m = Max(s)
      OBVIOUS
    <3>5. \A i \in s \ {m} : i <= m /\ i # m /\ i \in 1 .. n + 1 /\ m \in 1 .. n + 1
      BY <3>2, <3>3, <3>4
    <3>6. \A i \in s \ {m} : i \in 1 .. n
      BY <3>5
    <3>7. QED
      BY <3>4, <3>6
  <2>3. \A s \in SUBSET (1 .. n) : h[s] = g[s]
    <3>1. SUBSET (1 .. n) \subseteq SUBSET (1 .. n + 1)
      OBVIOUS
    <3>2. QED
      BY <2>1, <3>1 DEF Recursion
  <2>4. \A s \in SUBSET (1 .. n + 1) :
          Peeled(g, s, base, events) = Peeled(h, s, base, events)
    BY <2>2, <2>3 DEF Peeled
  <2>5. Recursion(h, SUBSET (1 .. n + 1), base, events)
    BY <2>4 DEF Recursion
  <2>6. QED
    BY <2>5
<1>3. QED
  BY <1>1, <1>2, AllNumbers


\* The list before and after each event that is drained.
OneByOne(f, base, events, k) ==
  /\ f[0] = base
  /\ \A i \in 1 .. k : f[i] = PushEvent(f[i - 1], events[i])
  /\ FoldLeft(PushEvent, base, events) = f[k]

LEMMA DrainedOneByOne ==
  ASSUME NEW base, NEW events, NEW k \in Nat, DOMAIN events = 1 .. k
  PROVE  \E f : OneByOne(f, base, events, k)
<1> DEFINE g == CHOOSE h : Recursion(h, SUBSET (1 .. k), base, events)
           f == [i \in 0 .. k |-> g[1 .. i]]
<1>1. Recursion(g, SUBSET (1 .. k), base, events)
  BY RecursionSolved
<1>2. FoldLeft(PushEvent, base, events) = g[1 .. k]
  BY FoldIsRecursion
<1> HIDE DEF g
<1>3. \A s \in SUBSET (1 .. k) : g[s] = Peeled(g, s, base, events)
  BY <1>1 DEF Recursion
<1>4. f[0] = base
  <2>1. 1 .. 0 = {} /\ {} \in SUBSET (1 .. k)
    OBVIOUS
  <2>2. f[0] = g[{}]
    BY <2>1
  <2>3. QED
    BY <1>3, <2>1, <2>2 DEF Peeled
<1>5. ASSUME NEW i \in 1 .. k
      PROVE  f[i] = PushEvent(f[i - 1], events[i])
  <2>1. 1 .. i \in SUBSET (1 .. k) /\ i \in 1 .. i
    OBVIOUS
  <2>2. Max(1 .. i) = i
    <3>1. Max(1 .. i) \in 1 .. i /\ i <= Max(1 .. i)
      BY <2>1, LargestIndex
    <3>2. QED
      BY <3>1
  <2>3. (1 .. i) \ {i} = 1 .. (i - 1)
    OBVIOUS
  <2>4. g[1 .. i] = PushEvent(g[1 .. (i - 1)], events[i])
    BY <1>3, <2>1, <2>2, <2>3 DEF Peeled
  <2>5. QED
    BY <2>4
<1>6. f[k] = g[1 .. k]
  OBVIOUS
<1> HIDE DEF f
<1>7. QED
  BY <1>2, <1>4, <1>5, <1>6 DEF OneByOne

\* What Drain lists was listed or in the channel, once if it was in one place.
LEMMA Drained ==
  ASSUME NEW r \in Seq(Shown), NEW c \in Seq(Shown), NEW app,
         Once(r), Once(c), Nos(r) \cap Nos(c) = {}
  PROVE  LET list == FoldLeft(PushEvent, [rows |-> r, ui |-> app], c).rows
         IN  list \in Seq(Shown) /\ Once(list) /\ Nos(list) \subseteq Nos(r) \cup Nos(c)
<1>. DEFINE k == Len(c)
            base == [rows |-> r, ui |-> app]
            Before(n) == {c[j].seq : j \in 1 .. n}
<1>1. k \in Nat /\ DOMAIN c = 1 .. k /\ \A i \in 1 .. k : c[i] \in Shown
  OBVIOUS
<1>. HIDE DEF k, base
<1>2. PICK f : OneByOne(f, base, c, k)
  BY <1>1, DrainedOneByOne
<1>3. base.rows = r
  BY DEF base
<1>. DEFINE Good(n) == /\ f[n].rows \in Seq(Shown) /\ Once(f[n].rows)
                       /\ Nos(f[n].rows) \subseteq Nos(r) \cup Before(n)
            S == {n \in Nat : n <= k => Good(n)}
<1>4. 0 \in S
  <2>1. f[0].rows = r
    BY <1>2, <1>3 DEF OneByOne
  <2>2. Good(0)
    BY <2>1
  <2>. HIDE DEF Good
  <2>. QED BY <2>2
<1>5. ASSUME NEW n \in Nat, n \in S PROVE n + 1 \in S
  <2>. SUFFICES ASSUME n + 1 <= k PROVE Good(n + 1)
    OBVIOUS
  <2>1. Good(n) /\ n + 1 \in 1 .. k /\ (n + 1) - 1 = n
    BY <1>1, <1>5
  <2>2. f[n + 1] = PushEvent(f[n], c[n + 1]) /\ c[n + 1] \in Shown
    BY <1>1, <1>2, <2>1 DEF OneByOne
  <2>3. c[n + 1].seq \notin Nos(f[n].rows)
    <3>1. c[n + 1].seq \in Nos(c)
      BY <2>1 DEF Nos, k
    <3>2. \A j \in 1 .. n : j \in 1 .. k /\ j # n + 1
      BY <1>1, <2>1
    <3>3. c[n + 1].seq \notin Before(n)
      BY <2>1, <3>2 DEF Once, k
    <3>. QED BY <2>1, <3>1, <3>3
  <2>4. /\ f[n + 1].rows \in Seq(Shown) /\ Once(f[n + 1].rows)
        /\ Nos(f[n + 1].rows) \subseteq Nos(f[n].rows) \cup {c[n + 1].seq}
    BY <2>1, <2>2, <2>3, Pushed
  <2>5. Before(n) \cup {c[n + 1].seq} \subseteq Before(n + 1)
    <3>1. n + 1 \in 1 .. n + 1 /\ \A j \in 1 .. n : j \in 1 .. n + 1
      OBVIOUS
    <3>. QED BY <3>1
  <2>. QED BY <2>1, <2>4, <2>5
<1>. HIDE DEF S
<1>6. k \in S
  BY <1>1, <1>4, <1>5, AllNumbers
<1>7. Good(k)
  BY <1>1, <1>6 DEF S
<1>8. Before(k) = Nos(c)
  BY DEF Nos, k
<1>9. FoldLeft(PushEvent, base, c) = f[k]
  BY <1>2 DEF OneByOne
<1>. QED BY <1>7, <1>8, <1>9 DEF base
-----------------------------------------------------------------------------
LEMMA ConsoleStart == ConsoleInit => ConsoleInv
<1>. SUFFICES ASSUME ConsoleInit PROVE ConsoleInv
  OBVIOUS
<1>1. /\ server = NoServer /\ bus = [topics |-> <<>>, untold |-> {}] /\ tasks = <<>>
      /\ handle = 0 /\ channel = <<>> /\ rows = <<>>
      /\ link = [phase |-> "starting", attempts |-> 0, status |-> "connecting",
                 client |-> FALSE, ws |-> "unknown"]
  BY DEF ConsoleInit
<1>2. DOMAIN tasks = {} /\ tasks \in [DOMAIN tasks -> StreamTasks]
  BY <1>1
<1>3. ConsoleTypeOK
  BY <1>1, <1>2 DEF ConsoleTypeOK, NoServer, Buses, Links
<1>4. OneTask
  BY <1>1, <1>2 DEF OneTask
<1>5. InOnePlace
  BY <1>1, <1>2, NothingThere DEF InOnePlace, OnePlace
<1>. QED BY <1>3, <1>4, <1>5 DEF ConsoleInv

\* Steps of the server process and of the loop that move no event and no task.
LEMMA NothingMoved ==
  ASSUME ConsoleInv, UNCHANGED <<bus, tasks, handle, channel, rows>>,
         server' \in [up : BOOLEAN, ws : BOOLEAN, crashes : Nat], link' \in Links,
         link'.phase = "starting" => link.phase = "starting"
  PROVE  ConsoleInv'
<1>1. ConsoleTypeOK'
  BY DEF ConsoleInv, ConsoleTypeOK
<1>2. OneTask'
  BY DEF ConsoleInv, OneTask
<1>3. InOnePlace'
  BY DEF ConsoleInv, InOnePlace
<1>. QED BY <1>1, <1>2, <1>3 DEF ConsoleInv

\* Events that leave no trace: fewer are where they were, at most.
LEMMA Fewer ==
  ASSUME NEW r, NEW c, NEW w, NEW f, NEW u, NEW n \in Nat, NEW m \in Nat, n <= m,
         OnePlace(r, c, w, f, u, n), NEW v, v \subseteq u
  PROVE  OnePlace(r, c, w, f, v, m) /\ OnePlace(r, c, w, <<>>, v, m)
         /\ OnePlace(r, c, <<>>, <<>>, v, m)
<1>1. \A x \in 1 .. n : x \in 1 .. m
  OBVIOUS
<1>. QED BY <1>1, NothingThere DEF OnePlace

LEMMA ServerStartsKeeps ==
  ASSUME ConsoleInv, ServerStarts \/ SocketConnects \/ SocketBreaks
  PROVE  ConsoleInv'
<1>1. server' \in [up : BOOLEAN, ws : BOOLEAN, crashes : Nat]
  <2>1. PICK s : s = server
    OBVIOUS
  <2>2. s \in [up : BOOLEAN, ws : BOOLEAN, crashes : Nat]
    BY <2>1 DEF ConsoleInv, ConsoleTypeOK
  <2>3. \/ server' = [s EXCEPT !.up = TRUE]
        \/ server' = [s EXCEPT !.ws = TRUE]
        \/ server' = [s EXCEPT !.ws = FALSE, !.crashes = s.crashes + 1]
    BY <2>1 DEF ServerStarts, SocketConnects, SocketBreaks
  <2>4. s.crashes \in Nat /\ s.crashes + 1 \in Nat
    BY <2>2
  <2>5. CASE server' = [s EXCEPT !.up = TRUE]
    BY <2>2, <2>5
  <2>6. CASE server' = [s EXCEPT !.ws = TRUE]
    BY <2>2, <2>6
  <2>7. CASE server' = [s EXCEPT !.ws = FALSE, !.crashes = s.crashes + 1]
    <3>1. PICK c \in Nat : c = s.crashes + 1
      BY <2>4
    <3>2. server' = [s EXCEPT !.ws = FALSE, !.crashes = c]
      BY <2>7, <3>1
    <3>. QED BY <2>2, <3>1, <3>2
  <2>. QED BY <2>3, <2>5, <2>6, <2>7
<1>2. UNCHANGED <<bus, tasks, handle, channel, rows, link>>
  BY DEF ServerStarts, SocketConnects, SocketBreaks, dashboardVars
<1>3. link' \in Links
  BY <1>2 DEF ConsoleInv, ConsoleTypeOK
<1>. QED BY <1>1, <1>2, <1>3, NothingMoved

\* No event is new, and each is at most where it was.
LEMMA TasksShrink ==
  ASSUME ConsoleInv, bus' \in Buses, bus'.untold \subseteq bus.untold, Len(bus'.topics) = Len(bus.topics),
         tasks' \in [DOMAIN tasks' -> StreamTasks], DOMAIN tasks' \subseteq DOMAIN tasks,
         \A t \in DOMAIN tasks' : /\ tasks'[t].wire = tasks[t].wire
                                  /\ tasks'[t].feed \in {tasks[t].feed, <<>>},
         handle' \in 0 .. 3, DOMAIN tasks' \subseteq {handle'} \ {0},
         server' \in [up : BOOLEAN, ws : BOOLEAN, crashes : Nat], link' \in Links,
         link'.phase = "starting" => link.phase = "starting" /\ handle' = 0,
         rows' = rows, channel' = channel
  PROVE  ConsoleInv'
<1>0. Len(bus.topics) \in Nat
  BY DEF ConsoleInv, ConsoleTypeOK, Buses
<1>1. ConsoleTypeOK' /\ OneTask'
  BY DEF ConsoleInv, ConsoleTypeOK, OneTask
<1>2. OnePlace(rows', channel', <<>>, <<>>, bus'.untold, Len(bus'.topics))
  BY <1>0, Fewer DEF ConsoleInv, InOnePlace
<1>3. ASSUME NEW t \in DOMAIN tasks'
      PROVE  OnePlace(rows', channel', tasks'[t].wire, tasks'[t].feed, bus'.untold, Len(bus'.topics))
  <2>1. OnePlace(rows, channel, tasks[t].wire, tasks[t].feed, bus.untold, Len(bus.topics))
    BY DEF ConsoleInv, InOnePlace
  <2>. QED BY <1>0, <2>1, Fewer
<1>. QED BY <1>1, <1>2, <1>3 DEF ConsoleInv, InOnePlace

LEMMA CrashKeeps ==
  ASSUME ConsoleInv, ServerCrashes
  PROVE  ConsoleInv'
<1>1. /\ bus' = [bus EXCEPT !.untold = {}]
      /\ tasks' = [t \in DOMAIN tasks |-> [tasks[t] EXCEPT !.live = FALSE, !.feed = <<>>]]
      /\ UNCHANGED <<handle, link, channel, rows>>
      /\ server' = [NoServer EXCEPT !.crashes = server.crashes + 1]
  BY DEF ServerCrashes, Stopped, dashboardVars
<1>2. /\ bus \in Buses /\ tasks \in [DOMAIN tasks -> StreamTasks] /\ link \in Links
      /\ handle \in 0 .. 3 /\ server.crashes \in Nat
  BY DEF ConsoleInv, ConsoleTypeOK
<1>3. bus' \in Buses /\ bus'.untold = {} /\ bus'.topics = bus.topics
  BY <1>1, <1>2 DEF Buses
<1>4. DOMAIN tasks' = DOMAIN tasks
  BY <1>1
<1>5. ASSUME NEW t \in DOMAIN tasks
      PROVE  tasks'[t] \in StreamTasks /\ tasks'[t].wire = tasks[t].wire /\ tasks'[t].feed = <<>>
  <2>1. PICK k \in StreamTasks : k = tasks[t]
    BY <1>2
  <2>2. tasks'[t] = [k EXCEPT !.live = FALSE, !.feed = <<>>]
    BY <1>1, <2>1
  <2>3. <<>> \in Seq(Nat)
    OBVIOUS
  <2>4. tasks'[t] \in StreamTasks
    BY <2>2, <2>3 DEF StreamTasks
  <2>5. tasks'[t].wire = k.wire /\ tasks'[t].feed = <<>>
    BY <2>2 DEF StreamTasks
  <2>. QED BY <2>1, <2>4, <2>5
<1>6. tasks' \in [DOMAIN tasks' -> StreamTasks]
  BY <1>1, <1>4, <1>5
<1>7. server' \in [up : BOOLEAN, ws : BOOLEAN, crashes : Nat]
  <2>1. server' = [up |-> FALSE, ws |-> FALSE, crashes |-> server.crashes + 1]
    BY <1>1 DEF NoServer
  <2>2. server.crashes + 1 \in Nat
    BY <1>2
  <2>. QED BY <2>1, <2>2
<1>8. /\ DOMAIN tasks \subseteq {handle} \ {0}
      /\ link.phase = "starting" => handle = 0
  BY DEF ConsoleInv, OneTask
<1>. QED BY <1>1, <1>2, <1>3, <1>4, <1>5, <1>6, <1>7, <1>8, TasksShrink

LEMMA StoreKeeps ==
  ASSUME ConsoleInv, Store
  PROVE  ConsoleInv'
<1>1. PICK topic \in {"trading", "research"} :
        bus' = [topics |-> Append(bus.topics, topic),
                untold |-> bus.untold \cup {Len(bus.topics) + 1}]
  BY DEF Store
<1>2. UNCHANGED <<server, tasks, handle, link, channel, rows>>
  BY DEF Store, dashboardVars
<1>. PICK n : n = Len(bus.topics)
  OBVIOUS
<1>3. n \in Nat /\ bus' \in Buses /\ bus'.untold = bus.untold \cup {n + 1} /\ Len(bus'.topics) = n + 1
  BY <1>1 DEF ConsoleInv, ConsoleTypeOK, Buses
<1>4. ConsoleTypeOK' /\ OneTask'
  BY <1>2, <1>3 DEF ConsoleInv, ConsoleTypeOK, OneTask
<1>5. ASSUME NEW w, NEW f, OnePlace(rows, channel, w, f, bus.untold, n)
      PROVE  OnePlace(rows, channel, w, f, bus.untold \cup {n + 1}, n + 1)
  <2>1. n + 1 \notin 1 .. n /\ 1 .. n + 1 = (1 .. n) \cup {n + 1}
    BY <1>3
  <2>. QED BY <1>5, <2>1 DEF OnePlace
<1>6. OnePlace(rows, channel, <<>>, <<>>, bus.untold \cup {n + 1}, n + 1)
  BY <1>5 DEF ConsoleInv, InOnePlace
<1>7. \A t \in DOMAIN tasks :
        OnePlace(rows, channel, tasks[t].wire, tasks[t].feed, bus.untold \cup {n + 1}, n + 1)
  BY <1>5 DEF ConsoleInv, InOnePlace
<1>8. InOnePlace'
  BY <1>2, <1>3, <1>6, <1>7 DEF InOnePlace
<1>. QED BY <1>4, <1>8 DEF ConsoleInv

\* broadcast: a number that no receiver has yet; the oldest one may have to go.
LEMMA OfferedTyped ==
  ASSUME NEW f \in Seq(Nat), NEW seq \in Nat
  PROVE  /\ Offer(f, seq) \in Seq(Nat)
         /\ FeedNos(Offer(f, seq)) \subseteq FeedNos(f) \cup {seq}
         /\ FeedOnce(f) /\ seq \notin FeedNos(f) => FeedOnce(Offer(f, seq))
<1>1. CASE Len(f) < FeedSize
  BY <1>1, AppendFeed DEF Offer
<1>2. CASE ~(Len(f) < FeedSize)
  <2>1. f # <<>>
    BY <1>2, ConsoleAssumption
  <2>2. Offer(f, seq) = Append(Tail(f), seq)
    BY <1>2 DEF Offer
  <2>. PICK g : g = Tail(f)
    OBVIOUS
  <2>3. /\ g \in Seq(Nat) /\ FeedNos(g) \subseteq FeedNos(f)
        /\ FeedOnce(f) => FeedOnce(g)
    BY <2>1, TailFeed
  <2>4. /\ Append(g, seq) \in Seq(Nat) /\ FeedNos(Append(g, seq)) = FeedNos(g) \cup {seq}
        /\ FeedOnce(g) /\ seq \notin FeedNos(g) => FeedOnce(Append(g, seq))
    BY <2>3, AppendFeed
  <2>. QED BY <2>2, <2>3, <2>4
<1>. QED BY <1>1, <1>2

LEMMA BroadcastKeeps ==
  ASSUME ConsoleInv, Broadcast
  PROVE  ConsoleInv'
<1>1. PICK seq \in bus.untold :
        /\ bus' = [bus EXCEPT !.untold = @ \ {seq}]
        /\ tasks' = [t \in DOMAIN tasks |->
                       IF tasks[t].live THEN [tasks[t] EXCEPT !.feed = Offer(@, seq)]
                       ELSE tasks[t]]
        /\ UNCHANGED <<server, handle, link, channel, rows>>
  BY DEF Broadcast, dashboardVars
<1>2. bus \in Buses /\ tasks \in [DOMAIN tasks -> StreamTasks] /\ seq \in Nat
  BY DEF ConsoleInv, ConsoleTypeOK, Buses
<1>3. bus' \in Buses /\ bus'.untold = bus.untold \ {seq} /\ bus'.topics = bus.topics
  BY <1>1, <1>2 DEF Buses
<1>. PICK n : n = Len(bus.topics)
  OBVIOUS
<1>4. ASSUME NEW t \in DOMAIN tasks
      PROVE  /\ tasks'[t] \in StreamTasks /\ tasks'[t].wire = tasks[t].wire
             /\ tasks'[t].feed \in {tasks[t].feed, Offer(tasks[t].feed, seq)}
  <2>1. PICK k \in StreamTasks : k = tasks[t]
    BY <1>2
  <2>2. k.feed \in Seq(Nat) /\ Offer(k.feed, seq) \in Seq(Nat)
    BY <1>2, OfferedTyped DEF StreamTasks
  <2>3. tasks'[t] = k \/ tasks'[t] = [k EXCEPT !.feed = Offer(k.feed, seq)]
    BY <1>1, <2>1
  <2>. QED BY <2>1, <2>2, <2>3 DEF StreamTasks
<1>5. DOMAIN tasks' = DOMAIN tasks
  BY <1>1
<1>6. tasks' \in [DOMAIN tasks' -> StreamTasks]
  BY <1>1, <1>4, <1>5
<1>7. ConsoleTypeOK' /\ OneTask'
  BY <1>1, <1>3, <1>5, <1>6 DEF ConsoleInv, ConsoleTypeOK, OneTask
<1>8. OnePlace(rows, channel, <<>>, <<>>, bus.untold \ {seq}, n)
  BY DEF ConsoleInv, InOnePlace, OnePlace
<1>9. ASSUME NEW t \in DOMAIN tasks
      PROVE  OnePlace(rows, channel, tasks'[t].wire, tasks'[t].feed, bus.untold \ {seq}, n)
  <2>. DEFINE w == tasks[t].wire  f == tasks[t].feed  g == tasks'[t].feed
  <2>1. OnePlace(rows, channel, w, f, bus.untold, n)
    BY DEF ConsoleInv, InOnePlace
  <2>2. f \in Seq(Nat)
    BY <1>2 DEF StreamTasks
  <2>3. g \in {f, Offer(f, seq)} /\ tasks'[t].wire = w
    BY <1>4
  <2>. HIDE DEF w, f, g
  <2>4. seq \notin FeedNos(f) /\ FeedOnce(f)
    BY <2>1 DEF OnePlace
  <2>5. FeedOnce(g) /\ FeedNos(g) \subseteq FeedNos(f) \cup {seq}
    BY <1>2, <2>2, <2>3, <2>4, OfferedTyped
  <2>6. OnePlace(rows, channel, w, g, bus.untold \ {seq}, n)
    BY <2>1, <2>5 DEF OnePlace
  <2>. QED BY <2>3, <2>6 DEF g
<1>10. InOnePlace'
  BY <1>1, <1>3, <1>5, <1>8, <1>9 DEF InOnePlace
<1>. QED BY <1>7, <1>10 DEF ConsoleInv

\* Without the events of the task that is gone, or a new one with none.
LEMMA WithTask ==
  ASSUME ConsoleInv, NEW t \in DOMAIN tasks, NEW k \in StreamTasks, tasks' = [tasks EXCEPT ![t] = k],
         rows' \in Seq(Shown), channel' \in Seq(Shown), UNCHANGED <<server, bus, handle, link>>,
         OnePlace(rows', channel', k.wire, k.feed, bus.untold, Len(bus.topics))
  PROVE  ConsoleInv'
<1>1. /\ DOMAIN tasks \subseteq {handle} \ {0} /\ tasks \in [DOMAIN tasks -> StreamTasks]
      /\ Len(bus.topics) \in Nat
  BY DEF ConsoleInv, OneTask, ConsoleTypeOK, Buses
<1>2. DOMAIN tasks' = DOMAIN tasks /\ tasks' \in [DOMAIN tasks' -> StreamTasks] /\ tasks'[t] = k
  BY <1>1
<1>3. \A u \in DOMAIN tasks' : u = t
  BY <1>1, <1>2
<1>4. ConsoleTypeOK' /\ OneTask'
  BY <1>2 DEF ConsoleInv, ConsoleTypeOK, OneTask
<1>5. OnePlace(rows', channel', <<>>, <<>>, bus.untold, Len(bus.topics))
  BY <1>1, Fewer
<1>6. InOnePlace'
  BY <1>2, <1>3, <1>5 DEF InOnePlace
<1>. QED BY <1>4, <1>6 DEF ConsoleInv

LEMMA StreamEventsKeeps ==
  ASSUME ConsoleInv, NEW t \in DOMAIN tasks, StreamEvents(t)
  PROVE  ConsoleInv'
<1>. PICK f, w, n : f = tasks[t].feed /\ w = tasks[t].wire /\ n = Len(bus.topics)
  OBVIOUS
<1>. DEFINE seq == Head(f)
            e == [seq |-> seq, topic |-> bus.topics[seq]]
            k == [tasks[t] EXCEPT !.feed = Tail(f), !.wire = Append(w, e)]
<1>0. /\ tasks \in [DOMAIN tasks -> StreamTasks] /\ tasks[t] \in StreamTasks /\ f # <<>>
      /\ bus.topics \in Seq({"trading", "research"}) /\ n \in Nat
      /\ f \in Seq(Nat) /\ w \in Seq(Shown)
  BY DEF ConsoleInv, ConsoleTypeOK, StreamTasks, Buses, StreamEvents
<1>1. tasks' = [tasks EXCEPT ![t] = k]
  <2>1. tasks' = [tasks EXCEPT ![t].feed = Tail(f), ![t].wire = Append(w, e)]
    BY DEF StreamEvents
  <2>2. tasks' = [tasks EXCEPT ![t] = [tasks[t] EXCEPT !.feed = Tail(f), !.wire = Append(w, e)]]
    BY <1>0, <2>1 DEF StreamTasks
  <2>. QED BY <2>2
<1>2. UNCHANGED <<server, bus, handle, link, channel, rows>>
  BY DEF StreamEvents, dashboardVars
<1>3. OnePlace(rows, channel, w, f, bus.untold, n)
  BY DEF ConsoleInv, InOnePlace
<1>4. /\ Tail(f) \in Seq(Nat) /\ seq \in Nat /\ FeedNos(f) = FeedNos(Tail(f)) \cup {seq}
      /\ FeedOnce(f) => FeedOnce(Tail(f)) /\ seq \notin FeedNos(Tail(f))
  BY <1>0, TailFeed
<1>5. seq \in 1 .. n
  BY <1>3, <1>4 DEF OnePlace
<1>6. e \in Shown /\ e.seq = seq
  BY <1>0, <1>4, <1>5 DEF Shown
<1>. HIDE DEF e
<1>7. /\ Append(w, e) \in Seq(Shown) /\ Nos(Append(w, e)) = Nos(w) \cup {e.seq}
      /\ Once(w) /\ e.seq \notin Nos(w) => Once(Append(w, e))
  BY <1>0, <1>6, AppendNos
<1>8. OnePlace(rows, channel, Append(w, e), Tail(f), bus.untold, n)
  BY <1>3, <1>4, <1>6, <1>7 DEF OnePlace
<1>9. k \in StreamTasks /\ k.wire = Append(w, e) /\ k.feed = Tail(f)
  BY <1>0, <1>4, <1>7 DEF StreamTasks
<1>10. rows' \in Seq(Shown) /\ channel' \in Seq(Shown)
  BY <1>2 DEF ConsoleInv, ConsoleTypeOK
<1>. HIDE DEF k
<1>. QED BY <1>1, <1>2, <1>8, <1>9, <1>10, WithTask

LEMMA OpenKeeps ==
  ASSUME ConsoleInv, NEW t \in DOMAIN tasks, Open(t)
  PROVE  ConsoleInv'
<1>. DEFINE k == [tasks[t] EXCEPT !.open = TRUE, !.live = TRUE]
<1>0. /\ tasks \in [DOMAIN tasks -> StreamTasks] /\ tasks[t] \in StreamTasks
      /\ rows \in Seq(Shown) /\ channel \in Seq(Shown)
  BY DEF ConsoleInv, ConsoleTypeOK
<1>1. tasks' = [tasks EXCEPT ![t] = k]
  <2>1. tasks' = [tasks EXCEPT ![t] = [tasks[t] EXCEPT !.open = TRUE, !.live = TRUE]]
    BY <1>0 DEF Open, StreamTasks
  <2>. QED BY <2>1
<1>2. UNCHANGED <<server, bus, handle, link, channel, rows>>
  BY DEF Open, dashboardVars
<1>3. k \in StreamTasks /\ k.wire = tasks[t].wire /\ k.feed = tasks[t].feed
  BY <1>0 DEF StreamTasks
<1>4. OnePlace(rows, channel, tasks[t].wire, tasks[t].feed, bus.untold, Len(bus.topics))
  BY DEF ConsoleInv, InOnePlace
<1>. HIDE DEF k
<1>. QED BY <1>0, <1>1, <1>2, <1>3, <1>4, WithTask

LEMMA ReceiveKeeps ==
  ASSUME ConsoleInv, NEW t \in DOMAIN tasks, Receive(t)
  PROVE  ConsoleInv'
<1>. PICK f, w, c : f = tasks[t].feed /\ w = tasks[t].wire /\ c = channel
  OBVIOUS
<1>. DEFINE k == [tasks[t] EXCEPT !.wire = Tail(w)]
<1>0. /\ tasks \in [DOMAIN tasks -> StreamTasks] /\ tasks[t] \in StreamTasks /\ w # <<>>
      /\ f \in Seq(Nat) /\ w \in Seq(Shown) /\ c \in Seq(Shown) /\ rows \in Seq(Shown)
  BY DEF ConsoleInv, ConsoleTypeOK, StreamTasks, Receive
<1>1. tasks' = [tasks EXCEPT ![t] = k] /\ channel' = Append(c, Head(w))
  <2>1. tasks' = [tasks EXCEPT ![t] = [tasks[t] EXCEPT !.wire = Tail(w)]] /\ channel' = Append(c, Head(w))
    BY <1>0 DEF Receive, StreamTasks
  <2>. QED BY <2>1
<1>2. UNCHANGED <<server, bus, handle, link, rows>>
  BY DEF Receive, dashboardVars
<1>3. OnePlace(rows, c, w, f, bus.untold, Len(bus.topics))
  BY DEF ConsoleInv, InOnePlace
<1>. DEFINE e == Head(w)
<1>4. /\ Tail(w) \in Seq(Shown) /\ e \in Shown /\ Nos(w) = Nos(Tail(w)) \cup {e.seq}
      /\ Once(w) => Once(Tail(w)) /\ e.seq \notin Nos(Tail(w))
  BY <1>0, TailNos
<1>. HIDE DEF e
<1>5. /\ Append(c, e) \in Seq(Shown) /\ Nos(Append(c, e)) = Nos(c) \cup {e.seq}
      /\ Once(c) /\ e.seq \notin Nos(c) => Once(Append(c, e))
  BY <1>0, <1>4, AppendNos
<1>6. OnePlace(rows, Append(c, e), Tail(w), f, bus.untold, Len(bus.topics))
  BY <1>3, <1>4, <1>5 DEF OnePlace
<1>7. k \in StreamTasks /\ k.wire = Tail(w) /\ k.feed = f
  BY <1>0, <1>4 DEF StreamTasks
<1>8. channel' = Append(c, e)
  BY <1>1 DEF e
<1>. HIDE DEF k
<1>. QED BY <1>0, <1>1, <1>2, <1>5, <1>6, <1>7, <1>8, WithTask

LEMMA WithoutIs ==
  ASSUME ConsoleInv, NEW h
  PROVE  /\ DOMAIN Without(h) = DOMAIN tasks \ {h}
         /\ Without(h) \in [DOMAIN tasks \ {h} -> StreamTasks]
         /\ \A t \in DOMAIN tasks \ {h} : Without(h)[t] = tasks[t]
BY DEF Without, ConsoleInv, ConsoleTypeOK

LEMMA TaskEndsKeeps ==
  ASSUME ConsoleInv, NEW t \in DOMAIN tasks, TaskEnds(t)
  PROVE  ConsoleInv'
<1>1. tasks' = Without(t) /\ UNCHANGED <<server, bus, handle, link, channel, rows>>
  BY DEF TaskEnds, dashboardVars
<1>2. /\ DOMAIN tasks' \subseteq DOMAIN tasks /\ tasks' \in [DOMAIN tasks' -> StreamTasks]
      /\ \A u \in DOMAIN tasks' : tasks'[u] = tasks[u]
  BY <1>1, WithoutIs
<1>3. /\ bus \in Buses /\ handle \in 0 .. 3 /\ server \in [up : BOOLEAN, ws : BOOLEAN, crashes : Nat]
      /\ link \in Links
  BY DEF ConsoleInv, ConsoleTypeOK
<1>4. DOMAIN tasks \subseteq {handle} \ {0} /\ (link.phase = "starting" => handle = 0)
  BY DEF ConsoleInv, OneTask
<1>. QED BY <1>1, <1>2, <1>3, <1>4, TasksShrink

LEMMA ShutdownKeeps ==
  ASSUME ConsoleInv, Shutdown
  PROVE  ConsoleInv'
<1>1. /\ tasks' = Without(handle) /\ handle' = 0 /\ channel' = <<>>
      /\ link' = [link EXCEPT !.client = FALSE]
      /\ server' \in {server, [server EXCEPT !.up = FALSE, !.ws = FALSE]}
      /\ UNCHANGED <<bus, rows>>
  BY DEF Shutdown, dashboardVars
<1>2. /\ bus \in Buses /\ handle \in 0 .. 3 /\ server \in [up : BOOLEAN, ws : BOOLEAN, crashes : Nat]
      /\ link \in Links /\ rows \in Seq(Shown)
  BY DEF ConsoleInv, ConsoleTypeOK
<1>3. DOMAIN tasks' = {} /\ tasks' \in [DOMAIN tasks' -> StreamTasks]
  BY <1>1, WithoutIs DEF ConsoleInv, OneTask
<1>4. server' \in [up : BOOLEAN, ws : BOOLEAN, crashes : Nat]
  BY <1>1, <1>2
<1>5. link' \in Links
  BY <1>1, <1>2 DEF Links
<1>6. ConsoleTypeOK'
  BY <1>1, <1>2, <1>3, <1>4, <1>5 DEF ConsoleTypeOK
<1>7. OneTask'
  BY <1>1, <1>3 DEF OneTask
<1>8. InOnePlace'
  <2>1. OnePlace(rows, channel, <<>>, <<>>, bus.untold, Len(bus.topics))
    BY DEF ConsoleInv, InOnePlace
  <2>2. OnePlace(rows, <<>>, <<>>, <<>>, bus.untold, Len(bus.topics))
    BY <2>1, NothingThere DEF OnePlace
  <2>. QED BY <1>1, <1>3, <2>2 DEF InOnePlace
<1>. QED BY <1>6, <1>7, <1>8 DEF ConsoleInv

LEMMA DrainKeeps ==
  ASSUME ConsoleInv, Drain
  PROVE  ConsoleInv'
<1>. DEFINE list == FoldLeft(PushEvent, [rows |-> rows, ui |-> ui], channel).rows
<1>1. rows' = list /\ channel' = <<>> /\ UNCHANGED <<server, bus, tasks, handle, link>>
  BY DEF Drain
<1>2. rows \in Seq(Shown) /\ channel \in Seq(Shown)
  BY DEF ConsoleInv, ConsoleTypeOK
<1>3. Once(rows) /\ Once(channel) /\ Nos(rows) \cap Nos(channel) = {}
  BY DEF ConsoleInv, InOnePlace, OnePlace
<1>4. list \in Seq(Shown) /\ Once(list) /\ Nos(list) \subseteq Nos(rows) \cup Nos(channel)
  BY <1>2, <1>3, Drained
<1>. HIDE DEF list
<1>5. ASSUME NEW w, NEW f, OnePlace(rows, channel, w, f, bus.untold, Len(bus.topics))
      PROVE  OnePlace(list, <<>>, w, f, bus.untold, Len(bus.topics))
  BY <1>4, <1>5, NothingThere DEF OnePlace
<1>6. ConsoleTypeOK' /\ OneTask'
  BY <1>1, <1>4 DEF ConsoleInv, ConsoleTypeOK, OneTask
<1>7. InOnePlace'
  BY <1>1, <1>5 DEF ConsoleInv, InOnePlace
<1>. QED BY <1>6, <1>7 DEF ConsoleInv

\* A task is spawned when there is none, and has seen nothing.
LEMMA SpawnedKeeps ==
  ASSUME ConsoleInv, handle = 0, Spawned, link' \in Links, link'.phase # "starting",
         UNCHANGED <<server, bus, channel, rows>>
  PROVE  ConsoleInv'
<1>. DEFINE t == CHOOSE n \in 1 .. 3 : n \notin DOMAIN tasks \cup {handle}
<1>1. DOMAIN tasks = {}
  BY DEF ConsoleInv, OneTask
<1>2. t \in 1 .. 3
  <2>1. 1 \in 1 .. 3 /\ 1 \notin DOMAIN tasks \cup {handle}
    BY <1>1
  <2>. QED BY <2>1
<1>3. /\ handle' = t
      /\ tasks' = [u \in DOMAIN tasks \cup {t} |-> IF u = t THEN NewTask ELSE tasks[u]]
  BY DEF Spawned
<1>. HIDE DEF t
<1>4. DOMAIN tasks' = {t} /\ tasks'[t] = NewTask
  BY <1>1, <1>3
<1>5. NewTask \in StreamTasks /\ NewTask.wire = <<>> /\ NewTask.feed = <<>>
  BY DEF NewTask, StreamTasks
<1>6. tasks' \in [DOMAIN tasks' -> StreamTasks]
  <2>1. tasks' = [u \in {t} |-> NewTask]
    BY <1>1, <1>3
  <2>. QED BY <2>1, <1>5
<1>7. ConsoleTypeOK'
  BY <1>2, <1>3, <1>6 DEF ConsoleInv, ConsoleTypeOK
<1>8. OneTask'
  BY <1>2, <1>3, <1>4 DEF OneTask
<1>9. InOnePlace'
  BY <1>4, <1>5 DEF ConsoleInv, InOnePlace
<1>. QED BY <1>7, <1>8, <1>9 DEF ConsoleInv

LEMMA StartupKeeps ==
  ASSUME ConsoleInv, Startup
  PROVE  ConsoleInv'
<1>1. UNCHANGED <<server, bus, channel, rows>> /\ link.phase = "starting"
  BY DEF Startup, dashboardVars
<1>2. link \in Links /\ server \in [up : BOOLEAN, ws : BOOLEAN, crashes : Nat] /\ handle = 0
  BY <1>1 DEF ConsoleInv, ConsoleTypeOK, OneTask
<1>3. CASE server.up
  <2>1. link' = [link EXCEPT !.phase = "ready", !.status = "connected", !.client = TRUE] /\ Spawned
    BY <1>3 DEF Startup
  <2>2. link' \in Links /\ link'.phase = "ready"
    BY <1>2, <2>1 DEF Links
  <2>. QED BY <1>1, <1>2, <2>1, <2>2, SpawnedKeeps
<1>4. CASE ~server.up
  <2>1. link' = [link EXCEPT !.attempts = @ + 1] /\ UNCHANGED <<tasks, handle>>
    BY <1>4 DEF Startup
  <2>2. link.attempts + 1 \in Nat
    <3>1. link.attempts \in Nat
      BY <1>2 DEF Links
    <3>. QED BY <3>1
  <2>3. link' \in Links
    BY <1>2, <2>1, <2>2 DEF Links
  <2>. QED BY <1>1, <1>2, <2>1, <2>3, NothingMoved
<1>. QED BY <1>3, <1>4

LEMMA GiveUpKeeps ==
  ASSUME ConsoleInv, GiveUp
  PROVE  ConsoleInv'
<1>1. UNCHANGED <<server, bus, tasks, handle, channel, rows>> /\ link.phase = "starting"
      /\ link' = [link EXCEPT !.phase = "given up"]
  BY DEF GiveUp, dashboardVars
<1>2. link \in Links /\ server \in [up : BOOLEAN, ws : BOOLEAN, crashes : Nat]
  BY DEF ConsoleInv, ConsoleTypeOK
<1>3. link' \in Links
  BY <1>1, <1>2 DEF Links
<1>. QED BY <1>1, <1>2, <1>3, NothingMoved

LEMMA PollStatusIs ==
  ASSUME link \in Links, server \in [up : BOOLEAN, ws : BOOLEAN, crashes : Nat]
  PROVE  PollStatus \in Links /\ PollStatus.phase = link.phase
<1>1. SystemStatus \in {"connected", "disconnected"}
  BY DEF SystemStatus
<1>2. CASE link.client /\ server.up
  <2>1. PollStatus = [link EXCEPT !.status = "connected", !.ws = SystemStatus]
    BY <1>2 DEF PollStatus
  <2>. QED BY <1>1, <2>1 DEF Links
<1>3. CASE ~(link.client /\ server.up)
  <2>. DEFINE s == IF server.up THEN "connected" ELSE "disconnected"
              b == ~link.client /\ server.up
  <2>1. PollStatus = [link EXCEPT !.status = s, !.client = b]
    BY <1>3 DEF PollStatus
  <2>2. s \in {"connected", "disconnected"} /\ b \in BOOLEAN
    OBVIOUS
  <2>. HIDE DEF s, b
  <2>. QED BY <2>1, <2>2 DEF Links
<1>. QED BY <1>2, <1>3

LEMMA PollKeeps ==
  ASSUME ConsoleInv, Poll
  PROVE  ConsoleInv'
<1>1. UNCHANGED <<server, bus, channel, rows>> /\ link.phase = "ready" /\ link' = PollStatus
  BY DEF Poll, dashboardVars
<1>2. link \in Links /\ server \in [up : BOOLEAN, ws : BOOLEAN, crashes : Nat]
  BY DEF ConsoleInv, ConsoleTypeOK
<1>3. link' \in Links /\ link'.phase = "ready"
  BY <1>1, <1>2, PollStatusIs
<1>4. CASE handle = 0 /\ link'.client
  <2>1. Spawned
    BY <1>4 DEF Poll
  <2>. QED BY <1>1, <1>3, <1>4, <2>1, SpawnedKeeps
<1>5. CASE ~(handle = 0 /\ link'.client)
  <2>1. UNCHANGED <<tasks, handle>>
    BY <1>5 DEF Poll
  <2>. QED BY <1>1, <1>2, <1>3, <2>1, NothingMoved
<1>. QED BY <1>4, <1>5

LEMMA NoticeEndKeeps ==
  ASSUME ConsoleInv, NoticeEnd
  PROVE  ConsoleInv'
<1>1. /\ handle \notin DOMAIN tasks /\ handle' = 0
      /\ UNCHANGED <<server, bus, tasks, link, channel, rows>>
  BY DEF NoticeEnd, dashboardVars
<1>2. DOMAIN tasks = {}
  BY <1>1 DEF ConsoleInv, OneTask
<1>3. ConsoleTypeOK' /\ OneTask'
  BY <1>1, <1>2 DEF ConsoleInv, ConsoleTypeOK, OneTask
<1>4. InOnePlace'
  BY <1>1 DEF ConsoleInv, InOnePlace
<1>. QED BY <1>3, <1>4 DEF ConsoleInv

LEMMA ConsoleStep == ConsoleInv /\ [ConsoleNext]_consoleVars => ConsoleInv'
<1>. SUFFICES ASSUME ConsoleInv, [ConsoleNext]_consoleVars PROVE ConsoleInv'
  OBVIOUS
<1>0. link \in Links /\ server \in [up : BOOLEAN, ws : BOOLEAN, crashes : Nat]
  BY DEF ConsoleInv, ConsoleTypeOK
<1>1. CASE UNCHANGED consoleVars
  BY <1>0, <1>1, NothingMoved DEF consoleVars, dashboardVars
<1>2. CASE Server
  BY <1>2, ServerStartsKeeps, CrashKeeps, StoreKeeps, BroadcastKeeps, StreamEventsKeeps DEF Server
<1>3. CASE StreamTask
  BY <1>3, OpenKeeps, ReceiveKeeps, TaskEndsKeeps DEF StreamTask
<1>4. CASE KeyPressed
  BY <1>0, <1>4, NothingMoved DEF KeyPressed
<1>5. CASE Drain \/ NoticeEnd \/ Startup \/ GiveUp \/ Poll \/ Shutdown
  BY <1>5, DrainKeeps, NoticeEndKeeps, StartupKeeps, GiveUpKeeps, PollKeeps, ShutdownKeeps
<1>. QED BY <1>1, <1>2, <1>3, <1>4, <1>5 DEF ConsoleNext, Loop

LEMMA ConsoleInvListsOnce == ConsoleInv => EventsOnce
<1>. SUFFICES ASSUME ConsoleInv, NEW i \in DOMAIN (rows \o channel), NEW j \in DOMAIN (rows \o channel),
                     (rows \o channel)[i].seq = (rows \o channel)[j].seq
              PROVE  i = j
  BY DEF EventsOnce
<1>. PICK r, c : r = rows /\ c = channel
  OBVIOUS
<1>1. /\ r \in Seq(Shown) /\ c \in Seq(Shown) /\ Once(r) /\ Once(c) /\ Nos(r) \cap Nos(c) = {}
  BY DEF ConsoleInv, ConsoleTypeOK, InOnePlace, OnePlace
<1>2. /\ DOMAIN (r \o c) = 1 .. Len(r) + Len(c) /\ Len(r) \in Nat /\ Len(c) \in Nat
      /\ \A k \in 1 .. Len(r) : (r \o c)[k] = r[k]
      /\ \A k \in Len(r) + 1 .. Len(r) + Len(c) : (r \o c)[k] = c[k - Len(r)]
  BY <1>1
<1>3. ASSUME NEW k \in DOMAIN (r \o c), k \notin 1 .. Len(r)
      PROVE  k - Len(r) \in 1 .. Len(c) /\ (r \o c)[k] = c[k - Len(r)] /\ k \in Nat
  BY <1>2, <1>3
<1>4. CASE i \in 1 .. Len(r) /\ j \in 1 .. Len(r)
  BY <1>1, <1>2, <1>4 DEF Once
<1>5. CASE i \in 1 .. Len(r) /\ j \notin 1 .. Len(r)
  <2>1. (r \o c)[i].seq \in Nos(r) /\ (r \o c)[j].seq \in Nos(c)
    BY <1>2, <1>3, <1>5 DEF Nos
  <2>. QED BY <1>1, <2>1
<1>6. CASE i \notin 1 .. Len(r) /\ j \in 1 .. Len(r)
  <2>1. (r \o c)[j].seq \in Nos(r) /\ (r \o c)[i].seq \in Nos(c)
    BY <1>2, <1>3, <1>6 DEF Nos
  <2>. QED BY <1>1, <2>1
<1>7. CASE i \notin 1 .. Len(r) /\ j \notin 1 .. Len(r)
  <2>1. /\ i - Len(r) \in 1 .. Len(c) /\ (r \o c)[i] = c[i - Len(r)]
        /\ j - Len(r) \in 1 .. Len(c) /\ (r \o c)[j] = c[j - Len(r)]
    BY <1>3, <1>7
  <2>2. c[i - Len(r)].seq = c[j - Len(r)].seq
    BY <2>1
  <2>3. i - Len(r) = j - Len(r)
    BY <1>1, <2>1, <2>2 DEF Once
  <2>. QED BY <1>2, <1>3, <1>7, <2>3
<1>. QED BY <1>4, <1>5, <1>6, <1>7

\* crates/rara-tui/src/event_loop.rs:119-146, 213-273 and app.rs:507-566: the list never
\* shows an event twice, for every number of events, size of list, channel and wire,
\* while the stream breaks, the server crashes and tasks are spawned again.
THEOREM EventsOnceHolds == ConsoleSpec => []EventsOnce
BY ConsoleStart, ConsoleStep, ConsoleInvListsOnce, PTL DEF ConsoleSpec

-----------------------------------------------------------------------------
(* The commands of one machine. *)

\* The files that the commands of one machine share: types, and what the fields of
\* a shell mean in each state of its command.
Places ==
  {"idle", "add", "remove", "init", "force", "init accounts", "force accounts", "set",
   "wizard", "database", "backend", "accounts", "testing", "push", "saving accounts",
   "saving config", "fetched", "wasm", "module saved", "metadata"}

Lists == [AccountIds -> Nat]

ShellType ==
  [at : Places, id : AccountIds \cup Names \cup {""}, ids : Lists, stale : BOOLEAN,
   cfg : Configs, next : Places, added : Nat, version : Versions]

EntryType ==
  [wasm : {"none", "torn", "whole"}, meta : {"none", "torn", "whole"}, version : Versions]

FilesTypeOK ==
  /\ accounts \in [exists : BOOLEAN, whole : BOOLEAN, ids : Lists]
  /\ config \in [exists : BOOLEAN, whole : BOOLEAN, now : Configs, default : Configs]
  /\ dir \in [Names -> EntryType]
  /\ shell \in [Shells -> ShellType]
  /\ commands \in [started : Nat, killed : Nat, typed : BOOLEAN, crowded : BOOLEAN]
  /\ confirmed \subseteq AccountIds
  /\ disturbed \in BOOLEAN /\ overlapped \in BOOLEAN /\ ready \in BOOLEAN

\* Which id a command has, and where it goes when its save is done.
PlaceOK(s) ==
  /\ s.at = "idle" => s = Nowhere
  /\ s.at \in {"add", "remove", "testing", "push"} => s.id \in AccountIds
  /\ s.at \in {"init", "force", "init accounts", "force accounts"} => s.id = ""
  /\ s.at = "saving accounts" => s.id \in AccountIds \cup {""} /\ s.next \in {"idle", "accounts"}
  /\ s.at = "saving config" =>
       /\ s.next \in {"idle", "init accounts", "force accounts", "database", "backend"}
       /\ s.next \in {"init accounts", "force accounts"} => s.id = ""
  /\ s.at \in {"fetched", "wasm", "module saved", "metadata"} => s.id \in Names

Placed == FilesTypeOK /\ \A p \in Shells : PlaceOK(shell[p])

\* A list that is not stale says what was confirmed.
Current(s) ==
  /\ s.at \in {"add", "remove", "push"} => Ids(s.ids) = confirmed
  /\ s.at = "saving accounts" =>
       IF s.id \in Ids(s.ids) THEN Ids(s.ids) = confirmed \cup {s.id}
       ELSE s.id = "" \/ Ids(s.ids) = confirmed \ {s.id}

KeptInv ==
  /\ ~accounts.exists => accounts.whole /\ accounts.ids = NoAccounts
  /\ AccountsKept
  /\ ~disturbed => \A p \in Shells : ~shell[p].stale => Current(shell[p])

Saving == {"wasm", "module saved", "metadata"}

\* What a fetch leaves while it runs.
FetchesOf(n, places) == \E p \in Shells : shell[p].at \in places /\ shell[p].id = n
EntryOK(n) ==
  /\ dir[n].meta = "whole" => dir[n].wasm # "none"
  /\ dir[n].wasm = "whole" => dir[n].version = ApiVersion
  /\ commands.killed = 0 =>
       /\ dir[n].meta = "torn" => FetchesOf(n, {"metadata"})
       /\ dir[n].wasm = "torn" => FetchesOf(n, {"wasm"})
       /\ dir[n].wasm # "none" /\ dir[n].meta # "whole" =>
            FetchesOf(n, Saving)

FetchOK(s) ==
  s.at \in Saving =>
    dir[s.id].wasm # "none" /\ s.version = ApiVersion

FetchInv ==
  /\ \A n \in Names : EntryOK(n)
  /\ \A p \in Shells : FetchOK(shell[p])

\* No id is there twice, unless two commands have run at a time.
Single(list) == commands.crowded \/ Unique(list)

\* What a command knows that runs alone.
AloneOK(s) ==
  /\ Single(s.ids)
  /\ s.at = "testing" => s.id \notin Ids(LoadAccounts)
  /\ s.at = "push" => s.id \notin Ids(s.ids)
  /\ s.at \in {"database", "backend", "accounts", "testing", "push"} =>
       config.exists /\ LoadConfig = s.cfg
  /\ s.at = "saving accounts" /\ s.next = "accounts" => config.exists /\ LoadConfig = s.cfg
  /\ s.at = "saving config" => config.exists
  /\ s.at = "saving accounts" => accounts.exists
  /\ s.at \in {"accounts", "testing"} /\ s.added > 0 => accounts.exists
  /\ s.at \notin {"accounts", "testing", "push", "saving accounts"} => s.added = 0

Alone ==
  /\ \A p, q \in Shells : shell[p].at # "idle" /\ shell[q].at # "idle" => p = q
  /\ Single(accounts.ids)
  /\ \A p \in Shells : AloneOK(shell[p])

\* Without a typed exchange every account is at an exchange that is known.
KnownOK(s) ==
  /\ Ids(s.ids) \subseteq Supported
  /\ s.at \in {"add", "testing", "push"} => s.id \in Supported
Known ==
  /\ Ids(accounts.ids) \subseteq Supported
  /\ \A p \in Shells : KnownOK(shell[p])

SetupInv ==
  /\ ~overlapped => Alone
  /\ ~commands.typed => Known
  /\ overlapped => commands.crowded
  /\ ready => /\ ~overlapped /\ ValidButForIds /\ Single(LoadAccounts)
              /\ \A p \in Shells : shell[p].at = "idle"

FilesInv == Placed /\ KeptInv /\ FetchInv /\ SetupInv

LEMMA AllPlaces ==
  /\ "idle" \in Places /\ "add" \in Places /\ "remove" \in Places /\ "init" \in Places
  /\ "force" \in Places /\ "init accounts" \in Places /\ "force accounts" \in Places
  /\ "set" \in Places /\ "wizard" \in Places /\ "database" \in Places
  /\ "backend" \in Places /\ "accounts" \in Places /\ "testing" \in Places
  /\ "push" \in Places /\ "saving accounts" \in Places /\ "saving config" \in Places
  /\ "fetched" \in Places /\ "wasm" \in Places /\ "module saved" \in Places
  /\ "metadata" \in Places
BY DEF Places

LEMMA NowhereOK == Nowhere \in ShellType /\ NoAccounts \in Lists /\ Nowhere.at = "idle"
<1>1. Nowhere.at = "idle" /\ Nowhere.next = "idle" BY DEF Nowhere
<1>2. [url |-> FALSE, backend |-> FALSE] \in Configs BY DEF Configs
<1>3. NoAccounts \in Lists BY DEF NoAccounts, Lists
<1> QED BY <1>1, <1>2, <1>3, AllPlaces, WorkstationAssumption DEF Nowhere, ShellType

LEMMA ListOperators ==
  ASSUME NEW list \in Lists, NEW id \in AccountIds
  PROVE  /\ Push(list, id) \in Lists
         /\ Retain(list, id) \in Lists
BY DEF Push, Retain, Lists

LEMMA Loaded == ASSUME Placed PROVE LoadAccounts \in Lists /\ LoadConfig \in Configs
BY NowhereOK DEF Placed, FilesTypeOK, LoadAccounts, LoadConfig

LEMMA PlacedInit == Init => Placed
<1> SUFFICES ASSUME Init PROVE Placed OBVIOUS
<1>1. \A p \in Shells : PlaceOK(shell[p]) BY DEF Init, PlaceOK, Nowhere
<1>2. dir \in [Names -> EntryType] BY WorkstationAssumption DEF Init, EntryType
<1>3. config \in [exists : BOOLEAN, whole : BOOLEAN, now : Configs, default : Configs]
  BY DEF Init
<1>4. accounts \in [exists : BOOLEAN, whole : BOOLEAN, ids : Lists] BY NowhereOK DEF Init
<1> QED BY <1>1, <1>2, <1>3, <1>4, NowhereOK DEF Init, Placed, FilesTypeOK


-----------------------------------------------------------------------------
\* A step of p: it leaves its shell as k, and the others as they are.
Turn(p, k) ==
  /\ k \in ShellType /\ PlaceOK(k)
  /\ shell' = [shell EXCEPT ![p] = k]

Fields(k, at, id, ids, stale, cfg, next, added, version) ==
  /\ k.at = at /\ k.id = id /\ k.ids = ids /\ k.stale = stale
  /\ k.cfg = cfg /\ k.next = next /\ k.added = added /\ k.version = version

LEMMA TurnDoes ==
  ASSUME Placed, NEW p \in Shells, NEW k, Turn(p, k)
  PROVE  /\ shell' \in [Shells -> ShellType]
         /\ \A q \in Shells : PlaceOK(shell'[q])
         /\ shell'[p] = k
         /\ \A q \in Shells : q # p => shell'[q] = shell[q]
<1> HIDE DEF ShellType, PlaceOK
<1> QED BY DEF Turn, Placed, FilesTypeOK

\* What the id and the next state must be, in the state at.
Right(at, id, next) ==
  /\ at # "idle"
  /\ at \in {"add", "remove", "testing", "push"} => id \in AccountIds
  /\ at \in {"init", "force", "init accounts", "force accounts"} => id = ""
  /\ at = "saving accounts" => id \in AccountIds \cup {""} /\ next \in {"idle", "accounts"}
  /\ at = "saving config" =>
       /\ next \in {"idle", "init accounts", "force accounts", "database", "backend"}
       /\ next \in {"init accounts", "force accounts"} => id = ""
  /\ at \in {"fetched", "wasm", "module saved", "metadata"} => id \in Names

LEMMA RightPlace ==
  ASSUME NEW k, NEW at, NEW id, NEW ids, NEW stale, NEW cfg, NEW next, NEW added, NEW version,
         Fields(k, at, id, ids, stale, cfg, next, added, version), Right(at, id, next)
  PROVE  PlaceOK(k)
BY DEF Fields, Right, PlaceOK

LEMMA Walks ==
  ASSUME Placed, NEW p \in Shells,
         NEW at \in Places,
         Right(at, shell[p].id, shell[p].next),
         shell' = [shell EXCEPT ![p].at = at]
  PROVE  \E k : Turn(p, k) /\ Fields(k, at, shell[p].id, shell[p].ids, shell[p].stale, shell[p].cfg, shell[p].next, shell[p].added, shell[p].version)
<1> DEFINE k == [shell[p] EXCEPT !.at = at]
<1>1. shell[p] \in ShellType BY DEF Placed, FilesTypeOK
<1>2. k \in ShellType /\ Fields(k, at, shell[p].id, shell[p].ids, shell[p].stale, shell[p].cfg, shell[p].next, shell[p].added, shell[p].version)
  BY <1>1 DEF ShellType, Fields
<1>3. shell' = [shell EXCEPT ![p] = k] BY DEF Placed, FilesTypeOK
<1> HIDE DEF k
<1>4. PlaceOK(k) BY <1>2, RightPlace
<1> QED BY <1>2, <1>3, <1>4 DEF Turn

LEMMA Reads ==
  ASSUME Placed, NEW p \in Shells,
         NEW at \in Places, NEW id \in AccountIds \cup Names \cup {""}, NEW ids \in Lists, NEW stale \in BOOLEAN,
         Right(at, id, shell[p].next),
         shell' = [shell EXCEPT ![p].at = at, ![p].id = id, ![p].ids = ids, ![p].stale = stale]
  PROVE  \E k : Turn(p, k) /\ Fields(k, at, id, ids, stale, shell[p].cfg, shell[p].next, shell[p].added, shell[p].version)
<1> DEFINE k == [shell[p] EXCEPT !.at = at, !.id = id, !.ids = ids, !.stale = stale]
<1>1. shell[p] \in ShellType BY DEF Placed, FilesTypeOK
<1>2. k \in ShellType /\ Fields(k, at, id, ids, stale, shell[p].cfg, shell[p].next, shell[p].added, shell[p].version)
  BY <1>1 DEF ShellType, Fields
<1>3. shell' = [shell EXCEPT ![p] = k] BY DEF Placed, FilesTypeOK
<1> HIDE DEF k
<1>4. PlaceOK(k) BY <1>2, RightPlace
<1> QED BY <1>2, <1>3, <1>4 DEF Turn

LEMMA OpensAccounts ==
  ASSUME Placed, NEW p \in Shells,
         NEW at \in Places, NEW ids \in Lists, NEW next \in Places,
         Right(at, shell[p].id, next),
         shell' = [shell EXCEPT ![p].at = at, ![p].ids = ids, ![p].next = next]
  PROVE  \E k : Turn(p, k) /\ Fields(k, at, shell[p].id, ids, shell[p].stale, shell[p].cfg, next, shell[p].added, shell[p].version)
<1> DEFINE k == [shell[p] EXCEPT !.at = at, !.ids = ids, !.next = next]
<1>1. shell[p] \in ShellType BY DEF Placed, FilesTypeOK
<1>2. k \in ShellType /\ Fields(k, at, shell[p].id, ids, shell[p].stale, shell[p].cfg, next, shell[p].added, shell[p].version)
  BY <1>1 DEF ShellType, Fields
<1>3. shell' = [shell EXCEPT ![p] = k] BY DEF Placed, FilesTypeOK
<1> HIDE DEF k
<1>4. PlaceOK(k) BY <1>2, RightPlace
<1> QED BY <1>2, <1>3, <1>4 DEF Turn

LEMMA OpensConfig ==
  ASSUME Placed, NEW p \in Shells,
         NEW at \in Places, NEW cfg \in Configs, NEW next \in Places,
         Right(at, shell[p].id, next),
         shell' = [shell EXCEPT ![p].at = at, ![p].cfg = cfg, ![p].next = next]
  PROVE  \E k : Turn(p, k) /\ Fields(k, at, shell[p].id, shell[p].ids, shell[p].stale, cfg, next, shell[p].added, shell[p].version)
<1> DEFINE k == [shell[p] EXCEPT !.at = at, !.cfg = cfg, !.next = next]
<1>1. shell[p] \in ShellType BY DEF Placed, FilesTypeOK
<1>2. k \in ShellType /\ Fields(k, at, shell[p].id, shell[p].ids, shell[p].stale, cfg, next, shell[p].added, shell[p].version)
  BY <1>1 DEF ShellType, Fields
<1>3. shell' = [shell EXCEPT ![p] = k] BY DEF Placed, FilesTypeOK
<1> HIDE DEF k
<1>4. PlaceOK(k) BY <1>2, RightPlace
<1> QED BY <1>2, <1>3, <1>4 DEF Turn

LEMMA Inits ==
  ASSUME Placed, NEW p \in Shells,
         NEW at \in Places, NEW id \in AccountIds \cup Names \cup {""}, NEW stale \in BOOLEAN,
         Right(at, id, shell[p].next),
         shell' = [shell EXCEPT ![p].at = at, ![p].id = id, ![p].stale = stale]
  PROVE  \E k : Turn(p, k) /\ Fields(k, at, id, shell[p].ids, stale, shell[p].cfg, shell[p].next, shell[p].added, shell[p].version)
<1> DEFINE k == [shell[p] EXCEPT !.at = at, !.id = id, !.stale = stale]
<1>1. shell[p] \in ShellType BY DEF Placed, FilesTypeOK
<1>2. k \in ShellType /\ Fields(k, at, id, shell[p].ids, stale, shell[p].cfg, shell[p].next, shell[p].added, shell[p].version)
  BY <1>1 DEF ShellType, Fields
<1>3. shell' = [shell EXCEPT ![p] = k] BY DEF Placed, FilesTypeOK
<1> HIDE DEF k
<1>4. PlaceOK(k) BY <1>2, RightPlace
<1> QED BY <1>2, <1>3, <1>4 DEF Turn

LEMMA Sets ==
  ASSUME Placed, NEW p \in Shells,
         NEW at \in Places, NEW cfg \in Configs,
         Right(at, shell[p].id, shell[p].next),
         shell' = [shell EXCEPT ![p].at = at, ![p].cfg = cfg]
  PROVE  \E k : Turn(p, k) /\ Fields(k, at, shell[p].id, shell[p].ids, shell[p].stale, cfg, shell[p].next, shell[p].added, shell[p].version)
<1> DEFINE k == [shell[p] EXCEPT !.at = at, !.cfg = cfg]
<1>1. shell[p] \in ShellType BY DEF Placed, FilesTypeOK
<1>2. k \in ShellType /\ Fields(k, at, shell[p].id, shell[p].ids, shell[p].stale, cfg, shell[p].next, shell[p].added, shell[p].version)
  BY <1>1 DEF ShellType, Fields
<1>3. shell' = [shell EXCEPT ![p] = k] BY DEF Placed, FilesTypeOK
<1> HIDE DEF k
<1>4. PlaceOK(k) BY <1>2, RightPlace
<1> QED BY <1>2, <1>3, <1>4 DEF Turn

LEMMA Enters ==
  ASSUME Placed, NEW p \in Shells,
         NEW at \in Places, NEW added \in Nat,
         Right(at, shell[p].id, shell[p].next),
         shell' = [shell EXCEPT ![p].at = at, ![p].added = added]
  PROVE  \E k : Turn(p, k) /\ Fields(k, at, shell[p].id, shell[p].ids, shell[p].stale, shell[p].cfg, shell[p].next, added, shell[p].version)
<1> DEFINE k == [shell[p] EXCEPT !.at = at, !.added = added]
<1>1. shell[p] \in ShellType BY DEF Placed, FilesTypeOK
<1>2. k \in ShellType /\ Fields(k, at, shell[p].id, shell[p].ids, shell[p].stale, shell[p].cfg, shell[p].next, added, shell[p].version)
  BY <1>1 DEF ShellType, Fields
<1>3. shell' = [shell EXCEPT ![p] = k] BY DEF Placed, FilesTypeOK
<1> HIDE DEF k
<1>4. PlaceOK(k) BY <1>2, RightPlace
<1> QED BY <1>2, <1>3, <1>4 DEF Turn

LEMMA Reloads ==
  ASSUME Placed, NEW p \in Shells,
         NEW at \in Places, NEW ids \in Lists, NEW stale \in BOOLEAN, NEW added \in Nat,
         Right(at, shell[p].id, shell[p].next),
         shell' = [shell EXCEPT ![p].at = at, ![p].ids = ids, ![p].stale = stale, ![p].added = added]
  PROVE  \E k : Turn(p, k) /\ Fields(k, at, shell[p].id, ids, stale, shell[p].cfg, shell[p].next, added, shell[p].version)
<1> DEFINE k == [shell[p] EXCEPT !.at = at, !.ids = ids, !.stale = stale, !.added = added]
<1>1. shell[p] \in ShellType BY DEF Placed, FilesTypeOK
<1>2. k \in ShellType /\ Fields(k, at, shell[p].id, ids, stale, shell[p].cfg, shell[p].next, added, shell[p].version)
  BY <1>1 DEF ShellType, Fields
<1>3. shell' = [shell EXCEPT ![p] = k] BY DEF Placed, FilesTypeOK
<1> HIDE DEF k
<1>4. PlaceOK(k) BY <1>2, RightPlace
<1> QED BY <1>2, <1>3, <1>4 DEF Turn

LEMMA Fetches ==
  ASSUME Placed, NEW p \in Shells,
         NEW at \in Places, NEW id \in AccountIds \cup Names \cup {""}, NEW version \in Versions,
         Right(at, id, shell[p].next),
         shell' = [shell EXCEPT ![p].at = at, ![p].id = id, ![p].version = version]
  PROVE  \E k : Turn(p, k) /\ Fields(k, at, id, shell[p].ids, shell[p].stale, shell[p].cfg, shell[p].next, shell[p].added, version)
<1> DEFINE k == [shell[p] EXCEPT !.at = at, !.id = id, !.version = version]
<1>1. shell[p] \in ShellType BY DEF Placed, FilesTypeOK
<1>2. k \in ShellType /\ Fields(k, at, id, shell[p].ids, shell[p].stale, shell[p].cfg, shell[p].next, shell[p].added, version)
  BY <1>1 DEF ShellType, Fields
<1>3. shell' = [shell EXCEPT ![p] = k] BY DEF Placed, FilesTypeOK
<1> HIDE DEF k
<1>4. PlaceOK(k) BY <1>2, RightPlace
<1> QED BY <1>2, <1>3, <1>4 DEF Turn

-----------------------------------------------------------------------------
(***************************************************************************)
(* What keeps each part of the invariant, whatever the step.               *)
(***************************************************************************)
LEMMA PlacedTurn ==
  ASSUME Placed, NEW p \in Shells, NEW k, Turn(p, k),
         accounts' \in [exists : BOOLEAN, whole : BOOLEAN, ids : Lists],
         config' \in [exists : BOOLEAN, whole : BOOLEAN, now : Configs, default : Configs],
         dir' \in [Names -> EntryType],
         commands' \in [started : Nat, killed : Nat, typed : BOOLEAN, crowded : BOOLEAN],
         confirmed' \subseteq AccountIds,
         disturbed' \in BOOLEAN, overlapped' \in BOOLEAN, ready' \in BOOLEAN
  PROVE  Placed'
BY TurnDoes DEF Placed, FilesTypeOK, PlaceOK

\* The confirmed accounts: a step that touches neither the list nor the history.
LEMMA KeptTurn ==
  ASSUME Placed, KeptInv, NEW p \in Shells, NEW k, Turn(p, k),
         accounts' = accounts, confirmed' = confirmed,
         disturbed' \in BOOLEAN, ~disturbed' => ~disturbed,
         ~disturbed /\ ~k.stale => Current(k)
  PROVE  KeptInv'
<1>1. (~accounts.exists => accounts.whole /\ accounts.ids = NoAccounts)' BY DEF KeptInv
<1>2. AccountsKept' BY DEF KeptInv, AccountsKept
<1>3. ASSUME ~disturbed', NEW q \in Shells, ~shell'[q].stale PROVE Current(shell[q])'
  <2>1. Current(shell'[q])
    <3>1. CASE q = p BY <1>3, <3>1, TurnDoes
    <3>2. CASE q # p BY <1>3, <3>2, TurnDoes DEF KeptInv
    <3> QED BY <3>1, <3>2
  <2> QED BY <2>1 DEF Current
<1> QED BY <1>1, <1>2, <1>3 DEF KeptInv

\* The strategies: a step of a command that is not saving one.
LEMMA FetchKept ==
  ASSUME FetchInv, NEW p \in Shells,
         shell[p].at \notin Saving, shell'[p].at \notin Saving,
         \A q \in Shells : q # p /\ (shell[q].at \in Saving \/ shell'[q].at \in Saving)
           => shell'[q] = shell[q],
         dir' = dir, commands'.killed = commands.killed
  PROVE  FetchInv'
<1>1. ASSUME NEW n \in Names, NEW places \in SUBSET Saving, FetchesOf(n, places)
      PROVE  FetchesOf(n, places)'
  <2>1. PICK q \in Shells : shell[q].at \in places /\ shell[q].id = n BY <1>1 DEF FetchesOf
  <2>2. shell'[q] = shell[q] BY <2>1
  <2> QED BY <2>1, <2>2 DEF FetchesOf
<1>2. ASSUME NEW n \in Names PROVE EntryOK(n)'
  <2>1. /\ FetchesOf(n, {"metadata"}) => FetchesOf(n, {"metadata"})'
        /\ FetchesOf(n, {"wasm"}) => FetchesOf(n, {"wasm"})'
        /\ FetchesOf(n, Saving) => FetchesOf(n, Saving)'
    BY <1>1 DEF Saving
  <2> QED BY <2>1 DEF FetchInv, EntryOK, Saving
<1>3. ASSUME NEW q \in Shells PROVE FetchOK(shell[q])' BY DEF FetchInv, FetchOK
<1> QED BY <1>2, <1>3 DEF FetchInv

LEMMA FetchTurn ==
  ASSUME Placed, FetchInv, NEW p \in Shells, NEW k, Turn(p, k),
         shell[p].at \notin Saving, k.at \notin Saving,
         dir' = dir, commands'.killed = commands.killed
  PROVE  FetchInv'
BY TurnDoes, FetchKept

LEMMA NowhereAlone == AloneOK(Nowhere) /\ AloneOK(Nowhere)' /\ KnownOK(Nowhere)
BY DEF AloneOK, KnownOK, Nowhere, Single, Unique, NoAccounts, Ids

LEMMA NobodyReady ==
  ASSUME SetupInv, NEW p \in Shells, shell[p].at # "idle" PROVE ~ready
BY DEF SetupInv

\* The setup: a step of a command that runs.
LEMMA SetupTurn ==
  ASSUME Placed, Placed', SetupInv, NEW p \in Shells, shell[p].at # "idle",
         \A q \in Shells : q # p =>
           /\ shell'[q].at = shell[q].at /\ shell'[q].id = shell[q].id
           /\ shell'[q].ids = shell[q].ids,
         overlapped' = overlapped, commands'.typed = commands.typed,
         commands'.crowded = commands.crowded,
         ~overlapped => AloneOK(shell[p])' /\ Single(accounts'.ids),
         ~commands.typed => KnownOK(shell'[p]) /\ Ids(accounts'.ids) \subseteq Supported
  PROVE  /\ ~overlapped' => Alone'
         /\ ~commands'.typed => Known'
         /\ overlapped' => commands'.crowded
<1>1. ASSUME ~overlapped PROVE Alone'
  <2>1. \A q \in Shells : q # p => shell[q].at = "idle" BY <1>1 DEF SetupInv, Alone
  <2>2. \A q \in Shells : q # p => shell'[q].at = "idle" BY <2>1
  <2>3. \A q \in Shells : q # p => shell'[q] = Nowhere BY <2>2 DEF Placed, PlaceOK
  <2>4. \A q \in Shells : AloneOK(shell[q])'
    BY <1>1, <2>3, NowhereAlone DEF AloneOK
  <2> QED BY <1>1, <2>2, <2>4 DEF Alone, Single, Unique
<1>2. ASSUME ~commands.typed PROVE Known'
  <2>1. \A q \in Shells : KnownOK(shell'[q]) BY <1>2 DEF SetupInv, Known, KnownOK
  <2> QED BY <1>2, <2>1 DEF Known, KnownOK, Ids
<1>3. overlapped' => commands'.crowded BY DEF SetupInv
<1> QED BY <1>1, <1>2, <1>3

\* A step that changes nothing but the shell of a command that runs.
LEMMA Walked ==
  ASSUME FilesInv, NEW p \in Shells, NEW k, Turn(p, k), Same,
         shell[p].at \notin Saving \cup {"idle"}, k.at \notin Saving,
         ~disturbed /\ ~k.stale => Current(k),
         ~overlapped => AloneOK(k),
         ~commands.typed => KnownOK(k)
  PROVE  FilesInv'
<1> USE DEF FilesInv, Same
<1>1. Placed' BY PlacedTurn DEF Placed, FilesTypeOK
<1>2. KeptInv' BY KeptTurn DEF Placed, FilesTypeOK
<1>3. FetchInv' BY FetchTurn
<1>4. SetupInv'
  <2>1. AloneOK(k)' <=> AloneOK(k) BY DEF AloneOK, LoadAccounts, LoadConfig, Single, Unique, Ids
  <2>2. Single(accounts'.ids) <=> Single(accounts.ids) BY DEF Single, Unique
  <2>3. ~ready BY NobodyReady
  <2>4. \A q \in Shells : q # p => shell'[q] = shell[q] BY TurnDoes
  <2>5. shell'[p] = k BY TurnDoes
  <2>6. /\ ~overlapped => Single(accounts.ids)
        /\ ~commands.typed => Ids(accounts.ids) \subseteq Supported
    BY DEF SetupInv, Alone, Known
  <2>7. /\ ~overlapped' => Alone'
        /\ ~commands'.typed => Known'
        /\ overlapped' => commands'.crowded
    <3>1. ~overlapped => AloneOK(shell[p])' BY <2>1, <2>5 DEF AloneOK
    <3> QED BY <1>1, <2>2, <2>4, <2>5, <2>6, <3>1, SetupTurn
  <2> QED BY <2>3, <2>7 DEF SetupInv
<1> QED BY <1>1, <1>2, <1>3, <1>4

\* A command starts.
LEMMA Begun ==
  ASSUME FilesInv, NEW p \in Shells, NEW k, NEW typed \in BOOLEAN,
         StartWith(p, typed), Started, Turn(p, k),
         k.at \notin Saving, k.at # "idle",
         ~disturbed /\ ~k.stale => Current(k),
         AloneOK(k),
         ~commands.typed /\ ~typed => KnownOK(k)
  PROVE  FilesInv'
<1> USE DEF FilesInv, StartWith, Started
<1>0. /\ commands' \in [started : Nat, killed : Nat, typed : BOOLEAN, crowded : BOOLEAN]
      /\ commands'.killed = commands.killed /\ commands'.typed = (commands.typed \/ typed)
      /\ overlapped' \in BOOLEAN /\ commands'.crowded = (commands.crowded \/ overlapped')
  <2> DEFINE typing == commands.typed \/ typed
             crowding == commands.crowded \/ overlapped'
  <2>1. commands \in [started : Nat, killed : Nat, typed : BOOLEAN, crowded : BOOLEAN] BY DEF Placed, FilesTypeOK
  <2>0. overlapped' \in BOOLEAN OBVIOUS
  <2>2. typing \in BOOLEAN /\ crowding \in BOOLEAN /\ commands.started + 1 \in Nat
    BY <2>0, <2>1
  <2>3. commands' = [commands EXCEPT !.started = @ + 1, !.typed = typing,
                                       !.crowded = crowding]
    OBVIOUS
  <2> HIDE DEF typing, crowding
  <2>4. /\ commands' \in [started : Nat, killed : Nat, typed : BOOLEAN, crowded : BOOLEAN]
        /\ commands'.killed = commands.killed /\ commands'.typed = typing
        /\ commands'.crowded = crowding
    BY <2>1, <2>2, <2>3
  <2> QED BY <2>0, <2>4 DEF typing, crowding
<1>1. Placed' BY <1>0, PlacedTurn DEF Placed, FilesTypeOK
<1>2. KeptInv' BY KeptTurn DEF Placed, FilesTypeOK
<1>3. FetchInv' BY <1>0, FetchTurn DEF Saving
<1>4. SetupInv'
  <2>1. ASSUME ~overlapped' PROVE Alone'
    <3>0. \A q \in Shells : shell[q].at = "idle" BY <2>1
    <3>1. /\ \A q \in Shells : shell[q].at = "idle"
          /\ commands'.crowded = commands.crowded
      <4>1. commands.crowded \in BOOLEAN BY DEF Placed, FilesTypeOK
      <4> HIDE DEF FilesInv, StartWith, Started
      <4> QED BY <1>0, <2>1, <3>0, <4>1
    <3>2. \A q \in Shells : q # p => shell'[q].at = "idle" /\ shell'[q] = Nowhere
      <4>1. \A q \in Shells : q # p => shell'[q] = shell[q] BY TurnDoes
      <4>2. \A q \in Shells : shell[q] = Nowhere BY <3>1 DEF Placed, PlaceOK
      <4> QED BY <3>1, <4>1, <4>2
    <3>3. AloneOK(k)' BY <3>1 DEF AloneOK, LoadAccounts, LoadConfig, Single, Unique, Ids
    <3>4. ASSUME NEW q \in Shells PROVE AloneOK(shell[q])'
      <4>1. CASE q = p
        <5>1. shell'[q] = k BY <4>1, TurnDoes
        <5> QED BY <3>3, <5>1 DEF AloneOK
      <4>2. CASE q # p
        <5>1. shell'[q] = Nowhere BY <3>2, <4>2
        <5> QED BY <5>1, NowhereAlone DEF AloneOK
      <4> QED BY <4>1, <4>2
    <3>5. Single(accounts'.ids)
      <4>1. Single(accounts.ids) BY DEF SetupInv, Alone, Single
      <4> QED BY <4>1 DEF Single, Unique
    <3>6. Single(accounts.ids)' BY <3>1, <3>5 DEF Single, Unique
    <3>7. \A q, r \in Shells : shell'[q].at # "idle" /\ shell'[r].at # "idle" => q = r
      BY <3>2
    <3> QED BY <3>4, <3>6, <3>7 DEF Alone
  <2>2. ASSUME ~commands'.typed PROVE Known'
    <3>1. ~commands.typed /\ ~typed BY <1>0, <2>2
    <3>2. \A q \in Shells : KnownOK(shell'[q]) BY <3>1, TurnDoes DEF SetupInv, Known
    <3> QED BY <3>1, <3>2 DEF SetupInv, Known, KnownOK, Ids
  <2>3. overlapped' => commands'.crowded BY <1>0
  <2>4. ~ready' BY DEF StartWith
  <2> QED BY <2>1, <2>2, <2>3, <2>4 DEF SetupInv
<1> QED BY <1>1, <1>2, <1>3, <1>4

LEMMA TornList ==
  ASSUME NEW a, a = [exists |-> TRUE, whole |-> FALSE, ids |-> NoAccounts]
  PROVE  /\ a \in [exists : BOOLEAN, whole : BOOLEAN, ids : Lists]
         /\ a.exists /\ ~a.whole /\ a.ids = NoAccounts
         /\ Single(a.ids) /\ Ids(a.ids) \subseteq Supported
<1>1. a.ids = NoAccounts /\ a.exists /\ ~a.whole OBVIOUS
<1>2. \A id \in AccountIds : NoAccounts[id] = 0 BY DEF NoAccounts
<1>3. Single(NoAccounts) BY <1>2 DEF Single, Unique
<1>4. Ids(NoAccounts) \subseteq Supported BY <1>2 DEF Ids
<1>5. a \in [exists : BOOLEAN, whole : BOOLEAN, ids : Lists] BY NowhereOK
<1> QED BY <1>1, <1>3, <1>4, <1>5

\* A command that runs opens accounts.toml.
LEMMA OpenedAccounts ==
  ASSUME FilesInv, NEW p \in Shells, NEW ids \in Lists, NEW next \in {"idle", "accounts"},
         OpenAccounts(p, ids, next), shell[p].at \notin Saving \cup {"idle"},
         shell[p].id \in AccountIds \cup {""},
         ~disturbed /\ ~shell[p].stale =>
           IF shell[p].id \in Ids(ids) THEN Ids(ids) = confirmed \cup {shell[p].id}
           ELSE shell[p].id = "" \/ Ids(ids) = confirmed \ {shell[p].id},
         ~overlapped => Single(ids),
         ~overlapped /\ next = "accounts" => config.exists /\ LoadConfig = shell[p].cfg,
         ~commands.typed => Ids(ids) \subseteq Supported
  PROVE  FilesInv'
<1> USE DEF FilesInv, OpenAccounts
<1>1. PICK k : /\ Turn(p, k)
               /\ Fields(k, "saving accounts", shell[p].id, ids, shell[p].stale, shell[p].cfg,
                         next, shell[p].added, shell[p].version)
  BY OpensAccounts, AllPlaces DEF Right
<1>2. accounts' = [exists |-> TRUE, whole |-> FALSE, ids |-> NoAccounts] OBVIOUS
<1>3. /\ accounts' \in [exists : BOOLEAN, whole : BOOLEAN, ids : Lists]
      /\ accounts'.exists /\ ~accounts'.whole /\ accounts'.ids = NoAccounts
  BY <1>2, TornList
<1>4. Placed' BY <1>1, <1>3, PlacedTurn DEF Placed, FilesTypeOK
<1>5. KeptInv'
  <2>1. AccountsKept' BY <1>3 DEF AccountsKept
  <2>2. ~disturbed /\ ~k.stale => Current(k) BY <1>1 DEF Fields, Current
  <2>3. ASSUME ~disturbed, NEW q \in Shells, ~shell'[q].stale PROVE Current(shell[q])'
    <3>1. Current(shell'[q])
      <4>1. CASE q = p
        <5>1. shell'[q] = k BY <1>1, <4>1, TurnDoes
        <5> QED BY <2>2, <2>3, <5>1
      <4>2. CASE q # p BY <1>1, <2>3, <4>2, TurnDoes DEF KeptInv
      <4> QED BY <4>1, <4>2
    <3> QED BY <3>1 DEF Current
  <2> QED BY <1>3, <2>1, <2>3 DEF KeptInv
<1>6. FetchInv' BY <1>1, FetchTurn DEF Fields, Saving
<1>7. SetupInv'
  <2>1. shell'[p] = k /\ \A q \in Shells : q # p => shell'[q] = shell[q] BY <1>1, TurnDoes
  <2>2. ~overlapped => AloneOK(shell[p])'
    BY <1>1, <1>3, <2>1 DEF Fields, AloneOK, LoadConfig, Single, Unique
  <2>3. Single(accounts'.ids) /\ Ids(accounts'.ids) \subseteq Supported
    BY <1>2, TornList
  <2>4. ~commands.typed => KnownOK(shell'[p]) BY <1>1, <2>1 DEF Fields, KnownOK
  <2>5. ~ready BY NobodyReady
  <2>6. /\ ~overlapped' => Alone'
        /\ ~commands'.typed => Known'
        /\ overlapped' => commands'.crowded
    BY <1>4, <2>1, <2>2, <2>3, <2>4, SetupTurn
  <2> QED BY <2>5, <2>6 DEF SetupInv
<1> QED BY <1>4, <1>5, <1>6, <1>7

\* A command that runs opens config.toml.
LEMMA OpenedConfig ==
  ASSUME FilesInv, NEW p \in Shells, NEW cfg \in Configs,
         NEW next \in {"idle", "init accounts", "force accounts", "database", "backend"},
         OpenConfig(p, cfg, next),
         next \in {"init accounts", "force accounts"} => shell[p].id = "",
         shell[p].at \notin Saving \cup
           {"idle", "accounts", "testing", "push", "saving accounts"}
  PROVE  FilesInv'
<1> USE DEF FilesInv, OpenConfig
<1>1. PICK k : /\ Turn(p, k)
               /\ Fields(k, "saving config", shell[p].id, shell[p].ids, shell[p].stale, cfg,
                         next, shell[p].added, shell[p].version)
  BY OpensConfig, AllPlaces DEF Right
<1>3. /\ config' \in [exists : BOOLEAN, whole : BOOLEAN, now : Configs, default : Configs]
      /\ config'.exists /\ ~config'.whole
  BY DEF Placed, FilesTypeOK
<1>4. Placed' BY <1>1, <1>3, PlacedTurn DEF Placed, FilesTypeOK
<1>5. KeptInv'
  <2>1. Current(k) BY <1>1 DEF Fields, Current
  <2> QED BY <1>1, <2>1, KeptTurn DEF Placed, FilesTypeOK
<1>6. FetchInv' BY <1>1, FetchTurn DEF Fields, Saving
<1>7. SetupInv'
  <2>1. shell'[p] = k /\ \A q \in Shells : q # p => shell'[q] = shell[q] BY <1>1, TurnDoes
  <2>2. ~overlapped => AloneOK(shell[p])'
    BY <1>1, <1>3, <2>1 DEF SetupInv, Alone, Fields, AloneOK, Single, Unique
  <2>3. /\ ~overlapped => Single(accounts'.ids)
        /\ ~commands.typed => Ids(accounts'.ids) \subseteq Supported
    BY DEF SetupInv, Alone, Known, Single, Unique
  <2>4. ~commands.typed => KnownOK(shell'[p])
    BY <1>1, <2>1 DEF Fields, KnownOK, SetupInv, Known
  <2>5. ~ready BY NobodyReady
  <2>6. /\ ~overlapped' => Alone'
        /\ ~commands'.typed => Known'
        /\ overlapped' => commands'.crowded
    BY <1>4, <2>1, <2>2, <2>3, <2>4, SetupTurn
  <2> QED BY <2>5, <2>6 DEF SetupInv
<1> QED BY <1>4, <1>5, <1>6, <1>7

\* A command that runs goes on, or comes to its end.
LEMMA Went ==
  ASSUME Placed, NEW p \in Shells, NEW at \in Places, Go(p, at),
         at = "idle" \/ Right(at, shell[p].id, shell[p].next)
  PROVE  \E k : /\ Turn(p, k)
                /\ IF at = "idle" THEN k = Nowhere
                   ELSE Fields(k, at, shell[p].id, shell[p].ids, shell[p].stale, shell[p].cfg,
                               shell[p].next, shell[p].added, shell[p].version)
<1>1. CASE at = "idle"
  <2>1. Turn(p, Nowhere) BY <1>1, NowhereOK DEF Go, Then, Turn, PlaceOK
  <2> QED BY <1>1, <2>1
<1>2. CASE at # "idle"
  <2>1. shell' = [shell EXCEPT ![p].at = at] BY <1>2 DEF Go, Then
  <2> QED BY <1>2, <2>1, Walks
<1> QED BY <1>1, <1>2

LEMMA GaveUp ==
  ASSUME FilesInv, NEW p \in Shells, Go(p, "idle"), Same, shell[p].at \notin Saving \cup {"idle"}
  PROVE  FilesInv'
<1>1. Turn(p, Nowhere) BY Went, AllPlaces DEF FilesInv
<1>2. Current(Nowhere) /\ Nowhere.at \notin Saving BY DEF Current, Nowhere, Saving
<1> QED BY <1>1, <1>2, Walked, NowhereAlone

LEMMA PushedList ==
  ASSUME NEW list \in Lists, NEW id \in AccountIds
  PROVE  /\ Push(list, id) \in Lists
         /\ Ids(Push(list, id)) = Ids(list) \cup {id}
         /\ Single(list) /\ id \notin Ids(list) => Single(Push(list, id))
<1>1. Push(list, id) \in Lists BY ListOperators
<1>2. /\ Push(list, id)[id] = list[id] + 1
      /\ \A other \in AccountIds : other # id => Push(list, id)[other] = list[other]
  BY DEF Push, Lists
<1>3. \A other \in AccountIds : list[other] \in Nat BY DEF Lists
<1> QED BY <1>1, <1>2, <1>3 DEF Ids, Single, Unique

LEMMA RetainedList ==
  ASSUME NEW list \in Lists, NEW id \in AccountIds
  PROVE  /\ Retain(list, id) \in Lists
         /\ Ids(Retain(list, id)) = Ids(list) \ {id}
         /\ Single(list) => Single(Retain(list, id))
<1>1. Retain(list, id) \in Lists BY ListOperators
<1>2. /\ Retain(list, id)[id] = 0
      /\ \A other \in AccountIds : other # id => Retain(list, id)[other] = list[other]
  BY DEF Retain, Lists
<1>3. \A other \in AccountIds : list[other] \in Nat BY DEF Lists
<1> QED BY <1>1, <1>2, <1>3 DEF Ids, Single, Unique

\* What a command reads, if nobody writes.
LEMMA ReadList ==
  ASSUME FilesInv
  PROVE  /\ LoadAccounts \in Lists
         /\ ~disturbed /\ accounts.whole => Ids(LoadAccounts) = confirmed
         /\ Single(LoadAccounts)
         /\ ~commands.typed => Ids(LoadAccounts) \subseteq Supported
<1>1. \A id \in AccountIds : NoAccounts[id] = 0 BY DEF NoAccounts
<1>2. Single(NoAccounts) BY <1>1 DEF Single, Unique
<1>3. Ids(NoAccounts) \subseteq Supported BY <1>1 DEF Ids
<1>4. ~disturbed /\ accounts.whole => Ids(LoadAccounts) = confirmed
  BY DEF FilesInv, KeptInv, AccountsKept, LoadAccounts
<1>5. Single(LoadAccounts)
  <2>1. Single(accounts.ids) BY DEF FilesInv, SetupInv, Alone, Single
  <2> QED BY <1>2, <2>1 DEF LoadAccounts
<1>6. ~commands.typed => Ids(LoadAccounts) \subseteq Supported
  BY <1>3 DEF FilesInv, SetupInv, Known, LoadAccounts
<1> QED BY <1>4, <1>5, <1>6, Loaded DEF FilesInv

\* What the invariant says of one shell.
LEMMA Self ==
  ASSUME FilesInv, NEW p \in Shells
  PROVE  /\ shell[p] \in ShellType /\ PlaceOK(shell[p])
         /\ shell[p].at \in Places
         /\ shell[p].id \in AccountIds \cup Names \cup {""}
         /\ shell[p].ids \in Lists /\ shell[p].stale \in BOOLEAN /\ shell[p].cfg \in Configs
         /\ shell[p].next \in Places /\ shell[p].added \in Nat /\ shell[p].version \in Versions
         /\ ~disturbed /\ ~shell[p].stale => Current(shell[p])
         /\ ~overlapped => AloneOK(shell[p])
         /\ ~commands.typed => KnownOK(shell[p])
<1>1. shell[p] \in ShellType BY DEF FilesInv, Placed, FilesTypeOK
<1>2. /\ shell[p].at \in Places
      /\ shell[p].id \in AccountIds \cup Names \cup {""}
      /\ shell[p].ids \in Lists /\ shell[p].stale \in BOOLEAN /\ shell[p].cfg \in Configs
      /\ shell[p].next \in Places /\ shell[p].added \in Nat /\ shell[p].version \in Versions
  BY <1>1 DEF ShellType
<1>3. PlaceOK(shell[p]) BY DEF FilesInv, Placed
<1>4. ~disturbed /\ ~shell[p].stale => Current(shell[p]) BY DEF FilesInv, KeptInv
<1>5. ~overlapped => AloneOK(shell[p]) BY DEF FilesInv, SetupInv, Alone
<1>6. ~commands.typed => KnownOK(shell[p]) BY DEF FilesInv, SetupInv, Known
<1> QED BY <1>1, <1>2, <1>3, <1>4, <1>5, <1>6

LEMMA NothingYet ==
  ASSUME FilesInv, NEW p \in Shells, shell[p].at = "idle"
  PROVE  /\ shell[p].ids = NoAccounts /\ shell[p].added = 0
         /\ Single(NoAccounts) /\ Ids(NoAccounts) \subseteq Supported
<1>1. shell[p] = Nowhere BY Self DEF PlaceOK
<1>2. \A id \in AccountIds : NoAccounts[id] = 0 BY DEF NoAccounts
<1>3. Single(NoAccounts) /\ Ids(NoAccounts) \subseteq Supported BY <1>2 DEF Single, Unique, Ids
<1>4. Nowhere.ids = NoAccounts /\ Nowhere.added = 0 BY DEF Nowhere
<1> QED BY <1>1, <1>3, <1>4

-----------------------------------------------------------------------------
(***************************************************************************)
(* The commands, one lemma for each step.                                  *)
(***************************************************************************)
LEMMA AccountCommandKeeps ==
  ASSUME FilesInv, NEW p \in Shells, AccountCommand(p) PROVE FilesInv'
<1>1. PICK id \in AccountIds, at \in {"add", "remove"} :
        /\ StartWith(p, at = "add" /\ id \notin Supported)
        /\ WithAccounts(p, at, id)
  BY DEF AccountCommand
<1> DEFINE typed == at = "add" /\ id \notin Supported
<1>2. Started /\ shell[p].at = "idle" BY <1>1 DEF AccountCommand, StartWith
<1>3. (~accounts.whole) \in BOOLEAN OBVIOUS
<1>4. PICK k : /\ Turn(p, k)
               /\ Fields(k, at, id, LoadAccounts, ~accounts.whole, shell[p].cfg,
                         shell[p].next, shell[p].added, shell[p].version)
  BY <1>1, <1>3, Reads, ReadList, AllPlaces DEF WithAccounts, Right, FilesInv
<1>5. ~disturbed /\ ~k.stale => Current(k) BY <1>4, ReadList DEF Fields, Current
<1>6. AloneOK(k) BY <1>2, <1>4, ReadList, NothingYet DEF Fields, AloneOK
<1>7. ~commands.typed /\ ~typed => KnownOK(k) BY <1>4, ReadList DEF Fields, KnownOK
<1>8. k.at \notin Saving /\ k.at # "idle" BY <1>4 DEF Fields, Saving
<1>9. StartWith(p, typed) /\ typed \in BOOLEAN BY <1>1
<1> HIDE DEF typed
<1> QED BY <1>2, <1>4, <1>5, <1>6, <1>7, <1>8, <1>9, Begun

LEMMA AccountRefusedKeeps ==
  ASSUME FilesInv, NEW p \in Shells, AccountRefused(p) PROVE FilesInv'
BY GaveUp DEF AccountRefused, Saving

LEMMA AccountAddKeeps ==
  ASSUME FilesInv, NEW p \in Shells, AccountAdd(p) PROVE FilesInv'
<1> DEFINE id  == shell[p].id
           ids == Push(shell[p].ids, id)
<1>1. shell[p].at = "add" /\ id \notin Ids(shell[p].ids) /\ OpenAccounts(p, ids, "idle")
  BY DEF AccountAdd
<1>2. id \in AccountIds /\ shell[p].at \notin Saving \cup {"idle"}
  BY <1>1, Self DEF PlaceOK, Saving
<1>3. ids \in Lists /\ Ids(ids) = Ids(shell[p].ids) \cup {id} BY <1>2, Self, PushedList
<1>4. ~disturbed /\ ~shell[p].stale =>
        IF id \in Ids(ids) THEN Ids(ids) = confirmed \cup {id}
        ELSE id = "" \/ Ids(ids) = confirmed \ {id}
  BY <1>1, <1>3, Self DEF Current
<1>5. ~overlapped => Single(ids) BY <1>1, <1>2, Self, PushedList DEF AloneOK
<1>6. ~commands.typed => Ids(ids) \subseteq Supported BY <1>1, <1>3, Self DEF KnownOK
<1> HIDE DEF ids
<1> QED BY <1>1, <1>2, <1>3, <1>4, <1>5, <1>6, OpenedAccounts

LEMMA AccountRemoveKeeps ==
  ASSUME FilesInv, NEW p \in Shells, AccountRemove(p) PROVE FilesInv'
<1> DEFINE id  == shell[p].id
           ids == Retain(shell[p].ids, id)
<1>1. shell[p].at = "remove" /\ OpenAccounts(p, ids, "idle") BY DEF AccountRemove
<1>2. id \in AccountIds /\ shell[p].at \notin Saving \cup {"idle"}
  BY <1>1, Self DEF PlaceOK, Saving
<1>3. ids \in Lists /\ Ids(ids) = Ids(shell[p].ids) \ {id} BY <1>2, Self, RetainedList
<1>4. ~disturbed /\ ~shell[p].stale =>
        IF id \in Ids(ids) THEN Ids(ids) = confirmed \cup {id}
        ELSE id = "" \/ Ids(ids) = confirmed \ {id}
  BY <1>1, <1>3, Self DEF Current
<1>5. ~overlapped => Single(ids) BY <1>1, <1>2, Self, RetainedList DEF AloneOK
<1>6. ~commands.typed => Ids(ids) \subseteq Supported BY <1>1, <1>3, Self DEF KnownOK
<1> HIDE DEF ids
<1> QED BY <1>1, <1>2, <1>3, <1>4, <1>5, <1>6, OpenedAccounts

LEMMA SetupInitKeeps ==
  ASSUME FilesInv, NEW p \in Shells, SetupInit(p) PROVE FilesInv'
<1>1. PICK at \in {"init", "force"} :
        shell' = [shell EXCEPT ![p].at = at, ![p].id = "", ![p].stale = FALSE]
  BY DEF SetupInit
<1>2. StartWith(p, FALSE) /\ Started /\ shell[p].at = "idle"
  BY DEF SetupInit, Start, StartWith
<1>3. PICK k : /\ Turn(p, k)
               /\ Fields(k, at, "", shell[p].ids, FALSE, shell[p].cfg,
                         shell[p].next, shell[p].added, shell[p].version)
  BY <1>1, Inits, AllPlaces DEF Right, FilesInv
<1>4. Current(k) BY <1>3 DEF Fields, Current
<1>5. AloneOK(k) BY <1>2, <1>3, NothingYet DEF Fields, AloneOK
<1>6. KnownOK(k) BY <1>2, <1>3, NothingYet DEF Fields, KnownOK
<1>7. k.at \notin Saving /\ k.at # "idle" BY <1>3 DEF Fields, Saving
<1> QED BY <1>2, <1>3, <1>4, <1>5, <1>6, <1>7, Begun

LEMMA InitConfigKeeps ==
  ASSUME FilesInv, NEW p \in Shells, InitConfig(p) PROVE FilesInv'
<1> DEFINE next == IF shell[p].at = "force" THEN "force accounts" ELSE "init accounts"
<1>1. shell[p].at \in {"init", "force"} /\ shell[p].id = "" BY Self DEF InitConfig, PlaceOK
<1>2. CASE Go(p, next) /\ Same
  <2>1. PICK k : /\ Turn(p, k)
                 /\ Fields(k, next, shell[p].id, shell[p].ids, shell[p].stale, shell[p].cfg,
                           shell[p].next, shell[p].added, shell[p].version)
    BY <1>1, <1>2, Went, AllPlaces DEF Right, FilesInv
  <2>2. Current(k) BY <2>1 DEF Fields, Current
  <2>3. ~overlapped => AloneOK(k) BY <1>1, <2>1, Self DEF Fields, AloneOK
  <2>4. ~commands.typed => KnownOK(k) BY <1>1, <2>1, Self DEF Fields, KnownOK
  <2>5. k.at \notin Saving /\ shell[p].at \notin Saving \cup {"idle"}
    BY <1>1, <2>1 DEF Fields, Saving
  <2> QED BY <1>2, <2>1, <2>2, <2>3, <2>4, <2>5, Walked
<1>3. CASE OpenConfig(p, ConfigTemplate, next)
  <2>1. ConfigTemplate \in Configs BY DEF FilesInv, Placed, FilesTypeOK, ConfigTemplate
  <2> QED BY <1>1, <1>3, <2>1, OpenedConfig DEF Saving
<1> QED BY <1>2, <1>3 DEF InitConfig

LEMMA InitAccountsKeeps ==
  ASSUME FilesInv, NEW p \in Shells, InitAccounts(p) PROVE FilesInv'
<1>1. shell[p].at \in {"init accounts", "force accounts"} /\ shell[p].id = ""
  BY Self DEF InitAccounts, PlaceOK
<1>2. shell[p].at \notin Saving \cup {"idle"} BY <1>1 DEF Saving
<1>3. CASE Go(p, "idle") /\ Same BY <1>2, <1>3, GaveUp
<1>4. CASE OpenAccounts(p, AccountsTemplate, "idle")
  <2>1. \A id \in AccountIds : NoAccounts[id] = 0 BY DEF NoAccounts
  <2>2. Ids(NoAccounts) = {} /\ Single(NoAccounts) BY <2>1 DEF Ids, Single, Unique
  <2>3. TemplateId \in AccountIds /\ TemplateId \in Supported BY WorkstationAssumption
  <2>4. /\ AccountsTemplate \in Lists /\ Single(AccountsTemplate)
        /\ Ids(AccountsTemplate) = {TemplateId}
    BY <2>2, <2>3, NowhereOK, PushedList DEF AccountsTemplate
  <2>5. "" \notin Ids(AccountsTemplate) BY <2>3, <2>4, WorkstationAssumption
  <2> HIDE DEF AccountsTemplate
  <2> QED BY <1>1, <1>2, <1>4, <2>3, <2>4, <2>5, OpenedAccounts
<1> QED BY <1>3, <1>4 DEF InitAccounts

LEMMA ConfigSetKeeps ==
  ASSUME FilesInv, NEW p \in Shells, ConfigSet(p) PROVE FilesInv'
<1>1. PICK cfg \in Configs : shell' = [shell EXCEPT ![p].at = "set", ![p].cfg = cfg]
  BY DEF ConfigSet, Configs
<1>2. StartWith(p, FALSE) /\ Started /\ shell[p].at = "idle"
  BY DEF ConfigSet, Start, StartWith
<1>3. PICK k : /\ Turn(p, k)
               /\ Fields(k, "set", shell[p].id, shell[p].ids, shell[p].stale, cfg,
                         shell[p].next, shell[p].added, shell[p].version)
  BY <1>1, Sets, AllPlaces DEF Right, FilesInv
<1>4. Current(k) BY <1>3 DEF Fields, Current
<1>5. AloneOK(k) BY <1>2, <1>3, NothingYet DEF Fields, AloneOK
<1>6. KnownOK(k) BY <1>2, <1>3, NothingYet DEF Fields, KnownOK
<1>7. k.at \notin Saving /\ k.at # "idle" BY <1>3 DEF Fields, Saving
<1> QED BY <1>2, <1>3, <1>4, <1>5, <1>6, <1>7, Begun

LEMMA ConfigSavedKeeps ==
  ASSUME FilesInv, NEW p \in Shells, ConfigSaved(p) PROVE FilesInv'
BY Self, OpenedConfig DEF ConfigSaved, Saving

LEMMA WizardKeeps ==
  ASSUME FilesInv, NEW p \in Shells, Wizard(p) PROVE FilesInv'
<1>1. shell' = [shell EXCEPT ![p].at = "wizard", ![p].added = 0] BY DEF Wizard
<1>2. StartWith(p, FALSE) /\ Started /\ shell[p].at = "idle" BY DEF Wizard, Start, StartWith
<1>3. PICK k : /\ Turn(p, k)
               /\ Fields(k, "wizard", shell[p].id, shell[p].ids, shell[p].stale, shell[p].cfg,
                         shell[p].next, 0, shell[p].version)
  BY <1>1, Enters, AllPlaces DEF Right, FilesInv
<1>4. Current(k) BY <1>3 DEF Fields, Current
<1>5. AloneOK(k) BY <1>2, <1>3, NothingYet DEF Fields, AloneOK
<1>6. KnownOK(k) BY <1>2, <1>3, NothingYet DEF Fields, KnownOK
<1>7. k.at \notin Saving /\ k.at # "idle" BY <1>3 DEF Fields, Saving
<1> QED BY <1>2, <1>3, <1>4, <1>5, <1>6, <1>7, Begun

LEMMA LoadOrCreateConfigKeeps ==
  ASSUME FilesInv, NEW p \in Shells, LoadOrCreateConfig(p) PROVE FilesInv'
<1>1. shell[p].at = "wizard" /\ shell[p].at \notin Saving \cup {"idle"}
  BY DEF LoadOrCreateConfig, Saving
<1>2. CASE /\ config.exists /\ Same
           /\ shell' = [shell EXCEPT ![p].at = "database", ![p].cfg = LoadConfig]
  <2>1. LoadConfig \in Configs BY Loaded DEF FilesInv
  <2>2. PICK k : /\ Turn(p, k)
                 /\ Fields(k, "database", shell[p].id, shell[p].ids, shell[p].stale,
                           LoadConfig, shell[p].next, shell[p].added, shell[p].version)
    BY <1>2, <2>1, Sets, AllPlaces DEF Right, FilesInv
  <2>3. Current(k) /\ k.at \notin Saving BY <2>2 DEF Fields, Current, Saving
  <2>4. ~overlapped => AloneOK(k) BY <1>1, <1>2, <2>2, Self DEF Fields, AloneOK
  <2>5. ~commands.typed => KnownOK(k) BY <1>1, <2>2, Self DEF Fields, KnownOK
  <2> QED BY <1>1, <1>2, <2>2, <2>3, <2>4, <2>5, Walked
<1>3. CASE OpenConfig(p, config.default, "database")
  <2>1. config.default \in Configs BY DEF FilesInv, Placed, FilesTypeOK
  <2> QED BY <1>1, <1>3, <2>1, OpenedConfig
<1> QED BY <1>2, <1>3 DEF LoadOrCreateConfig

LEMMA StepDatabaseKeeps ==
  ASSUME FilesInv, NEW p \in Shells, StepDatabase(p) PROVE FilesInv'
<1>1. shell[p].at = "database" /\ shell[p].at \notin Saving \cup {"idle"}
  BY DEF StepDatabase, Saving
<1>2. CASE Go(p, "backend") /\ Same
  <2>1. PICK k : /\ Turn(p, k)
                 /\ Fields(k, "backend", shell[p].id, shell[p].ids, shell[p].stale,
                           shell[p].cfg, shell[p].next, shell[p].added, shell[p].version)
    BY <1>1, <1>2, Went, AllPlaces DEF Right, FilesInv
  <2>2. Current(k) /\ k.at \notin Saving BY <2>1 DEF Fields, Current, Saving
  <2>3. ~overlapped => AloneOK(k) BY <1>1, <2>1, Self DEF Fields, AloneOK
  <2>4. ~commands.typed => KnownOK(k) BY <1>1, <2>1, Self DEF Fields, KnownOK
  <2> QED BY <1>1, <1>2, <2>1, <2>2, <2>3, <2>4, Walked
<1>3. CASE \E url \in BOOLEAN : OpenConfig(p, [shell[p].cfg EXCEPT !.url = url], "database")
  <2>1. PICK url \in BOOLEAN : OpenConfig(p, [shell[p].cfg EXCEPT !.url = url], "database")
    BY <1>3
  <2>2. [shell[p].cfg EXCEPT !.url = url] \in Configs BY Self DEF Configs
  <2> QED BY <1>1, <2>1, <2>2, OpenedConfig
<1> QED BY <1>2, <1>3 DEF StepDatabase

LEMMA StepLlmBackendKeeps ==
  ASSUME FilesInv, NEW p \in Shells, StepLlmBackend(p) PROVE FilesInv'
<1>1. shell[p].at = "backend" /\ shell[p].at \notin Saving \cup {"idle"}
  BY DEF StepLlmBackend, Saving
<1>2. CASE Go(p, "accounts") /\ Same
  <2>1. PICK k : /\ Turn(p, k)
                 /\ Fields(k, "accounts", shell[p].id, shell[p].ids, shell[p].stale,
                           shell[p].cfg, shell[p].next, shell[p].added, shell[p].version)
    BY <1>1, <1>2, Went, AllPlaces DEF Right, FilesInv
  <2>2. Current(k) /\ k.at \notin Saving BY <2>1 DEF Fields, Current, Saving
  <2>0. ~overlapped => /\ Single(shell[p].ids) /\ shell[p].added = 0
                       /\ config.exists /\ LoadConfig = shell[p].cfg
    BY <1>1, Self DEF AloneOK
  <2>3. ~overlapped => AloneOK(k) BY <2>0, <2>1 DEF Fields, AloneOK
  <2>4. ~commands.typed => KnownOK(k) BY <1>1, <2>1, Self DEF Fields, KnownOK
  <2> QED BY <1>1, <1>2, <2>1, <2>2, <2>3, <2>4, Walked
<1>3. CASE \E found \in BOOLEAN :
             OpenConfig(p, [shell[p].cfg EXCEPT !.backend = found], "backend")
  <2>1. PICK found \in BOOLEAN :
          OpenConfig(p, [shell[p].cfg EXCEPT !.backend = found], "backend")
    BY <1>3
  <2>2. [shell[p].cfg EXCEPT !.backend = found] \in Configs BY Self DEF Configs
  <2> QED BY <1>1, <2>1, <2>2, OpenedConfig
<1> QED BY <1>2, <1>3 DEF StepLlmBackend

LEMMA AddAccountInteractiveKeeps ==
  ASSUME FilesInv, NEW p \in Shells, AddAccountInteractive(p) PROVE FilesInv'
<1>1. shell[p].at = "accounts" /\ shell[p].at \notin Saving \cup {"idle"} /\ Same
  BY DEF AddAccountInteractive, Saving
<1>2. PICK id \in Supported \ Ids(LoadAccounts) : WithAccounts(p, "testing", id)
  BY DEF AddAccountInteractive, Offered
<1>3. id \in AccountIds /\ (~accounts.whole) \in BOOLEAN BY WorkstationAssumption
<1>4. PICK k : /\ Turn(p, k)
               /\ Fields(k, "testing", id, LoadAccounts, ~accounts.whole, shell[p].cfg,
                         shell[p].next, shell[p].added, shell[p].version)
  BY <1>2, <1>3, Reads, ReadList, AllPlaces DEF WithAccounts, Right, FilesInv
<1>5. Current(k) /\ k.at \notin Saving BY <1>4 DEF Fields, Current, Saving
<1>6. ~overlapped => AloneOK(k) BY <1>1, <1>2, <1>4, ReadList, Self DEF Fields, AloneOK
<1>7. ~commands.typed => KnownOK(k) BY <1>2, <1>4, ReadList DEF Fields, KnownOK
<1> QED BY <1>1, <1>4, <1>5, <1>6, <1>7, Walked

LEMMA NotSavedKeeps ==
  ASSUME FilesInv, NEW p \in Shells, NotSaved(p) PROVE FilesInv'
<1>1. shell[p].at = "testing" /\ shell[p].at \notin Saving \cup {"idle"} /\ Same
  BY DEF NotSaved, Saving
<1>2. PICK k : /\ Turn(p, k)
               /\ Fields(k, "accounts", shell[p].id, shell[p].ids, shell[p].stale,
                         shell[p].cfg, shell[p].next, shell[p].added, shell[p].version)
  BY Went, AllPlaces DEF NotSaved, Right, FilesInv
<1>3. Current(k) /\ k.at \notin Saving BY <1>2 DEF Fields, Current, Saving
<1>4. ~overlapped => AloneOK(k) BY <1>1, <1>2, Self DEF Fields, AloneOK
<1>5. ~commands.typed => KnownOK(k) BY <1>1, <1>2, Self DEF Fields, KnownOK
<1> QED BY <1>1, <1>2, <1>3, <1>4, <1>5, Walked

LEMMA ReloadKeeps ==
  ASSUME FilesInv, NEW p \in Shells, Reload(p) PROVE FilesInv'
<1>1. shell[p].at = "testing" /\ shell[p].at \notin Saving \cup {"idle"} /\ Same
  BY DEF Reload, Saving
<1>2. /\ shell[p].id \in AccountIds /\ shell[p].added + 1 \in Nat
      /\ (~accounts.whole) \in BOOLEAN
  <2>1. shell[p].id \in AccountIds BY <1>1, Self DEF PlaceOK
  <2>2. shell[p].added + 1 \in Nat
    <3>1. shell[p].added \in Nat BY Self
    <3> QED BY <3>1
  <2> QED BY <2>1, <2>2
<1>3. PICK k : /\ Turn(p, k)
               /\ Fields(k, "push", shell[p].id, LoadAccounts, ~accounts.whole, shell[p].cfg,
                         shell[p].next, shell[p].added + 1, shell[p].version)
  <2>1. shell' = [shell EXCEPT ![p].at = "push", ![p].ids = LoadAccounts,
                               ![p].stale = ~accounts.whole, ![p].added = shell[p].added + 1]
    BY DEF Reload, FilesInv, Placed, FilesTypeOK
  <2> QED BY <1>2, <2>1, Reloads, ReadList, AllPlaces DEF Right, FilesInv
<1>4. ~disturbed /\ ~k.stale => Current(k) BY <1>3, ReadList DEF Fields, Current
<1>5. ~overlapped => AloneOK(k) BY <1>1, <1>3, ReadList, Self DEF Fields, AloneOK
<1>6. ~commands.typed => KnownOK(k) BY <1>1, <1>3, ReadList, Self DEF Fields, KnownOK
<1>7. k.at \notin Saving BY <1>3 DEF Fields, Saving
<1> QED BY <1>1, <1>3, <1>4, <1>5, <1>6, <1>7, Walked

LEMMA PushAccountKeeps ==
  ASSUME FilesInv, NEW p \in Shells, PushAccount(p) PROVE FilesInv'
<1> DEFINE id  == shell[p].id
           ids == Push(shell[p].ids, id)
<1>1. shell[p].at = "push" /\ OpenAccounts(p, ids, "accounts") BY DEF PushAccount
<1>2. id \in AccountIds /\ shell[p].at \notin Saving \cup {"idle"}
  BY <1>1, Self DEF PlaceOK, Saving
<1>3. ids \in Lists /\ Ids(ids) = Ids(shell[p].ids) \cup {id} BY <1>2, Self, PushedList
<1>4. ~disturbed /\ ~shell[p].stale =>
        IF id \in Ids(ids) THEN Ids(ids) = confirmed \cup {id}
        ELSE id = "" \/ Ids(ids) = confirmed \ {id}
  BY <1>1, <1>3, Self DEF Current
<1>5. ~overlapped => Single(ids) BY <1>1, <1>2, Self, PushedList DEF AloneOK
<1>6. ~commands.typed => Ids(ids) \subseteq Supported BY <1>1, <1>3, Self DEF KnownOK
<1>7. ~overlapped => config.exists /\ LoadConfig = shell[p].cfg BY <1>1, Self DEF AloneOK
<1> HIDE DEF ids
<1> QED BY <1>1, <1>2, <1>3, <1>4, <1>5, <1>6, <1>7, OpenedAccounts

LEMMA StrategyFetchKeeps ==
  ASSUME FilesInv, NEW p \in Shells, StrategyFetch(p) PROVE FilesInv'
<1>1. PICK name \in Names, version \in Versions :
        shell' = [shell EXCEPT ![p].at = "fetched", ![p].id = name, ![p].version = version]
  BY DEF StrategyFetch
<1>2. StartWith(p, FALSE) /\ Started /\ shell[p].at = "idle"
  BY DEF StrategyFetch, Start, StartWith
<1>3. PICK k : /\ Turn(p, k)
               /\ Fields(k, "fetched", name, shell[p].ids, shell[p].stale, shell[p].cfg,
                         shell[p].next, shell[p].added, version)
  BY <1>1, Fetches, AllPlaces DEF Right, FilesInv
<1>4. Current(k) BY <1>3 DEF Fields, Current
<1>5. AloneOK(k) BY <1>2, <1>3, NothingYet DEF Fields, AloneOK
<1>6. KnownOK(k) BY <1>2, <1>3, NothingYet DEF Fields, KnownOK
<1>7. k.at \notin Saving /\ k.at # "idle" BY <1>3 DEF Fields, Saving
<1> QED BY <1>2, <1>3, <1>4, <1>5, <1>6, <1>7, Begun

LEMMA FetchFailsKeeps ==
  ASSUME FilesInv, NEW p \in Shells, FetchFails(p) PROVE FilesInv'
BY GaveUp DEF FetchFails, Saving

LEMMA SaveConfigKeeps ==
  ASSUME FilesInv, NEW p \in Shells, SaveConfig(p) PROVE FilesInv'
<1> USE DEF FilesInv, SaveConfig
<1> DEFINE next == shell[p].next
<1>1. /\ next \in {"idle", "init accounts", "force accounts", "database", "backend"}
      /\ next \in {"init accounts", "force accounts"} => shell[p].id = ""
  BY Self DEF PlaceOK
<1>2. PICK k : /\ Turn(p, k)
               /\ IF next = "idle" THEN k = Nowhere
                  ELSE Fields(k, next, shell[p].id, shell[p].ids, shell[p].stale,
                              shell[p].cfg, next, shell[p].added, shell[p].version)
  <2> HIDE DEF next
  <2>1. next \in Places /\ Go(p, next) BY <1>1, AllPlaces DEF next
  <2> QED BY <1>1, <2>1, Went DEF Right, next
<1>3. /\ config' \in [exists : BOOLEAN, whole : BOOLEAN, now : Configs, default : Configs]
      /\ config'.exists = config.exists /\ config'.whole /\ config'.now = shell[p].cfg
  BY Self DEF Placed, FilesTypeOK
<1>4. Placed' BY <1>2, <1>3, PlacedTurn DEF Placed, FilesTypeOK
<1>5. k.at \notin Saving /\ Current(k)
  <2>1. k.at \in {"idle", "init accounts", "force accounts", "database", "backend"}
    BY <1>1, <1>2, NowhereOK DEF Fields
  <2> QED BY <2>1 DEF Saving, Current
<1>6. KeptInv' BY <1>2, <1>5, KeptTurn DEF Placed, FilesTypeOK
<1>7. FetchInv' BY <1>2, <1>5, FetchTurn DEF Saving
<1>8. SetupInv'
  <2>1. shell'[p] = k /\ \A q \in Shells : q # p => shell'[q] = shell[q] BY <1>2, TurnDoes
  <2>2. ~overlapped => /\ config.exists /\ Single(shell[p].ids) /\ shell[p].added = 0
    BY Self DEF AloneOK
  <2>3. ~overlapped => AloneOK(shell[p])'
    <3>1. CASE next = "idle" BY <1>2, <2>1, <3>1, NowhereAlone DEF AloneOK
    <3>2. CASE next # "idle"
      <4>1. config.exists => LoadConfig' = shell[p].cfg BY <1>3 DEF LoadConfig
      <4> QED BY <1>1, <1>2, <1>3, <2>1, <2>2, <3>2, <4>1 DEF Fields, AloneOK, Single, Unique
    <3> QED BY <3>1, <3>2
  <2>4. ~commands.typed => KnownOK(shell'[p])
    BY <1>1, <1>2, <2>1, Self, NowhereAlone DEF Fields, KnownOK
  <2>5. /\ ~overlapped => Single(accounts'.ids)
        /\ ~commands.typed => Ids(accounts'.ids) \subseteq Supported
    BY DEF SetupInv, Alone, Known, Single, Unique
  <2>6. ~ready BY NobodyReady
  <2>7. /\ ~overlapped' => Alone'
        /\ ~commands'.typed => Known'
        /\ overlapped' => commands'.crowded
    BY <1>4, <2>1, <2>3, <2>4, <2>5, SetupTurn
  <2> QED BY <2>6, <2>7 DEF SetupInv
<1> QED BY <1>4, <1>6, <1>7, <1>8

LEMMA PrintSummaryKeeps ==
  ASSUME FilesInv, NEW p \in Shells, PrintSummary(p) PROVE FilesInv'
<1> USE DEF FilesInv
<1>0. /\ shell[p].at = "accounts" /\ Go(p, "idle") /\ ready' = (Complete(p) /\ ~overlapped)
      /\ UNCHANGED <<accounts, config, dir, commands, confirmed, disturbed, overlapped>>
  BY DEF PrintSummary
<1>1. Turn(p, Nowhere) BY <1>0, Went, AllPlaces
<1>2. Placed' BY <1>0, <1>1, PlacedTurn DEF Placed, FilesTypeOK
<1>3. Current(Nowhere) /\ Nowhere.at \notin Saving BY DEF Current, Nowhere, Saving
<1>4. KeptInv' BY <1>0, <1>1, <1>3, KeptTurn DEF Placed, FilesTypeOK
<1>5. FetchInv' BY <1>0, <1>1, <1>3, FetchTurn DEF Saving
<1>6. SetupInv'
  <2>1. shell'[p] = Nowhere /\ \A q \in Shells : q # p => shell'[q] = shell[q]
    BY <1>1, TurnDoes
  <2>2. AloneOK(shell[p])' /\ KnownOK(shell'[p]) BY <2>1, NowhereAlone DEF AloneOK
  <2>3. /\ ~overlapped => Single(accounts'.ids)
        /\ ~commands.typed => Ids(accounts'.ids) \subseteq Supported
    BY <1>0 DEF SetupInv, Alone, Known, Single, Unique
  <2>4. /\ ~overlapped' => Alone'
        /\ ~commands'.typed => Known'
        /\ overlapped' => commands'.crowded
    BY <1>0, <1>2, <2>1, <2>2, <2>3, SetupTurn
  <2>5. ASSUME ready' 
        PROVE  /\ ~overlapped' /\ ValidButForIds' /\ Single(LoadAccounts)'
               /\ \A q \in Shells : shell'[q].at = "idle"
    <3>1. ~overlapped /\ Complete(p) BY <1>0, <2>5
    <3>2. AloneOK(shell[p]) BY <3>1, Self
    <3>3. config.exists /\ LoadConfig = shell[p].cfg /\ accounts.exists
      BY <1>0, <3>1, <3>2 DEF AloneOK, Complete
    <3>4. ValidButForIds /\ Single(LoadAccounts)
      BY <3>1, <3>3, ReadList DEF ValidButForIds, Complete
    <3>5. ValidButForIds' /\ Single(LoadAccounts)'
      BY <1>0, <3>4 DEF ValidButForIds, LoadConfig, LoadAccounts, Single, Unique
    <3>6. \A q \in Shells : q # p => shell[q].at = "idle"
      BY <1>0, <3>1 DEF SetupInv, Alone
    <3> QED BY <1>0, <2>1, <3>1, <3>5, <3>6, NowhereOK
  <2> QED BY <2>4, <2>5 DEF SetupInv
<1> QED BY <1>2, <1>4, <1>5, <1>6

LEMMA SaveAccountsKeeps ==
  ASSUME FilesInv, NEW p \in Shells, SaveAccounts(p) PROVE FilesInv'
<1> DEFINE s == shell[p]
           Aging == {"add", "remove", "push", "saving accounts"}
           Rest(q) == IF shell[q].at \in Aging THEN [shell[q] EXCEPT !.stale = TRUE]
                      ELSE shell[q]
<1>0. /\ s.at = "saving accounts" /\ s.next \in {"idle", "accounts"}
      /\ s.id \in AccountIds \cup {""}
  BY Self DEF SaveAccounts, PlaceOK
<1>1. PICK k : /\ k \in ShellType /\ PlaceOK(k)
               /\ IF s.next = "idle" THEN k = Nowhere
                  ELSE Fields(k, "accounts", s.id, s.ids, s.stale, s.cfg, s.next, s.added,
                              s.version)
               /\ Then(shell, p, s.next) = [shell EXCEPT ![p] = k]
  <2>1. CASE s.next = "idle"
    <3>1. Then(shell, p, s.next) = [shell EXCEPT ![p] = Nowhere] BY <2>1 DEF Then
    <3>2. PlaceOK(Nowhere) BY DEF PlaceOK, Nowhere
    <3> QED BY <2>1, <3>1, <3>2, NowhereOK
  <2>2. CASE s.next = "accounts"
    <3> DEFINE k == [s EXCEPT !.at = "accounts"]
    <3>1. s \in ShellType BY Self
    <3>2. /\ k \in ShellType
          /\ Fields(k, "accounts", s.id, s.ids, s.stale, s.cfg, s.next, s.added, s.version)
      <4> HIDE DEF s
      <4> QED BY <3>1, AllPlaces DEF ShellType, Fields
    <3>4. Then(shell, p, s.next) = [shell EXCEPT ![p] = k]
      BY <2>2 DEF Then, FilesInv, Placed, FilesTypeOK
    <3> HIDE DEF k
    <3>3. PlaceOK(k)
      <4>1. Right("accounts", s.id, s.next) BY DEF Right
      <4> QED BY <3>2, <4>1, RightPlace
    <3> QED BY <2>2, <3>2, <3>3, <3>4
  <2> QED BY <1>0, <2>1, <2>2
<1>2. shell' = [q \in Shells |-> IF q = p THEN k ELSE Rest(q)]
  <2>1. shell' = Aged(p, Then(shell, p, s.next)) BY DEF SaveAccounts
  <2>2. shell' = [q \in Shells |->
                    IF q # p /\ [shell EXCEPT ![p] = k][q].at \in Aging
                    THEN [[shell EXCEPT ![p] = k][q] EXCEPT !.stale = TRUE]
                    ELSE [shell EXCEPT ![p] = k][q]]
    BY <1>1, <2>1 DEF Aged
  <2>3. shell \in [Shells -> ShellType] BY DEF FilesInv, Placed, FilesTypeOK
  <2>4. \A q \in Shells : [shell EXCEPT ![p] = k][q] = IF q = p THEN k ELSE shell[q]
    BY <2>3
  <2>5. ASSUME NEW q \in Shells
        PROVE  (IF q # p /\ [shell EXCEPT ![p] = k][q].at \in Aging
                THEN [[shell EXCEPT ![p] = k][q] EXCEPT !.stale = TRUE]
                ELSE [shell EXCEPT ![p] = k][q])
               = IF q = p THEN k ELSE Rest(q)
    <3>1. CASE q = p BY <2>4, <3>1
    <3>2. CASE q # p
      <4>1. [shell EXCEPT ![p] = k][q] = shell[q] BY <2>4, <3>2
      <4> QED BY <3>2, <4>1
    <3> QED BY <3>1, <3>2
  <2> QED BY <2>2, <2>5
<1>3. ASSUME NEW q \in Shells
      PROVE  /\ Rest(q) \in ShellType /\ PlaceOK(Rest(q))
             /\ Fields(Rest(q), shell[q].at, shell[q].id, shell[q].ids,
                       shell[q].stale \/ shell[q].at \in Aging,
                       shell[q].cfg, shell[q].next, shell[q].added, shell[q].version)
             /\ shell[q].at \notin Aging => Rest(q) = shell[q]
  <2>1. shell[q] \in ShellType /\ PlaceOK(shell[q]) BY Self
  <2>2. CASE shell[q].at \in Aging
    <3>1. Rest(q) = [shell[q] EXCEPT !.stale = TRUE] BY <2>2
    <3> HIDE DEF Rest, Aging
    <3>2. /\ Rest(q) \in ShellType
          /\ Fields(Rest(q), shell[q].at, shell[q].id, shell[q].ids, TRUE,
                    shell[q].cfg, shell[q].next, shell[q].added, shell[q].version)
      BY <2>1, <3>1 DEF ShellType, Fields
    <3>3. shell[q].at # "idle" BY <2>2 DEF Aging
    <3>4. PlaceOK(Rest(q)) BY <2>1, <3>2, <3>3 DEF PlaceOK, Fields
    <3> QED BY <2>2, <3>2, <3>4 DEF Fields
  <2>3. CASE shell[q].at \notin Aging
    <3>1. Rest(q) = shell[q] BY <2>3
    <3> HIDE DEF Rest, Aging
    <3>2. (shell[q].stale \/ shell[q].at \in Aging) = shell[q].stale BY <2>3, Self
    <3> QED BY <2>1, <2>3, <3>1, <3>2 DEF Fields
  <2> QED BY <2>2, <2>3
<1> HIDE DEF Rest
<1>4. shell'[p] = k /\ \A q \in Shells : q # p => shell'[q] = Rest(q) BY <1>2
<1>5. /\ UNCHANGED <<config, dir, commands, overlapped, ready>>
      /\ accounts' = [exists |-> TRUE, whole |-> TRUE, ids |-> s.ids]
      /\ confirmed' = IF s.id \in Ids(s.ids) THEN confirmed \cup {s.id}
                      ELSE IF s.id = "" THEN Ids(s.ids) ELSE confirmed \ {s.id}
      /\ disturbed' = (disturbed \/ s.stale)
  BY DEF SaveAccounts
<1>6. s.ids \in Lists /\ s.stale \in BOOLEAN BY Self
<1>7. /\ accounts' \in [exists : BOOLEAN, whole : BOOLEAN, ids : Lists]
      /\ accounts'.exists /\ accounts'.whole /\ accounts'.ids = s.ids
  <2>1. [exists |-> TRUE, whole |-> TRUE, ids |-> s.ids]
          \in [exists : BOOLEAN, whole : BOOLEAN, ids : Lists]
    BY <1>6
  <2> QED BY <1>5, <2>1
<1>8. Placed'
  <2>1. shell' \in [Shells -> ShellType] /\ \A q \in Shells : PlaceOK(shell'[q])
    BY <1>1, <1>2, <1>3, <1>4
  <2>2. confirmed' \subseteq AccountIds
    BY <1>0, <1>5 DEF Ids, FilesInv, Placed, FilesTypeOK
  <2>3. disturbed' \in BOOLEAN BY <1>5
  <2> QED BY <1>5, <1>7, <2>1, <2>2, <2>3 DEF FilesInv, Placed, FilesTypeOK, PlaceOK
<1> HIDE DEF s
<1>9. KeptInv'
  <2>1. ASSUME ~disturbed' PROVE Ids(s.ids) = confirmed'
    <3>1. ~disturbed /\ ~s.stale BY <1>5, <2>1
    <3>2. Current(s) BY <3>1, Self DEF s
    <3> QED BY <1>0, <1>5, <3>2 DEF Current
  <2>2. AccountsKept' BY <1>7, <2>1 DEF AccountsKept
  <2>3. ASSUME NEW q \in Shells, ~shell'[q].stale PROVE Current(shell[q])'
    <3>1. CASE q = p
      <4>1. shell'[q].at \in {"idle", "accounts"}
        BY <1>0, <1>1, <1>4, <3>1, NowhereOK DEF Fields
      <4> QED BY <4>1 DEF Current
    <3>2. CASE q # p
      <4>1. shell'[q].at \notin Aging BY <1>3, <1>4, <2>3, <3>2 DEF Fields
      <4> QED BY <4>1 DEF Current
    <3> QED BY <3>1, <3>2
  <2> QED BY <1>7, <2>2, <2>3 DEF KeptInv
<1>10. FetchInv'
  <2>1. shell[p].at \notin Saving /\ shell'[p].at \notin Saving
    BY <1>0, <1>1, <1>4, NowhereOK DEF Fields, Saving, s
  <2>2. \A q \in Shells : q # p /\ (shell[q].at \in Saving \/ shell'[q].at \in Saving)
           => shell'[q] = shell[q]
    BY <1>3, <1>4 DEF Fields, Saving
  <2> QED BY <1>5, <2>1, <2>2, FetchKept DEF FilesInv
<1>11. SetupInv'
  <2>1. \A q \in Shells : q # p =>
          /\ shell'[q].at = shell[q].at /\ shell'[q].id = shell[q].id
          /\ shell'[q].ids = shell[q].ids
    <3>1. \A q \in Shells : /\ Rest(q).at = shell[q].at /\ Rest(q).id = shell[q].id
                            /\ Rest(q).ids = shell[q].ids
      BY <1>3 DEF Fields
    <3> QED BY <1>4, <3>1
  <2>2. shell[p].at # "idle" BY <1>0 DEF s
  <2>3. ~ready BY <2>2, NobodyReady DEF FilesInv
  <2>4. ASSUME ~overlapped PROVE AloneOK(shell[p])' /\ Single(accounts'.ids)
    <3>1. AloneOK(s) BY <2>4, Self DEF s
    <3>2. Single(accounts'.ids) BY <1>7, <3>1 DEF AloneOK, Single, Unique
    <3>3. CASE s.next = "idle"
      <4>1. shell'[p] = Nowhere BY <1>1, <1>4, <3>3
      <4> QED BY <3>2, <4>1, NowhereAlone DEF AloneOK
    <3>4. CASE s.next = "accounts"
      <4>1. config.exists /\ LoadConfig = s.cfg /\ Single(s.ids)
        BY <1>0, <3>1, <3>4 DEF AloneOK
      <4>2. LoadConfig' = LoadConfig BY <1>5 DEF LoadConfig
      <4>3. Fields(k, "accounts", s.id, s.ids, s.stale, s.cfg, s.next, s.added, s.version)
        BY <1>1, <3>4
      <4> QED BY <1>4, <1>5, <1>7, <4>1, <4>2, <4>3 DEF Fields, AloneOK, Single, Unique
    <3> QED BY <1>0, <3>2, <3>3, <3>4
  <2>5. ASSUME ~commands.typed PROVE KnownOK(shell'[p]) /\ Ids(accounts'.ids) \subseteq Supported
    <3>1. KnownOK(s) BY <2>5, Self DEF s
    <3>2. CASE s.next = "idle" BY <1>1, <1>4, <1>7, <3>1, <3>2, NowhereAlone DEF KnownOK
    <3>3. CASE s.next = "accounts"
      <4>1. Fields(k, "accounts", s.id, s.ids, s.stale, s.cfg, s.next, s.added, s.version)
        BY <1>1, <3>3
      <4> QED BY <1>4, <1>7, <3>1, <4>1 DEF Fields, KnownOK
    <3> QED BY <1>0, <3>2, <3>3
  <2>6. /\ ~overlapped' => Alone'
        /\ ~commands'.typed => Known'
        /\ overlapped' => commands'.crowded
    BY <1>5, <1>8, <2>1, <2>2, <2>4, <2>5, SetupTurn DEF FilesInv
  <2> QED BY <1>5, <2>3, <2>6 DEF SetupInv
<1> QED BY <1>8, <1>9, <1>10, <1>11 DEF FilesInv

\* What a step of a fetch does to the files of its strategy and to its shell.
Filing(p, to, entry) ==
  /\ dir' = [dir EXCEPT ![shell[p].id] = entry] /\ commands' = commands
  /\ \A q \in Shells : q # p => shell'[q] = shell[q]
  /\ shell'[p].at = to
  /\ to # "idle" => shell'[p].id = shell[p].id /\ shell'[p].version = shell[p].version

\* A step of a fetch, which writes the files of its strategy.
LEMMA Filed ==
  ASSUME FilesInv, NEW p \in Shells, NEW from, NEW to \in Places, NEW entry \in EntryType,
         Files(p, from, to, shell[p].id, entry), shell[p].id \in Names,
         from \in {"fetched"} \cup Saving, to \in Saving \cup {"idle"}
  PROVE  Placed' /\ KeptInv' /\ SetupInv' /\ Filing(p, to, entry)
<1> USE DEF FilesInv
<1>0. /\ shell[p].at = from /\ dir' = [dir EXCEPT ![shell[p].id] = entry] /\ Go(p, to)
      /\ UNCHANGED <<accounts, config, commands, confirmed, disturbed, overlapped, ready>>
  BY DEF Files
<1>1. PICK k : /\ Turn(p, k)
               /\ IF to = "idle" THEN k = Nowhere
                  ELSE Fields(k, to, shell[p].id, shell[p].ids, shell[p].stale, shell[p].cfg,
                              shell[p].next, shell[p].added, shell[p].version)
  BY <1>0, Went DEF Right, Saving
<1>2. k.at = to /\ (to # "idle" => k.id = shell[p].id /\ k.version = shell[p].version)
  BY <1>1, NowhereOK DEF Fields
<1>3. dir' \in [Names -> EntryType] BY <1>0 DEF Placed, FilesTypeOK
<1>4. Placed' BY <1>0, <1>1, <1>3, PlacedTurn DEF Placed, FilesTypeOK
<1>5. Current(k) BY <1>2 DEF Current, Saving
<1>6. KeptInv' BY <1>0, <1>1, <1>5, KeptTurn DEF Placed, FilesTypeOK
<1>7. shell'[p] = k /\ \A q \in Shells : q # p => shell'[q] = shell[q] BY <1>1, TurnDoes
<1>8. SetupInv'
  <2>1. ASSUME ~overlapped PROVE AloneOK(shell[p])' /\ Single(accounts'.ids)
    <3>1. Single(accounts'.ids) BY <1>0, <2>1 DEF SetupInv, Alone, Single, Unique
    <3>2. CASE to = "idle"
      <4>1. shell'[p] = Nowhere BY <1>1, <1>7, <3>2
      <4> QED BY <3>1, <4>1, NowhereAlone DEF AloneOK
    <3>3. CASE to # "idle"
      <4>1. Fields(k, to, shell[p].id, shell[p].ids, shell[p].stale, shell[p].cfg,
                   shell[p].next, shell[p].added, shell[p].version)
        BY <1>1, <3>3
      <4>2. Single(shell[p].ids) /\ shell[p].added = 0
        BY <1>0, <2>1, Self DEF AloneOK, Saving
      <4>3. shell'[p].at \in Saving /\ shell'[p].ids = shell[p].ids /\ shell'[p].added = 0
        BY <1>2, <1>7, <3>3, <4>1, <4>2 DEF Fields
      <4>4. shell'[p].at \notin {"testing", "push", "database", "backend", "accounts",
                               "saving accounts", "saving config"}
        BY <4>3 DEF Saving
      <4>5. Single(shell[p].ids)' BY <1>0, <4>2, <4>3 DEF Single, Unique
      <4> QED BY <3>1, <4>3, <4>4, <4>5 DEF AloneOK, Single
    <3> QED BY <3>1, <3>2, <3>3
  <2>2. ASSUME ~commands.typed PROVE KnownOK(shell'[p]) /\ Ids(accounts'.ids) \subseteq Supported
    <3>1. Ids(accounts'.ids) \subseteq Supported BY <1>0, <2>2 DEF SetupInv, Known
    <3>2. CASE to = "idle" BY <1>1, <1>7, <3>1, <3>2, NowhereAlone
    <3>3. CASE to # "idle"
      <4>1. k.at \notin {"add", "testing", "push"} /\ k.ids = shell[p].ids
        BY <1>1, <1>2, <3>3 DEF Fields, Saving
      <4> QED BY <1>7, <2>2, <3>1, <4>1, Self DEF KnownOK
    <3> QED BY <3>2, <3>3
  <2>3. shell[p].at # "idle" BY <1>0 DEF Saving
  <2>4. ~ready BY <2>3, NobodyReady
  <2>5. /\ ~overlapped' => Alone'
        /\ ~commands'.typed => Known'
        /\ overlapped' => commands'.crowded
    BY <1>0, <1>4, <1>7, <2>1, <2>2, <2>3, SetupTurn
  <2> QED BY <1>0, <2>4, <2>5 DEF SetupInv
<1>9. Filing(p, to, entry) BY <1>0, <1>2, <1>7 DEF Filing
<1> QED BY <1>4, <1>6, <1>8, <1>9

\* It leaves the entries of the other strategies, and what other fetches rely on.
LEMMA FiledOthers ==
  ASSUME FetchInv, NEW p \in Shells, NEW entry \in EntryType, shell[p].id \in Names,
         dir \in [Names -> EntryType], dir' = [dir EXCEPT ![shell[p].id] = entry],
         commands' = commands, \A q \in Shells : q # p => shell'[q] = shell[q],
         \A q \in Shells : PlaceOK(shell[q]),
         entry.wasm # "none",
         shell'[p].at \in Saving =>
           shell'[p].id = shell[p].id /\ shell'[p].version = ApiVersion
  PROVE  /\ \A n \in Names : n # shell[p].id => EntryOK(n)'
         /\ \A q \in Shells : FetchOK(shell[q])'
         /\ dir'[shell[p].id] = entry
<1>1. dir'[shell[p].id] = entry /\ \A n \in Names : n # shell[p].id => dir'[n] = dir[n]
  OBVIOUS
<1>2. ASSUME NEW n \in Names, n # shell[p].id, NEW places, FetchesOf(n, places)
      PROVE  FetchesOf(n, places)'
  <2>1. PICK q \in Shells : shell[q].at \in places /\ shell[q].id = n BY <1>2 DEF FetchesOf
  <2>2. shell'[q] = shell[q] BY <1>2, <2>1
  <2> QED BY <2>1, <2>2 DEF FetchesOf
<1>3. ASSUME NEW n \in Names, n # shell[p].id PROVE EntryOK(n)'
  <2>1. dir'[n] = dir[n] BY <1>1, <1>3
  <2>2. EntryOK(n) BY DEF FetchInv
  <2>3. /\ FetchesOf(n, {"metadata"}) => FetchesOf(n, {"metadata"})'
        /\ FetchesOf(n, {"wasm"}) => FetchesOf(n, {"wasm"})'
        /\ FetchesOf(n, Saving) => FetchesOf(n, Saving)'
    BY <1>2, <1>3 DEF Saving
  <2> QED BY <2>1, <2>2, <2>3 DEF EntryOK, Saving
<1>4. ASSUME NEW q \in Shells PROVE FetchOK(shell[q])'
  <2>1. CASE q = p BY <1>1, <2>1 DEF FetchOK, Saving
  <2>2. CASE q # p
    <3>1. shell'[q] = shell[q] /\ FetchOK(shell[q]) BY <2>2 DEF FetchInv
    <3>2. shell[q].at \in Saving => shell[q].id \in Names BY DEF PlaceOK, Saving
    <3> QED BY <1>1, <3>1, <3>2 DEF FetchOK, Saving
  <2> QED BY <2>1, <2>2
<1> QED BY <1>1, <1>3, <1>4

LEMMA StillFetched ==
  ASSUME NEW p \in Shells, \A q \in Shells : q # p => shell'[q] = shell[q],
         NEW n, NEW places, shell[p].at \notin places, FetchesOf(n, places)
  PROVE  FetchesOf(n, places)'
<1>1. PICK q \in Shells : shell[q].at \in places /\ shell[q].id = n BY DEF FetchesOf
<1>2. shell'[q] = shell[q] BY <1>1
<1> QED BY <1>1, <1>2 DEF FetchesOf

LEMMA OwnEntry ==
  ASSUME FilesInv, NEW p \in Shells, shell[p].id \in Names
  PROVE  Entry(p) \in EntryType /\ EntryOK(shell[p].id) /\ dir \in [Names -> EntryType]
BY DEF Entry, FilesInv, FetchInv, Placed, FilesTypeOK

LEMMA ValidateModuleKeeps ==
  ASSUME FilesInv, NEW p \in Shells, ValidateModule(p) PROVE FilesInv'
<1>0. PICK n \in Names : n = shell[p].id
  BY Self DEF ValidateModule, Files, PlaceOK
<1> DEFINE entry == [Entry(p) EXCEPT !.wasm = "torn"]
<1>1. /\ shell[p].version = ApiVersion /\ Files(p, "fetched", "wasm", n, entry)
      /\ shell[p].at = "fetched" /\ n \in Names
  BY <1>0, Self DEF ValidateModule, Files, PlaceOK
<1>2. /\ entry \in EntryType /\ entry.wasm = "torn" /\ entry.meta = Entry(p).meta
  BY <1>0, <1>1, OwnEntry DEF EntryType
<1> HIDE DEF entry
<1>3. /\ Placed' /\ KeptInv' /\ SetupInv'
      /\ dir' = [dir EXCEPT ![n] = entry] /\ commands' = commands
      /\ \A q \in Shells : q # p => shell'[q] = shell[q]
      /\ shell'[p].at = "wasm" /\ shell'[p].id = n /\ shell'[p].version = ApiVersion
  <2>1. Files(p, "fetched", "wasm", shell[p].id, entry) BY <1>0, <1>1
  <2>2. "fetched" \in {"fetched"} \cup Saving /\ "wasm" \in Saving \cup {"idle"} BY DEF Saving
  <2>3. Placed' /\ KeptInv' /\ SetupInv' /\ Filing(p, "wasm", entry)
    BY <1>0, <1>2, <2>1, <2>2, Filed, AllPlaces
  <2> QED BY <1>0, <1>1, <2>3 DEF Filing
<1>4. /\ \A other \in Names : other # n => EntryOK(other)'
      /\ \A q \in Shells : FetchOK(shell[q])'
      /\ dir'[n] = entry
  BY <1>0, <1>1, <1>2, <1>3, OwnEntry, Self, FiledOthers DEF FilesInv
<1>5. EntryOK(n)'
  <2>1. FetchesOf(n, {"metadata"}) => FetchesOf(n, {"metadata"})'
    BY <1>1, <1>3, StillFetched
  <2>2. FetchesOf(n, {"wasm"})' /\ FetchesOf(n, Saving)' BY <1>1, <1>3 DEF FetchesOf, Saving
  <2> QED BY <1>0, <1>1, <1>2, <1>3, <1>4, <2>1, <2>2, OwnEntry DEF EntryOK, Entry, Saving
<1> QED BY <1>0, <1>3, <1>4, <1>5 DEF FilesInv, FetchInv

LEMMA SaveWasmKeeps ==
  ASSUME FilesInv, NEW p \in Shells, SaveWasm(p) PROVE FilesInv'
<1>0. PICK n \in Names : n = shell[p].id
  BY Self DEF SaveWasm, Files, PlaceOK
<1> DEFINE entry == [Entry(p) EXCEPT !.wasm = "whole", !.version = shell[p].version]
<1>1. /\ Files(p, "wasm", "module saved", n, entry) /\ shell[p].at = "wasm" /\ n \in Names
      /\ shell[p].version = ApiVersion
  BY <1>0, Self DEF SaveWasm, Files, PlaceOK, FilesInv, FetchInv, FetchOK, Saving
<1>2. /\ entry \in EntryType /\ entry.wasm = "whole" /\ entry.meta = Entry(p).meta
      /\ entry.version = ApiVersion
  BY <1>0, <1>1, OwnEntry, WorkstationAssumption DEF EntryType
<1> HIDE DEF entry
<1>3. /\ Placed' /\ KeptInv' /\ SetupInv'
      /\ dir' = [dir EXCEPT ![n] = entry] /\ commands' = commands
      /\ \A q \in Shells : q # p => shell'[q] = shell[q]
      /\ shell'[p].at = "module saved" /\ shell'[p].id = n /\ shell'[p].version = ApiVersion
  <2>1. Files(p, "wasm", "module saved", shell[p].id, entry) BY <1>0, <1>1
  <2>2. "wasm" \in {"fetched"} \cup Saving /\ "module saved" \in Saving \cup {"idle"} BY DEF Saving
  <2>3. Placed' /\ KeptInv' /\ SetupInv' /\ Filing(p, "module saved", entry)
    BY <1>0, <1>2, <2>1, <2>2, Filed, AllPlaces
  <2> QED BY <1>0, <1>1, <2>3 DEF Filing
<1>4. /\ \A other \in Names : other # n => EntryOK(other)'
      /\ \A q \in Shells : FetchOK(shell[q])'
      /\ dir'[n] = entry
  BY <1>0, <1>1, <1>2, <1>3, OwnEntry, Self, FiledOthers DEF FilesInv
<1>5. EntryOK(n)'
  <2>1. FetchesOf(n, {"metadata"}) => FetchesOf(n, {"metadata"})'
    BY <1>1, <1>3, StillFetched
  <2>2. FetchesOf(n, Saving)' BY <1>1, <1>3 DEF FetchesOf, Saving
  <2> QED BY <1>0, <1>1, <1>2, <1>3, <1>4, <2>1, <2>2, OwnEntry DEF EntryOK, Entry, Saving
<1> QED BY <1>0, <1>3, <1>4, <1>5 DEF FilesInv, FetchInv

LEMMA OpenMetadataKeeps ==
  ASSUME FilesInv, NEW p \in Shells, OpenMetadata(p) PROVE FilesInv'
<1>0. PICK n \in Names : n = shell[p].id
  BY Self DEF OpenMetadata, Files, PlaceOK
<1> DEFINE entry == [Entry(p) EXCEPT !.meta = "torn"]
<1>1. /\ Files(p, "module saved", "metadata", n, entry) /\ shell[p].at = "module saved"
      /\ n \in Names /\ shell[p].version = ApiVersion /\ Entry(p).wasm # "none"
  BY <1>0, Self DEF OpenMetadata, Files, PlaceOK, FilesInv, FetchInv, FetchOK, Saving, Entry
<1>2. /\ entry \in EntryType /\ entry.wasm = Entry(p).wasm /\ entry.meta = "torn"
      /\ entry.version = Entry(p).version
  BY <1>0, <1>1, OwnEntry DEF EntryType
<1> HIDE DEF entry
<1>3. /\ Placed' /\ KeptInv' /\ SetupInv'
      /\ dir' = [dir EXCEPT ![n] = entry] /\ commands' = commands
      /\ \A q \in Shells : q # p => shell'[q] = shell[q]
      /\ shell'[p].at = "metadata" /\ shell'[p].id = n /\ shell'[p].version = ApiVersion
  <2>1. Files(p, "module saved", "metadata", shell[p].id, entry) BY <1>0, <1>1
  <2>2. "module saved" \in {"fetched"} \cup Saving /\ "metadata" \in Saving \cup {"idle"} BY DEF Saving
  <2>3. Placed' /\ KeptInv' /\ SetupInv' /\ Filing(p, "metadata", entry)
    BY <1>0, <1>2, <2>1, <2>2, Filed, AllPlaces
  <2> QED BY <1>0, <1>1, <2>3 DEF Filing
<1>4. /\ \A other \in Names : other # n => EntryOK(other)'
      /\ \A q \in Shells : FetchOK(shell[q])'
      /\ dir'[n] = entry
  BY <1>0, <1>1, <1>2, <1>3, OwnEntry, Self, FiledOthers DEF FilesInv
<1>5. EntryOK(n)'
  <2>1. FetchesOf(n, {"wasm"}) => FetchesOf(n, {"wasm"})'
    BY <1>1, <1>3, StillFetched
  <2>2. FetchesOf(n, {"metadata"})' /\ FetchesOf(n, Saving)'
    BY <1>1, <1>3 DEF FetchesOf, Saving
  <2> QED BY <1>0, <1>1, <1>2, <1>3, <1>4, <2>1, <2>2, OwnEntry DEF EntryOK, Entry, Saving
<1> QED BY <1>0, <1>3, <1>4, <1>5 DEF FilesInv, FetchInv

LEMMA SaveMetadataKeeps ==
  ASSUME FilesInv, NEW p \in Shells, SaveMetadata(p) PROVE FilesInv'
<1>0. PICK n \in Names : n = shell[p].id
  BY Self DEF SaveMetadata, Files, PlaceOK
<1> DEFINE entry == [Entry(p) EXCEPT !.meta = "whole"]
<1>1. /\ Files(p, "metadata", "idle", n, entry) /\ shell[p].at = "metadata"
      /\ n \in Names /\ Entry(p).wasm # "none"
  BY <1>0, Self DEF SaveMetadata, Files, PlaceOK, FilesInv, FetchInv, FetchOK, Saving, Entry
<1>2. /\ entry \in EntryType /\ entry.wasm = Entry(p).wasm /\ entry.meta = "whole"
      /\ entry.version = Entry(p).version
  BY <1>0, <1>1, OwnEntry DEF EntryType
<1> HIDE DEF entry
<1>3. /\ Placed' /\ KeptInv' /\ SetupInv'
      /\ dir' = [dir EXCEPT ![n] = entry] /\ commands' = commands
      /\ \A q \in Shells : q # p => shell'[q] = shell[q]
      /\ shell'[p].at \notin Saving
  <2>1. Files(p, "metadata", "idle", shell[p].id, entry) BY <1>0, <1>1
  <2>2. "metadata" \in {"fetched"} \cup Saving /\ "idle" \in Saving \cup {"idle"} BY DEF Saving
  <2>3. Placed' /\ KeptInv' /\ SetupInv' /\ Filing(p, "idle", entry)
    BY <1>0, <1>2, <2>1, <2>2, Filed, AllPlaces
  <2> QED BY <1>0, <1>1, <2>3 DEF Filing, Saving
<1>4. /\ \A other \in Names : other # n => EntryOK(other)'
      /\ \A q \in Shells : FetchOK(shell[q])'
      /\ dir'[n] = entry
  BY <1>0, <1>1, <1>2, <1>3, OwnEntry, Self, FiledOthers DEF FilesInv
<1>5. EntryOK(n)'
  <2>1. FetchesOf(n, {"wasm"}) => FetchesOf(n, {"wasm"})'
    BY <1>1, <1>3, StillFetched
  <2> QED BY <1>0, <1>1, <1>2, <1>3, <1>4, <2>1, OwnEntry DEF EntryOK, Entry, Saving
<1> QED BY <1>0, <1>3, <1>4, <1>5 DEF FilesInv, FetchInv

LEMMA KilledKeeps ==
  ASSUME FilesInv, NEW p \in Shells, Killed(p) PROVE FilesInv'
<1> USE DEF FilesInv
<1>0. /\ shell[p].at # "idle" /\ shell' = [shell EXCEPT ![p] = Nowhere]
      /\ commands' = [commands EXCEPT !.killed = @ + 1]
      /\ disturbed' = (disturbed \/ shell[p].at = "saving accounts")
      /\ UNCHANGED <<accounts, config, dir, confirmed, overlapped, ready>>
  BY DEF Killed
<1>1. Turn(p, Nowhere)
  <2>1. PlaceOK(Nowhere) BY DEF PlaceOK, Nowhere
  <2> QED BY <1>0, <2>1, NowhereOK DEF Turn
<1>2. /\ commands' \in [started : Nat, killed : Nat, typed : BOOLEAN, crowded : BOOLEAN]
      /\ commands'.killed # 0 /\ commands'.typed = commands.typed
      /\ commands'.crowded = commands.crowded
  <2>1. commands \in [started : Nat, killed : Nat, typed : BOOLEAN, crowded : BOOLEAN] BY DEF Placed, FilesTypeOK
  <2>2. commands.killed + 1 \in Nat /\ commands.killed + 1 # 0 BY <2>1
  <2> QED BY <1>0, <2>1, <2>2
<1>3. shell'[p] = Nowhere /\ \A q \in Shells : q # p => shell'[q] = shell[q]
  BY <1>1, TurnDoes
<1>4. Placed' BY <1>0, <1>1, <1>2, PlacedTurn DEF Placed, FilesTypeOK
<1>5. Current(Nowhere) /\ Nowhere.at \notin Saving BY NowhereOK DEF Current, Saving
<1>6. KeptInv'
  <2>1. disturbed' \in BOOLEAN /\ (~disturbed' => ~disturbed) BY <1>0
  <2> QED BY <1>0, <1>1, <1>5, <2>1, KeptTurn
<1>7. FetchInv'
  <2>1. ASSUME NEW n \in Names PROVE EntryOK(n)' BY <1>0, <1>2 DEF FetchInv, EntryOK
  <2>2. ASSUME NEW q \in Shells PROVE FetchOK(shell[q])'
    <3>1. CASE q = p BY <1>3, <1>5, <3>1 DEF FetchOK, Saving
    <3>2. CASE q # p BY <1>0, <1>3, <3>2 DEF FetchInv, FetchOK, Saving
    <3> QED BY <3>1, <3>2
  <2> QED BY <2>1, <2>2 DEF FetchInv
<1>8. SetupInv'
  <2>1. AloneOK(shell[p])' /\ KnownOK(shell'[p]) BY <1>3, NowhereAlone DEF AloneOK
  <2>2. /\ ~overlapped => Single(accounts'.ids)
        /\ ~commands.typed => Ids(accounts'.ids) \subseteq Supported
    BY <1>0 DEF SetupInv, Alone, Known, Single, Unique
  <2>3. ~ready BY <1>0, NobodyReady
  <2>4. /\ ~overlapped' => Alone'
        /\ ~commands'.typed => Known'
        /\ overlapped' => commands'.crowded
    BY <1>0, <1>2, <1>3, <1>4, <2>1, <2>2, SetupTurn
  <2> QED BY <1>0, <2>3, <2>4 DEF SetupInv
<1> QED BY <1>4, <1>6, <1>7, <1>8

-----------------------------------------------------------------------------
LEMMA FilesInit == Init => FilesInv
<1> SUFFICES ASSUME Init PROVE FilesInv OBVIOUS
<1>1. Placed BY PlacedInit
<1>2. \A p \in Shells : shell[p] = Nowhere BY DEF Init
<1>3. \A id \in AccountIds : NoAccounts[id] = 0 BY DEF NoAccounts
<1>4. Ids(NoAccounts) = {} /\ Single(NoAccounts) BY <1>3 DEF Ids, Single, Unique
<1>5. accounts.ids = NoAccounts /\ accounts.whole /\ confirmed = {} BY DEF Init
<1>6. KeptInv
  <2>1. Current(Nowhere) BY NowhereOK DEF Current
  <2> QED BY <1>2, <1>4, <1>5, <2>1 DEF KeptInv, AccountsKept
<1>7. FetchInv
  <2>1. ASSUME NEW n \in Names PROVE EntryOK(n)
    <3>1. dir[n].wasm = "none" /\ dir[n].meta = "none" BY DEF Init
    <3> QED BY <3>1 DEF EntryOK
  <2>2. FetchOK(Nowhere) BY NowhereOK DEF FetchOK, Saving
  <2> QED BY <1>2, <2>1, <2>2 DEF FetchInv
<1>8. SetupInv
  <2>1. Alone BY <1>2, <1>4, <1>5, NowhereOK, NowhereAlone DEF Alone
  <2>2. Known BY <1>2, <1>4, <1>5, NowhereAlone DEF Known
  <2>3. ~ready /\ ~overlapped BY DEF Init
  <2> QED BY <2>1, <2>2, <2>3 DEF SetupInv
<1> QED BY <1>1, <1>6, <1>7, <1>8 DEF FilesInv

LEMMA FilesStep == FilesInv /\ [Next]_vars => FilesInv'
<1> SUFFICES ASSUME FilesInv, [Next]_vars PROVE FilesInv' OBVIOUS
<1>1. ASSUME NEW p \in Shells, Setup(p) PROVE FilesInv'
  BY <1>1, WizardKeeps, LoadOrCreateConfigKeeps, StepDatabaseKeeps, StepLlmBackendKeeps,
     AddAccountInteractiveKeeps, NotSavedKeeps, ReloadKeeps, PushAccountKeeps,
     PrintSummaryKeeps DEF Setup
<1>2. CASE Next
  BY <1>1, <1>2, AccountCommandKeeps, AccountRefusedKeeps, AccountAddKeeps,
     AccountRemoveKeeps, SetupInitKeeps, InitConfigKeeps, InitAccountsKeeps, ConfigSetKeeps,
     ConfigSavedKeeps, SaveAccountsKeeps, SaveConfigKeeps, StrategyFetchKeeps,
     FetchFailsKeeps, ValidateModuleKeeps, SaveWasmKeeps, OpenMetadataKeeps,
     SaveMetadataKeeps, KilledKeeps
  DEF Next
<1>3. CASE UNCHANGED vars
  <2> USE <1>3 DEF vars
  <2>1. Placed' BY DEF FilesInv, Placed, FilesTypeOK, PlaceOK
  <2>2. KeptInv' BY DEF FilesInv, KeptInv, AccountsKept, Current
  <2>3. FetchInv' BY DEF FilesInv, FetchInv, EntryOK, FetchOK, FetchesOf
  <2>4. Alone' <=> Alone BY DEF Alone, AloneOK, LoadAccounts, LoadConfig, Single, Unique
  <2>5. Known' <=> Known BY DEF Known, KnownOK
  <2>6. (ValidButForIds /\ Single(LoadAccounts))' <=> ValidButForIds /\ Single(LoadAccounts)
    BY DEF ValidButForIds, LoadAccounts, LoadConfig, Single, Unique
  <2>7. SetupInv' BY <2>4, <2>5, <2>6 DEF FilesInv, SetupInv
  <2> QED BY <2>1, <2>2, <2>3, <2>7 DEF FilesInv
<1> QED BY <1>2, <1>3

\* FilesInv is inductive: what shells have loaded, and where their commands stand,
\* agrees with the files of src/accounts_config.rs, src/app_config.rs and
\* crates/rara-research/src/strategy_registry.rs.
THEOREM FilesInvariant == Spec => []FilesInv
BY FilesInit, FilesStep, PTL DEF Spec

\* src/accounts_config.rs:20-79, src/main.rs:2263-2412 and src/setup_wizard.rs:521-606:
\* the accounts in the file are those that commands have confirmed, for any number of
\* shells and commands, unless a stale list was saved or a write cut off.
THEOREM AccountsKeptHolds == Spec => []AccountsKept
<1>1. FilesInv => AccountsKept BY DEF FilesInv, KeptInv
<1> QED BY <1>1, FilesInvariant, PTL

\* src/setup_wizard.rs:86-95, 394-606 against src/main.rs:2132-2259: where a wizard
\* that ran alone says that the setup is complete, `setup validate' agrees, whatever
\* earlier commands left, kills and commands side by side included; of the ids being
\* unique only if no two commands have ever run at a time.  And the daemon starts after
\* any command, unless `setup account add' was given an exchange that is unknown.
THEOREM SetupValidatesHolds == Spec => []SetupValidates
<1>1. FilesInv => SetupValidates
  <2> SUFFICES ASSUME FilesInv PROVE SetupValidates OBVIOUS
  <2>1. commands.typed \/ ManagerStarts BY ReadList DEF ManagerStarts, Builds
  <2>2. ready => ValidButForIds /\ Single(LoadAccounts) BY DEF FilesInv, SetupInv
  <2> QED BY <2>1, <2>2 DEF SetupValidates, Single, Valid
<1> QED BY <1>1, FilesInvariant, PTL

\* crates/rara-research/src/strategy_registry.rs:165-333 and src/daemon.rs:756-814: no
\* metadata without a module and no module that this runtime cannot run, through
\* fetches that are killed, run side by side or are repeated with another release.
THEOREM FetchedIsUsableHolds == Spec => []FetchedIsUsable
<1>1. FilesInv => FetchedIsUsable
  <2> SUFFICES ASSUME FilesInv PROVE FetchedIsUsable OBVIOUS
  <2>0. \A n \in Names : EntryOK(n) /\ dir[n] \in EntryType
    BY DEF FilesInv, FetchInv, Placed, FilesTypeOK
  <2>1. \A n \in ListInstalled : dir[n].wasm # "none" BY <2>0 DEF ListInstalled, EntryOK
  <2>2. \A n \in LoadWasmFromDir : dir[n].version = ApiVersion
    BY <2>0 DEF LoadWasmFromDir, Loads, EntryOK
  <2>3. ASSUME ~Fetching, commands.killed = 0
        PROVE  ~ListFails /\ StrategyInstalled = {n \in Names : Backtestable(n)}
    <3>1. \A n \in Names : /\ ~FetchesOf(n, {"metadata"}) /\ ~FetchesOf(n, {"wasm"})
                           /\ ~FetchesOf(n, Saving)
      BY <2>3 DEF Fetching, FetchesOf, Saving
    <3>2. ~ListFails BY <2>0, <2>3, <3>1 DEF ListFails, EntryOK
    <3>3. \A n \in Names : dir[n].meta = "whole" <=> dir[n].wasm = "whole"
      BY <2>0, <2>3, <3>1 DEF EntryOK, EntryType
    <3> QED BY <3>2, <3>3 DEF StrategyInstalled, ListInstalled, Backtestable, Loads
  <2> QED BY <2>1, <2>2, <2>3 DEF FetchedIsUsable
<1> QED BY <1>1, FilesInvariant, PTL
=============================================================================
