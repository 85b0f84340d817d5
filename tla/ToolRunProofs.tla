--------------------------- MODULE ToolRunProofs ---------------------------
(***************************************************************************)
(* Proofs about ToolRun, for any number of commands, descriptors and       *)
(* bytes.  Evidence: a process that is gone stays gone, so what was known  *)
(* of a command when its group was killed still holds when it is asked     *)
(* about.  Output: until a command's text is taken its own reader is the   *)
(* only one who may have lost the descriptor, by ending; a reader whose    *)
(* descriptor was closed under it can only spoil a text already taken.     *)
(* Tail, when threads are prompt: the command's reader has ended before    *)
(* its text is taken, and at each of its statements it holds the end of    *)
(* the bytes it has taken (Held), though trimming takes two statements.    *)
(***************************************************************************)
EXTENDS ToolRun, SequenceTheorems, TLAPS

-----------------------------------------------------------------------------
(* Types *)

\* The first and the last n bytes dropped: still a sequence of the same bytes.
LEMMA SuffixType ==
  ASSUME NEW S, NEW s \in Seq(S), NEW n \in Nat
  PROVE  SubSeq(s, n + 1, Len(s)) \in Seq(S) /\ Last(s, n) \in Seq(S)
<1>1. Len(s) \in Nat /\ \A i \in 1 .. Len(s) : s[i] \in S
  BY LenProperties
<1>2. SubSeq(s, n + 1, Len(s)) \in Seq(S)
  BY <1>1, SubSeqProperties
<1>3. CASE Len(s) <= n
  BY <1>2, <1>3 DEF Last
<1>4. CASE ~(Len(s) <= n)
  <2>1. SubSeq(s, Len(s) - n + 1, Len(s)) \in Seq(S)
    <3>1. Len(s) - n + 1 \in Int /\ \A i \in Len(s) - n + 1 .. Len(s) : s[i] \in S
      BY <1>1, <1>4
    <3>. QED BY <1>1, <3>1, SubSeqProperties
  <2>. QED BY <1>2, <1>4, <2>1 DEF Last
<1>. QED BY <1>3, <1>4

\* A thread that was started has a pipe.
ReadersArePiped == \A c \in Command : reader[c] # "unborn" => fd[c] \in Fds

Types == TypeOK /\ ReadersArePiped

LEMMA InitTypes == Init => Types
<1>1. ASSUME Init PROVE 1 \in Command /\ <<>> \in Seq(Byte) /\ {} \in SUBSET Processes
  BY ToolAssumption, EmptySeq DEF Command
<1>2. Init => ReadersArePiped
  BY DEF Init, ReadersArePiped
<1>3. ASSUME Init PROVE TypeOK
  <2>1. /\ output \in [Command -> Seq(Byte)] /\ chunk \in [Command -> Seq(Byte)]
        /\ tail \in [Command -> Seq(Byte)]
    BY <1>1, <1>3 DEF Init
  <2>2. alive \in [Command -> SUBSET Processes] /\ doomed \in [Command -> SUBSET Processes]
    BY <1>1, <1>3 DEF Init
  <2>3. cmd \in Command /\ pipeAt \in [Fds -> Command \union {0}]
    BY <1>1, <1>3 DEF Init
  <2>4. prompt \in BOOLEAN /\ isolation \subseteq Canonical
    <3>1. Isolations \in [BOOLEAN -> SUBSET SUBSET Canonical]
      BY ToolAssumption DEF Canonical
    <3>. QED BY <1>3, <3>1 DEF Init
  <2>. QED BY <1>3, <2>1, <2>2, <2>3, <2>4 DEF Init, TypeOK, Exits
<1>. QED BY <1>2, <1>3 DEF Types

LEMMA MainTypes ==
  ASSUME Types, Main \/ SpawnFails \/ Attest \/ NextCommand
  PROVE  TypeOK'
<1>. USE ToolAssumption DEF Types, TypeOK, readerVars, kernelVars
<1>1. CASE ReadBefore BY <1>1 DEF ReadBefore
<1>2. CASE Spawn
  <2>1. PICK n \in Fds, others \in Families :
          /\ pipeAt' = [pipeAt EXCEPT ![n] = cmd]
          /\ fd' = [fd EXCEPT ![cmd] = n]
          /\ alive' = [alive EXCEPT ![cmd] = {"tool"} \union others]
    BY <1>2 DEF Spawn
  <2>2. {"tool"} \union others \in SUBSET Processes
    BY DEF Processes
  <2>3. alive' \in [Command -> SUBSET Processes]
    BY <2>1, <2>2
  <2>4. fd' \in [Command -> Fds \union {0}] /\ pipeAt' \in [Fds -> Command \union {0}]
    BY <2>1
  <2>. QED BY <1>2, <2>3, <2>4 DEF Spawn
<1>3. CASE ToolDone BY <1>3 DEF ToolDone, KillGroup
<1>4. CASE TimeOut BY <1>4 DEF TimeOut, KillGroup
<1>5. CASE Joined BY <1>5 DEF Joined
<1>6. CASE GraceEnds BY <1>6 DEF GraceEnds
<1>7. CASE ReaderIsLate BY <1>7 DEF ReaderIsLate
<1>8. CASE Finish BY <1>8 DEF Finish, KillGroup, Close
<1>9. CASE SpawnFails BY <1>9 DEF SpawnFails
<1>10. CASE Attest BY <1>10 DEF Attest
<1>11. CASE NextCommand
  <2>1. cmd' \in Command
    BY <1>11 DEF NextCommand, Command
  <2>. QED BY <1>11, <2>1 DEF NextCommand
<1>. QED
  BY <1>1, <1>2, <1>3, <1>4, <1>5, <1>6, <1>7, <1>8, <1>9, <1>10, <1>11 DEF Main

\* One os.read of c's thread: the next n bytes of the command whose pipe it is.
LEMMA BytesRead ==
  ASSUME Types, NEW c \in Command, ReadBytes(c)
  PROVE  \E d \in Command, n \in Nat, read \in Seq(Byte) :
           /\ d = pipeAt[fd[c]] /\ n > 0 /\ n <= written[d] - taken[d] /\ fd[c] \in Fds
           /\ chunk' = [chunk EXCEPT ![c] = read]
           /\ taken' = [taken EXCEPT ![d] = @ + n]
           /\ Len(read) = n /\ \A i \in 1 .. n : read[i] = <<d, taken[d] + i>>
<1>. DEFINE d == pipeAt[fd[c]]
            n == IF ChunkSize < written[d] - taken[d] THEN ChunkSize ELSE written[d] - taken[d]
            read == [i \in 1 .. n |-> <<d, taken[d] + i>>]
<1>1. fd[c] \in Fds /\ d # 0 /\ written[d] - taken[d] > 0
  BY DEF Types, TypeOK, ReadersArePiped, ReadBytes, HasBytes, Piped, Available
<1>2. d \in Command
  BY <1>1 DEF Types, TypeOK
<1>3. written[d] \in Nat /\ taken[d] \in Nat
  BY <1>2 DEF Types, TypeOK
<1>4. chunk' = [chunk EXCEPT ![c] = read] /\ taken' = [taken EXCEPT ![d] = @ + n]
  BY DEF ReadBytes, Piped, Available, Least
<1>. HIDE DEF d
<1>5. n \in Nat /\ n > 0 /\ n <= written[d] - taken[d]
  BY <1>1, <1>3, ToolAssumption
<1>. HIDE DEF n
<1>6. \A i \in 1 .. n : <<d, taken[d] + i>> \in Byte
  BY <1>2, <1>3, <1>5 DEF Byte
<1>7. read \in Seq(Byte) /\ Len(read) = n
  BY <1>5, <1>6
<1>8. \A i \in 1 .. n : read[i] = <<d, taken[d] + i>>
  OBVIOUS
<1>9. d = pipeAt[fd[c]]
  BY DEF d
<1>. HIDE DEF read
<1>. QED BY <1>1, <1>2, <1>4, <1>5, <1>7, <1>8, <1>9

LEMMA DrainTypes ==
  ASSUME Types, NEW c \in Command, Drain(c)
  PROVE  TypeOK'
<1>. USE ToolAssumption DEF Types, TypeOK, mainVars, kernelVars, ReaderGoes
<1>1. CASE GoOn(c) BY <1>1 DEF GoOn
<1>2. CASE SeeStop(c) BY <1>2 DEF SeeStop, ReaderEnds, Close
<1>3. CASE ReadBytes(c)
  <2>1. PICK d \in Command, n \in Nat, read \in Seq(Byte) :
          /\ chunk' = [chunk EXCEPT ![c] = read]
          /\ taken' = [taken EXCEPT ![d] = @ + n]
    BY <1>3, BytesRead
  <2>2. /\ reader' = [reader EXCEPT ![c] = "append"]
        /\ UNCHANGED <<mainVars, stop, fd, closed, tail, truncated,
                 alive, doomed, exit, pipeAt, written, oomKills, prompt, isolation, killedIn, ownKills>>
    BY <1>3 DEF ReadBytes
  <2>3. chunk' \in [Command -> Seq(Byte)]
    BY <2>1
  <2>4. taken' \in [Command -> Nat]
    <3>1. taken \in [Command -> Nat] /\ taken[d] \in Nat
      OBVIOUS
    <3>2. \A m \in Nat : m + n \in Nat
      OBVIOUS
    <3>. QED BY <2>1, <3>1, <3>2, Zenon
  <2>. QED BY <2>2, <2>3, <2>4
<1>4. CASE ReadNothing(c) BY <1>4 DEF ReadNothing
<1>5. CASE ReadEnd(c) BY <1>5 DEF ReadEnd, ReaderEnds, Close
<1>6. CASE ClearTail(c) BY <1>6, EmptySeq DEF ClearTail
<1>7. CASE RefillTail(c)
  BY <1>7, SuffixType, EmptySeq DEF RefillTail
<1>8. CASE GrowTail(c)
  BY <1>8, ConcatProperties, EmptySeq DEF GrowTail
<1>9. CASE TrimTail(c)
  <2>1. PICK n \in 1 .. Len(tail[c]) - Limit :
          tail' = [tail EXCEPT ![c] = SubSeq(@, n + 1, Len(@))]
    BY <1>9 DEF TrimTail
  <2>2. tail[c] \in Seq(Byte) /\ n \in Nat
    OBVIOUS
  <2>3. SubSeq(tail[c], n + 1, Len(tail[c])) \in Seq(Byte)
    BY <2>2, SuffixType
  <2>. QED BY <1>9, <2>1, <2>3 DEF TrimTail
<1>. QED
  BY <1>1, <1>2, <1>3, <1>4, <1>5, <1>6, <1>7, <1>8, <1>9 DEF Drain

LEMMA WorldTypes ==
  ASSUME Types, World
  PROVE  TypeOK'
<1>. USE DEF Types, TypeOK, mainVars, readerVars
<1>1. ASSUME NEW c \in Command, Write(c) PROVE TypeOK'
  BY <1>1 DEF Write
<1>2. ASSUME NEW c \in Command, NEW p \in Processes, End(c, p) PROVE TypeOK'
  BY <1>2 DEF End, Gone, Exits
<1>3. ASSUME NEW c \in Command, NEW p \in Processes, OomKill(c, p) PROVE TypeOK'
  BY <1>3 DEF OomKill, Gone, Exits
<1>. QED BY <1>1, <1>2, <1>3 DEF World

LEMMA StepTypes == Types /\ [Next]_vars => Types'
<1>. SUFFICES ASSUME Types, [Next]_vars PROVE Types'
  OBVIOUS
<1>1. TypeOK'
  <2>1. CASE UNCHANGED vars
    BY <2>1 DEF Types, TypeOK, vars, mainVars, readerVars, kernelVars
  <2>. QED BY <2>1, MainTypes, DrainTypes, WorldTypes DEF Next
<1>2. ReadersArePiped'
  <2>. USE DEF Types, TypeOK, ReadersArePiped
  <2>1. CASE Spawn
    BY <2>1 DEF Spawn
  <2>2. CASE UNCHANGED <<reader, fd>>
    BY <2>2
  <2>3. ASSUME NEW c \in Command, Drain(c) PROVE ReadersArePiped'
    <3>1. fd' = fd /\ reader[c] # "unborn"
      BY <2>3 DEF Drain, GoOn, SeeStop, ReaderEnds, ReadBytes, ReadNothing, ReadEnd, ClearTail,
                 RefillTail, GrowTail, TrimTail
    <3>2. \E place : reader' = [reader EXCEPT ![c] = place]
      BY <2>3 DEF Drain, GoOn, SeeStop, ReaderEnds, ReadBytes, ReadNothing, ReadEnd, ClearTail,
                 RefillTail, GrowTail, TrimTail, ReaderGoes
    <3>. QED BY <3>1, <3>2
  <2>4. (Main \/ SpawnFails \/ Attest \/ NextCommand) /\ ~Spawn => UNCHANGED <<reader, fd>>
    BY DEF Main, ReadBefore, ToolDone, TimeOut, Joined, GraceEnds, ReaderIsLate, Finish,
           SpawnFails, Attest, NextCommand, readerVars, Close
  <2>5. World \/ UNCHANGED vars => UNCHANGED <<reader, fd>>
    BY DEF World, Write, End, OomKill, vars, readerVars
  <2>. QED BY <2>1, <2>2, <2>3, <2>4, <2>5 DEF Next
<1>. QED BY <1>1, <1>2 DEF Types

\* The variables of run(), the reader threads and the kernel keep their types.
THEOREM ToolTypes == Spec => []Types
BY InitTypes, StepTypes, PTL DEF Spec

-----------------------------------------------------------------------------
(* Evidence *)

\* Nothing runs for c yet, or run() never got it started.
Unstarted(c) == c > cmd \/ (c = cmd /\ pc \in {"idle", "spawn", "raised"})

\* run() has seen c's own process end.
Waited(c) == c < cmd \/ (c = cmd /\ pc \in {"join", "rejoin", "finish", "returned"})

ToolIsGone ==
  \A c \in Command :
    /\ Unstarted(c) => alive[c] = {} /\ c \notin ownKills
    /\ Waited(c) => "tool" \notin alive[c]
    /\ c \in ownKills => exit[c] = "sigkill" /\ "tool" \notin alive[c]

\* The counter read first is behind by the kills since.
CounterCounts ==
  /\ before <= oomKills
  /\ InRun /\ oomKills > before => cmd \in killedIn
  /\ InRun /\ cmd \in ownKills => oomKills > before

\* Between Finish and Attest the latch is about the command that returned.
LatchIsCurrent ==
  pc = "returned" /\ attested[cmd] = "unasked" =>
    /\ latch => cmd \in killedIn /\ CounterReadable
    /\ cmd \in ownKills /\ CounterReadable => latch

AskedWhenReturned ==
  \A c \in Command : attested[c] # "unasked" => c < cmd \/ (c = cmd /\ pc = "returned")

EvidenceInv == ToolIsGone /\ CounterCounts /\ LatchIsCurrent /\ AskedWhenReturned /\ EvidenceIsCurrent

EvidenceVars ==
  <<cmd, pc, before, latch, attested, alive, exit, oomKills, isolation, killedIn, ownKills>>

LEMMA EvidenceOfMain ==
  ASSUME Types, Types', EvidenceInv, Main \/ SpawnFails \/ Attest \/ NextCommand
  PROVE  EvidenceInv'
<1>. USE DEF EvidenceInv, ToolIsGone, CounterCounts, LatchIsCurrent, AskedWhenReturned,
             EvidenceIsCurrent, Unstarted, Waited, InRun, Types, TypeOK, Command
<1>1. CASE ReadBefore BY <1>1 DEF ReadBefore, kernelVars
<1>2. CASE Spawn
  BY <1>2 DEF Spawn
<1>3. CASE ToolDone BY <1>3 DEF ToolDone
<1>4. CASE TimeOut BY <1>4 DEF TimeOut
<1>5. CASE Joined BY <1>5 DEF Joined, kernelVars
<1>6. CASE GraceEnds BY <1>6 DEF GraceEnds, kernelVars
<1>7. CASE ReaderIsLate BY <1>7 DEF ReaderIsLate, kernelVars
<1>8. CASE Finish BY <1>8 DEF Finish
<1>9. CASE SpawnFails BY <1>9 DEF SpawnFails, kernelVars
<1>10. CASE Attest BY <1>10 DEF Attest, kernelVars
<1>11. CASE NextCommand BY <1>11 DEF NextCommand, kernelVars
<1>. QED
  BY <1>1, <1>2, <1>3, <1>4, <1>5, <1>6, <1>7, <1>8, <1>9, <1>10, <1>11 DEF Main

LEMMA EvidenceOfWorld ==
  ASSUME Types, Types', EvidenceInv, World
  PROVE  EvidenceInv'
<1>. USE DEF EvidenceInv, ToolIsGone, CounterCounts, LatchIsCurrent, AskedWhenReturned,
             EvidenceIsCurrent, Unstarted, Waited, InRun, Types, TypeOK, Command
<1>1. ASSUME NEW c \in Command, Write(c) PROVE EvidenceInv'
  BY <1>1 DEF Write, mainVars
<1>2. ASSUME NEW c \in Command, NEW p \in Processes, End(c, p) PROVE EvidenceInv'
  BY <1>2 DEF End, Gone, mainVars
<1>3. ASSUME NEW c \in Command, NEW p \in Processes, OomKill(c, p) PROVE EvidenceInv'
  BY <1>3 DEF OomKill, Gone, mainVars
<1>. QED BY <1>1, <1>2, <1>3 DEF World

\* The inductive invariant behind the OOM evidence: the counter read before a
\* command and the processes that are gone say the same as the latch.
THEOREM EvidenceInvariant == Spec => [](Types /\ EvidenceInv)
<1>1. Init => EvidenceInv
  BY ToolAssumption DEF Init, EvidenceInv, ToolIsGone, CounterCounts, LatchIsCurrent,
     AskedWhenReturned, EvidenceIsCurrent, Unstarted, Waited, InRun, Command
<1>2. ASSUME Types, EvidenceInv, [Next]_vars PROVE EvidenceInv'
  <2>1. Types'
    BY <1>2, StepTypes
  <2>2. CASE UNCHANGED EvidenceVars
    BY <1>2, <2>2 DEF EvidenceVars, EvidenceInv, ToolIsGone, CounterCounts, LatchIsCurrent,
       AskedWhenReturned, EvidenceIsCurrent, Unstarted, Waited, InRun
  <2>3. ASSUME NEW c \in Command, Drain(c) PROVE UNCHANGED EvidenceVars
    BY <2>3 DEF Drain, GoOn, SeeStop, ReaderEnds, ReadBytes, ReadNothing, ReadEnd, ClearTail,
       RefillTail, GrowTail, TrimTail, EvidenceVars, mainVars, kernelVars
  <2>4. UNCHANGED vars => UNCHANGED EvidenceVars
    BY DEF vars, mainVars, kernelVars, EvidenceVars
  <2>. QED BY <1>2, <2>1, <2>2, <2>3, <2>4, EvidenceOfMain, EvidenceOfWorld DEF Next
<1>. QED BY <1>1, <1>2, InitTypes, StepTypes, PTL DEF Spec

\* judge.py:1211: however the kernel, the processes and the threads interleave,
\* OOM evidence is about the command it is asked of.
THEOREM EvidenceIsBound == Spec => []EvidenceIsCurrent
BY EvidenceInvariant, PTL DEF EvidenceInv

-----------------------------------------------------------------------------
(* Output *)

\* A command has a reader thread from Spawn on.
StartedByRun ==
  \A c \in Command : /\ Unstarted(c) => ~closed[c] /\ output[c] = <<>>
                     /\ Unstarted(c) <=> reader[c] = "unborn"

\* Until its stream is closed the descriptor reads the command's own pipe.
OpenIsOwn ==
  \A c \in Command : reader[c] # "unborn" /\ ~closed[c] => pipeAt[fd[c]] = c

\* Before the text is taken only the thread itself has closed the stream.
ClosedByItself ==
  \A c \in Command : ~TextTaken(c) /\ closed[c] => reader[c] = "dead"

\* s is followed by t among the first n bytes of the command.
Follows(c, n, s, t) ==
  /\ OwnInOrder(c, s) /\ OwnInOrder(c, t)
  /\ \A i \in DOMAIN s : s[i][2] <= n
  /\ \A j \in DOMAIN t : t[j][2] <= n
  /\ \A i \in DOMAIN s, j \in DOMAIN t : s[i][2] < t[j][2]

ReadIsOwn ==
  \A c \in Command :
    /\ ~TextTaken(c) => Follows(c, taken[c], tail[c], chunk[c])
    /\ reader[c] \notin {"append", "refill"} => chunk[c] = <<>>
    /\ reader[c] = "refill" => tail[c] = <<>>

OutputInv == StartedByRun /\ OpenIsOwn /\ ClosedByItself /\ ReadIsOwn /\ OutputIsOwn

OutputVars == <<cmd, pc, output, reader, fd, closed, chunk, tail, pipeAt, taken>>

\* A part of a sequence of a command's bytes, in order, is one too.
LEMMA OwnPart ==
  ASSUME NEW c, NEW s \in Seq(Byte), OwnInOrder(c, s), NEW t \in Seq(Byte), NEW m \in Nat,
         Len(t) + m <= Len(s), \A i \in 1 .. Len(t) : t[i] = s[i + m]
  PROVE  OwnInOrder(c, t)
<1>1. DOMAIN s = 1 .. Len(s) /\ DOMAIN t = 1 .. Len(t) /\ Len(s) \in Nat /\ Len(t) \in Nat
  BY LenProperties
<1>2. \A i \in DOMAIN t : i + m \in DOMAIN s /\ t[i] = s[i + m]
  BY <1>1
<1>3. \A i \in DOMAIN t : t[i][1] = c
  BY <1>2 DEF OwnInOrder
<1>4. ASSUME NEW i \in DOMAIN t, NEW j \in DOMAIN t, i < j PROVE t[i][2] < t[j][2]
  <2>1. i + m \in DOMAIN s /\ j + m \in DOMAIN s /\ i + m < j + m
    BY <1>1, <1>2, <1>4
  <2>. QED BY <1>2, <2>1 DEF OwnInOrder
<1>. QED BY <1>3, <1>4 DEF OwnInOrder

\* What the tail loses at its front leaves it in order, and each of its bytes was there.
LEMMA SuffixFacts ==
  ASSUME NEW s \in Seq(Byte), NEW n \in Nat, n <= Len(s)
  PROVE  LET t == SubSeq(s, n + 1, Len(s)) IN
         /\ t \in Seq(Byte) /\ Len(t) = Len(s) - n
         /\ \A i \in 1 .. Len(t) : t[i] = s[i + n]
<1>1. Len(s) \in Nat /\ \A i \in n + 1 .. Len(s) : s[i] \in Byte
  BY LenProperties
<1>2. n + 1 \in Int /\ Len(s) \in Int
  BY <1>1
<1>. DEFINE t == SubSeq(s, n + 1, Len(s))
<1>3. /\ t \in Seq(Byte)
      /\ Len(t) = IF n + 1 <= Len(s) THEN Len(s) - (n + 1) + 1 ELSE 0
      /\ \A i \in 1 .. Len(s) - (n + 1) + 1 : t[i] = s[(n + 1) + i - 1]
  BY <1>1, <1>2, SubSeqProperties
<1>. HIDE DEF t
<1>4. Len(t) = Len(s) - n
  BY <1>1, <1>3
<1>5. \A i \in 1 .. Len(t) : t[i] = s[i + n]
  <2>. SUFFICES ASSUME NEW i \in 1 .. Len(t) PROVE t[i] = s[i + n]
    OBVIOUS
  <2>1. i \in 1 .. Len(s) - (n + 1) + 1 /\ (n + 1) + i - 1 = i + n
    BY <1>1, <1>4
  <2>. QED BY <1>3, <2>1
<1>6. t \in Seq(Byte) /\ Len(t) = Len(s) - n /\ \A i \in 1 .. Len(t) : t[i] = s[i + n]
  BY <1>3, <1>4, <1>5
<1>. QED BY <1>6 DEF t

\* Dropping the front of either keeps what follows in order.
LEMMA FollowsPart ==
  ASSUME NEW c, NEW k, NEW s \in Seq(Byte), NEW t \in Seq(Byte), Follows(c, k, s, t),
         NEW u \in Seq(Byte), NEW n \in Nat, n <= Len(s), Len(u) = Len(s) - n,
         \A i \in 1 .. Len(u) : u[i] = s[i + n]
  PROVE  Follows(c, k, u, t)
<1>1. DOMAIN s = 1 .. Len(s) /\ DOMAIN u = 1 .. Len(u) /\ Len(s) \in Nat /\ Len(u) \in Nat
  BY LenProperties
<1>2. \A i \in DOMAIN u : i + n \in DOMAIN s /\ u[i] = s[i + n]
  BY <1>1
<1>3. Len(u) + n <= Len(s)
  BY <1>1
<1>4. OwnInOrder(c, u)
  BY <1>3, OwnPart DEF Follows
<1>. QED BY <1>2, <1>4 DEF Follows

\* A chunk appended to the tail it follows is the tail of a longer reading.
LEMMA FollowsConcat ==
  ASSUME NEW c, NEW k, NEW s \in Seq(Byte), NEW t \in Seq(Byte), Follows(c, k, s, t)
  PROVE  Follows(c, k, s \o t, <<>>)
<1>. DEFINE u == s \o t
<1>1. /\ DOMAIN s = 1 .. Len(s) /\ DOMAIN t = 1 .. Len(t) /\ DOMAIN u = 1 .. Len(u)
      /\ Len(s) \in Nat /\ Len(t) \in Nat /\ Len(u) = Len(s) + Len(t)
  <2>1. u \in Seq(Byte) /\ Len(u) = Len(s) + Len(t)
    BY ConcatProperties
  <2>. HIDE DEF u
  <2>. QED BY <2>1, LenProperties
<1>2. \A i \in 1 .. Len(s) + Len(t) : u[i] = IF i <= Len(s) THEN s[i] ELSE t[i - Len(s)]
  BY ConcatProperties
<1>. HIDE DEF u
<1>3. \A i \in DOMAIN u : \/ i \in DOMAIN s /\ u[i] = s[i]
                          \/ i > Len(s) /\ i - Len(s) \in DOMAIN t /\ u[i] = t[i - Len(s)]
  BY <1>1, <1>2
<1>4. \A i \in DOMAIN u : u[i][1] = c /\ u[i][2] <= k
  BY <1>3 DEF Follows, OwnInOrder
<1>5. ASSUME NEW i \in DOMAIN u, NEW j \in DOMAIN u, i < j PROVE u[i][2] < u[j][2]
  <2>1. CASE i \in DOMAIN s /\ u[i] = s[i] /\ j \in DOMAIN s /\ u[j] = s[j]
    BY <1>5, <2>1 DEF Follows, OwnInOrder
  <2>2. CASE i \in DOMAIN s /\ u[i] = s[i] /\ j - Len(s) \in DOMAIN t /\ u[j] = t[j - Len(s)]
    BY <2>2 DEF Follows
  <2>3. CASE i > Len(s) /\ i - Len(s) \in DOMAIN t /\ u[i] = t[i - Len(s)]
    <3>1. j > Len(s) /\ j - Len(s) \in DOMAIN t /\ u[j] = t[j - Len(s)]
      BY <1>1, <1>3, <1>5, <2>3
    <3>2. i - Len(s) < j - Len(s)
      BY <1>1, <1>5
    <3>. QED BY <2>3, <3>1, <3>2 DEF Follows, OwnInOrder
  <2>. QED BY <1>3, <2>1, <2>2, <2>3
<1>6. Follows(c, k, u, <<>>)
  BY <1>4, <1>5 DEF Follows, OwnInOrder
<1>. QED BY <1>6 DEF u

LEMMA FollowsGrows ==
  ASSUME NEW c, NEW m \in Nat, NEW k \in Nat, m <= k,
         NEW s \in Seq(Byte), NEW t \in Seq(Byte), Follows(c, m, s, t)
  PROVE  Follows(c, k, s, t)
<1>1. \A i \in DOMAIN s : s[i][2] \in Nat
  BY LenProperties DEF Byte
<1>2. \A i \in DOMAIN t : t[i][2] \in Nat
  BY LenProperties DEF Byte
<1>. QED BY <1>1, <1>2 DEF Follows

\* The next bytes of the command follow the tail.
LEMMA ReadFollows ==
  ASSUME NEW c, NEW k \in Nat, NEW n \in Nat, NEW s \in Seq(Byte), NEW t \in Seq(Byte),
         NEW read \in Seq(Byte), Follows(c, k, s, t),
         Len(read) = n, \A i \in 1 .. n : read[i] = <<c, k + i>>
  PROVE  Follows(c, k + n, s, read)
<1>1. DOMAIN read = 1 .. n
  BY LenProperties
<1>2. OwnInOrder(c, read)
  BY <1>1 DEF OwnInOrder
<1>3. \A i \in DOMAIN s : s[i][2] \in Nat
  BY LenProperties DEF Byte
<1>. QED BY <1>1, <1>2, <1>3 DEF Follows

\* The last n bytes of what a reader has taken are in order too.
LEMMA FollowsLast ==
  ASSUME NEW c, NEW k, NEW s \in Seq(Byte), NEW n \in Nat, Follows(c, k, <<>>, s)
  PROVE  Follows(c, k, Last(s, n), <<>>)
<1>1. Len(s) \in Nat /\ DOMAIN s = 1 .. Len(s)
  BY LenProperties
<1>2. Follows(c, k, s, <<>>)
  BY DEF Follows, OwnInOrder
<1>3. CASE Len(s) <= n
  BY <1>2, <1>3 DEF Last
<1>4. CASE ~(Len(s) <= n)
  <2>1. Len(s) - n \in Nat /\ Len(s) - n <= Len(s) /\ Len(s) - n + 1 = (Len(s) - n) + 1
    BY <1>1, <1>4
  <2>2. Follows(c, k, SubSeq(s, (Len(s) - n) + 1, Len(s)), <<>>)
    BY <1>2, <2>1, SuffixFacts, FollowsPart, EmptySeq
  <2>. QED BY <1>4, <2>2 DEF Last
<1>. QED BY <1>3, <1>4

\* The types the output properties rest on.
OutputTypes ==
  /\ cmd \in Command /\ Command \subseteq Nat \ {0}
  /\ reader \in [Command -> {"unborn", "check", "poll", "append", "refill", "trim", "dead"}]
  /\ fd \in [Command -> Fds \union {0}] /\ closed \in [Command -> BOOLEAN]
  /\ pipeAt \in [Fds -> Command \union {0}]
  /\ chunk \in [Command -> Seq(Byte)] /\ tail \in [Command -> Seq(Byte)]
  /\ output \in [Command -> Seq(Byte)] /\ taken \in [Command -> Nat]
  /\ \A c \in Command : reader[c] # "unborn" => fd[c] \in Fds

\* A step of run() other than Spawn, Finish and NextCommand moves only its own
\* variables, and never starts or ends a command.
LEMMA OutputOfMain ==
  ASSUME Types, Types', OutputInv, Main \/ SpawnFails \/ Attest \/ NextCommand
  PROVE  OutputInv'
<1>. USE DEF Unstarted, TextTaken
<1>0. OutputTypes /\ OutputTypes'
  <2>1. Command \subseteq Nat \ {0}
    BY DEF Command
  <2>. QED BY <2>1 DEF Types, TypeOK, ReadersArePiped, OutputTypes
<1>1. ASSUME UNCHANGED <<cmd, output, reader, fd, closed, chunk, tail, pipeAt, taken>>,
             pc' = "returned" <=> pc = "returned",
             pc' \in {"idle", "spawn", "raised"} <=> pc \in {"idle", "spawn", "raised"}
      PROVE  OutputInv'
  <2>1. \A c \in Command : /\ TextTaken(c)' <=> TextTaken(c)
                           /\ Unstarted(c)' <=> Unstarted(c)
    BY <1>1
  <2>. HIDE DEF Unstarted, TextTaken
  <2>2. StartedByRun'
    BY <1>1, <2>1 DEF OutputInv, StartedByRun
  <2>3. OpenIsOwn'
    BY <1>1 DEF OutputInv, OpenIsOwn
  <2>4. ClosedByItself'
    BY <1>1, <2>1 DEF OutputInv, ClosedByItself
  <2>5. ReadIsOwn'
    BY <1>1, <2>1 DEF OutputInv, ReadIsOwn
  <2>6. OutputIsOwn'
    BY <1>1 DEF OutputInv, OutputIsOwn
  <2>. QED BY <2>2, <2>3, <2>4, <2>5, <2>6 DEF OutputInv
<1>2. CASE Spawn
  <2>1. PICK n \in Fds : /\ pipeAt[n] = 0 /\ pipeAt' = [pipeAt EXCEPT ![n] = cmd]
                         /\ fd' = [fd EXCEPT ![cmd] = n]
    BY <1>2 DEF Spawn
  <2>2. /\ reader' = [reader EXCEPT ![cmd] = "check"]
        /\ pc = "spawn" /\ pc' = "wait"
        /\ UNCHANGED <<cmd, output, closed, chunk, tail, taken>>
    BY <1>2 DEF Spawn
  <2>3. \A c \in Command : /\ TextTaken(c)' <=> TextTaken(c)
                           /\ Unstarted(c)' <=> Unstarted(c) /\ c # cmd
    BY <1>0, <2>2 DEF OutputTypes
  <2>. HIDE DEF Unstarted, TextTaken
  <2>4. reader[cmd] = "unborn" /\ ~closed[cmd]
    <3>1. cmd \in Command /\ Unstarted(cmd)
      BY <1>0, <2>2 DEF OutputTypes, Unstarted
    <3>. QED BY <3>1 DEF OutputInv, StartedByRun
  <2>5. StartedByRun'
    BY <1>0, <2>2, <2>3 DEF OutputInv, StartedByRun, OutputTypes
  <2>6. ClosedByItself'
    BY <1>0, <2>2, <2>3, <2>4 DEF OutputInv, ClosedByItself, OutputTypes
  <2>7. OutputIsOwn'
    BY <2>2 DEF OutputInv, OutputIsOwn
  <2>8. OpenIsOwn'
    <3>. SUFFICES ASSUME NEW c \in Command, reader'[c] # "unborn", ~closed'[c]
                  PROVE  pipeAt'[fd'[c]] = c
      BY DEF OpenIsOwn
    <3>1. CASE c = cmd
      BY <1>0, <2>1, <3>1 DEF OutputTypes
    <3>2. CASE c # cmd
      BY <1>0, <2>1, <2>2, <3>2 DEF OutputInv, OpenIsOwn, OutputTypes
    <3>. QED BY <3>1, <3>2
  <2>9. ReadIsOwn'
    BY <1>0, <2>2, <2>3, <2>4 DEF OutputInv, ReadIsOwn, OutputTypes
  <2>. QED BY <2>5, <2>6, <2>7, <2>8, <2>9 DEF OutputInv
<1>3. CASE Finish
  <2>1. /\ pc = "finish" /\ pc' = "returned" /\ output' = [output EXCEPT ![cmd] = tail[cmd]]
        /\ closed' = [closed EXCEPT ![cmd] = TRUE]
        /\ pipeAt' = IF closed[cmd] THEN pipeAt ELSE [pipeAt EXCEPT ![fd[cmd]] = 0]
        /\ UNCHANGED <<cmd, reader, fd, chunk, tail, taken>>
    BY <1>3 DEF Finish, Close
  <2>2. \A c \in Command : /\ TextTaken(c)' <=> TextTaken(c) \/ c = cmd
                           /\ Unstarted(c)' <=> Unstarted(c)
    BY <1>0, <2>1 DEF OutputTypes
  <2>3. ~Unstarted(cmd) /\ ~TextTaken(cmd)
    BY <1>0, <2>1 DEF OutputTypes
  <2>. HIDE DEF Unstarted, TextTaken
  <2>4. reader[cmd] # "unborn" /\ fd[cmd] \in Fds
    BY <1>0, <2>3 DEF OutputInv, StartedByRun, OutputTypes
  <2>5. StartedByRun'
    BY <1>0, <2>1, <2>2, <2>3 DEF OutputInv, StartedByRun, OutputTypes
  <2>6. ClosedByItself'
    BY <1>0, <2>1, <2>2 DEF OutputInv, ClosedByItself, OutputTypes
  <2>7. ReadIsOwn'
    BY <2>1, <2>2 DEF OutputInv, ReadIsOwn
  <2>8. OutputIsOwn'
    <3>1. OwnInOrder(cmd, tail[cmd])
      BY <1>0, <2>3 DEF OutputInv, ReadIsOwn, OutputTypes, Follows
    <3>. QED BY <1>0, <2>1, <3>1 DEF OutputInv, OutputIsOwn, OutputTypes
  <2>9. OpenIsOwn'
    BY <1>0, <2>1, <2>4 DEF OutputInv, OpenIsOwn, OutputTypes
  <2>. QED BY <2>5, <2>6, <2>7, <2>8, <2>9 DEF OutputInv
<1>4. CASE NextCommand
  <2>1. /\ pc = "returned" /\ cmd' = cmd + 1 /\ pc' = "idle"
        /\ UNCHANGED <<output, reader, fd, closed, chunk, tail, pipeAt, taken>>
    BY <1>4 DEF NextCommand, readerVars, kernelVars
  <2>2. \A c \in Command : /\ TextTaken(c)' <=> TextTaken(c)
                           /\ Unstarted(c)' <=> Unstarted(c)
    BY <1>0, <2>1 DEF OutputTypes
  <2>. HIDE DEF Unstarted, TextTaken
  <2>3. StartedByRun' /\ ClosedByItself'
    BY <2>1, <2>2 DEF OutputInv, StartedByRun, ClosedByItself
  <2>4. OpenIsOwn' /\ OutputIsOwn'
    BY <2>1 DEF OutputInv, OpenIsOwn, OutputIsOwn
  <2>5. ReadIsOwn'
    BY <2>1, <2>2 DEF OutputInv, ReadIsOwn
  <2>. QED BY <2>3, <2>4, <2>5 DEF OutputInv
<1>. HIDE DEF Unstarted, TextTaken
<1>5. CASE ReadBefore BY <1>1, <1>5 DEF ReadBefore, readerVars, kernelVars
<1>6. CASE ToolDone BY <1>1, <1>6 DEF ToolDone, readerVars
<1>7. CASE TimeOut BY <1>1, <1>7 DEF TimeOut, readerVars
<1>8. CASE Joined BY <1>1, <1>8 DEF Joined, readerVars, kernelVars
<1>9. CASE GraceEnds BY <1>1, <1>9 DEF GraceEnds, kernelVars
<1>10. CASE ReaderIsLate BY <1>1, <1>10 DEF ReaderIsLate, readerVars, kernelVars
<1>11. CASE SpawnFails BY <1>1, <1>11 DEF SpawnFails, readerVars, kernelVars
<1>12. CASE Attest BY <1>1, <1>12 DEF Attest, readerVars, kernelVars
<1>. QED
  BY <1>2, <1>3, <1>4, <1>5, <1>6, <1>7, <1>8, <1>9, <1>10, <1>11, <1>12 DEF Main

\* A reader that is not dead works on a text that is not taken only with its
\* stream open, hence on its own pipe.
LEMMA OutputOfDrain ==
  ASSUME Types, Types', OutputInv, NEW c \in Command, Drain(c)
  PROVE  OutputInv'
<1>0. OutputTypes /\ OutputTypes'
  <2>1. Command \subseteq Nat \ {0}
    BY DEF Command
  <2>. QED BY <2>1 DEF Types, TypeOK, ReadersArePiped, OutputTypes
<1>1. /\ UNCHANGED <<cmd, pc, output, fd>>
      /\ reader[c] \notin {"unborn", "dead"}
      /\ reader'[c] # "unborn" /\ \A e \in Command \ {c} : reader'[e] = reader[e]
      /\ \A e \in Command \ {c} : closed'[e] = closed[e]
  <2>1. UNCHANGED <<cmd, pc, output, fd>> /\ reader[c] \notin {"unborn", "dead"}
    BY DEF Drain, GoOn, SeeStop, ReaderEnds, ReadBytes, ReadNothing, ReadEnd, ClearTail,
           RefillTail, GrowTail, TrimTail, mainVars
  <2>2. closed' = closed \/ closed' = [closed EXCEPT ![c] = TRUE]
    BY DEF Drain, GoOn, SeeStop, ReaderEnds, ReadBytes, ReadNothing, ReadEnd, ClearTail,
           RefillTail, GrowTail, TrimTail, Close
  <2>3. \E place \in {"check", "poll", "append", "refill", "trim", "dead"} :
          reader' = [reader EXCEPT ![c] = place]
    BY DEF Drain, GoOn, SeeStop, ReaderEnds, ReadBytes, ReadNothing, ReadEnd, ClearTail,
           RefillTail, GrowTail, TrimTail, ReaderGoes
  <2>. QED BY <1>0, <2>1, <2>2, <2>3 DEF OutputTypes
<1>2. \A e \in Command : /\ TextTaken(e)' <=> TextTaken(e)
                         /\ Unstarted(e)' <=> Unstarted(e)
  BY <1>1 DEF TextTaken, Unstarted
<1>3. StartedByRun'
  <2>. SUFFICES ASSUME NEW e \in Command
                PROVE  /\ Unstarted(e) => ~closed'[e] /\ output'[e] = <<>>
                       /\ Unstarted(e) <=> reader'[e] = "unborn"
    BY <1>2 DEF StartedByRun
  <2>1. /\ Unstarted(e) => ~closed[e] /\ output[e] = <<>>
        /\ Unstarted(e) <=> reader[e] = "unborn"
    BY DEF OutputInv, StartedByRun
  <2>2. CASE e = c
    BY <1>1, <2>1, <2>2
  <2>3. CASE e # c
    BY <1>1, <2>1, <2>3
  <2>. QED BY <2>2, <2>3
<1>4. OutputIsOwn'
  BY <1>1 DEF OutputInv, OutputIsOwn
<1>5. ASSUME UNCHANGED <<closed, pipeAt>> PROVE OpenIsOwn' /\ ClosedByItself'
  BY <1>1, <1>2, <1>5 DEF OutputInv, OpenIsOwn, ClosedByItself
<1>6. ASSUME UNCHANGED <<closed, pipeAt, taken>>,
             \A e \in Command \ {c} : tail'[e] = tail[e] /\ chunk'[e] = chunk[e],
             Follows(c, taken[c], tail'[c], chunk'[c]) \/ TextTaken(c),
             reader'[c] \notin {"append", "refill"} => chunk'[c] = <<>>,
             reader'[c] = "refill" => tail'[c] = <<>>
      PROVE  OutputInv'
  <2>1. ReadIsOwn'
    <3>. SUFFICES ASSUME NEW e \in Command
                  PROVE  /\ ~TextTaken(e) => Follows(e, taken[e], tail'[e], chunk'[e])
                         /\ reader'[e] \notin {"append", "refill"} => chunk'[e] = <<>>
                         /\ reader'[e] = "refill" => tail'[e] = <<>>
      BY <1>2, <1>6 DEF ReadIsOwn
    <3>1. CASE e = c
      BY <1>6, <3>1
    <3>2. CASE e # c
      BY <1>1, <1>6, <3>2 DEF OutputInv, ReadIsOwn
    <3>. QED BY <3>1, <3>2
  <2>. QED BY <1>3, <1>4, <1>5, <1>6, <2>1 DEF OutputInv
<1>7. CASE SeeStop(c) \/ ReadEnd(c)
  <2>1. /\ reader[c] \in {"check", "poll"} /\ reader' = [reader EXCEPT ![c] = "dead"]
        /\ closed' = [closed EXCEPT ![c] = TRUE]
        /\ pipeAt' = IF closed[c] THEN pipeAt ELSE [pipeAt EXCEPT ![fd[c]] = 0]
        /\ UNCHANGED <<chunk, tail, taken>>
    BY <1>7 DEF SeeStop, ReadEnd, ReaderEnds, Close, ReaderGoes
  <2>2. OpenIsOwn'
    BY <1>0, <1>1, <2>1 DEF OutputInv, OpenIsOwn, OutputTypes
  <2>3. ClosedByItself'
    BY <1>0, <1>1, <1>2, <2>1 DEF OutputInv, ClosedByItself, OutputTypes
  <2>4. ReadIsOwn'
    BY <1>0, <1>2, <2>1 DEF OutputInv, ReadIsOwn, OutputTypes
  <2>. QED BY <1>3, <1>4, <2>2, <2>3, <2>4 DEF OutputInv
<1>8. CASE ReadBytes(c)
  <2>1. PICK d \in Command, n \in Nat, read \in Seq(Byte) :
          /\ d = pipeAt[fd[c]] /\ n > 0 /\ n <= written[d] - taken[d] /\ fd[c] \in Fds
          /\ chunk' = [chunk EXCEPT ![c] = read]
          /\ taken' = [taken EXCEPT ![d] = @ + n]
          /\ Len(read) = n /\ \A i \in 1 .. n : read[i] = <<d, taken[d] + i>>
    BY <1>8, BytesRead, Zenon
  <2>2. /\ reader' = [reader EXCEPT ![c] = "append"]
        /\ UNCHANGED <<closed, tail, pipeAt>>
    BY <1>8 DEF ReadBytes, ReaderGoes
  <2>3. ASSUME NEW e \in Command, ~TextTaken(e)
        PROVE  Follows(e, taken'[e], tail'[e], chunk'[e])
    <3>1. taken[e] \in Nat /\ taken'[e] \in Nat /\ taken[e] <= taken'[e]
      <4>1. taken \in [Command -> Nat] /\ taken' \in [Command -> Nat]
        BY <1>0 DEF OutputTypes
      <4>2. taken'[e] = IF e = d THEN taken[e] + n ELSE taken[e]
        BY <2>1, <4>1
      <4>. QED BY <4>1, <4>2
    <3>2. tail[e] \in Seq(Byte) /\ chunk[e] \in Seq(Byte) /\ tail'[e] = tail[e]
      BY <1>0, <2>2 DEF OutputTypes
    <3>3. Follows(e, taken[e], tail[e], chunk[e])
      BY <2>3 DEF OutputInv, ReadIsOwn
    <3>4. CASE e # c
      <4>1. chunk'[e] = chunk[e]
        BY <1>0, <2>1, <3>4 DEF OutputTypes
      <4>. QED BY <3>1, <3>2, <3>3, <4>1, FollowsGrows
    <3>5. CASE e = c
      <4>1. ~closed[c]
        BY <1>1, <2>3, <3>5 DEF OutputInv, ClosedByItself
      <4>2. d = c
        BY <1>1, <2>1, <4>1 DEF OutputInv, OpenIsOwn
      <4>3. taken'[c] = taken[c] + n /\ chunk'[c] = read
        BY <1>0, <2>1, <4>2 DEF OutputTypes
      <4>4. Follows(c, taken[c] + n, tail[c], read)
        <5>1. Len(read) = n /\ \A i \in 1 .. n : read[i] = <<c, taken[c] + i>>
          BY <2>1, <4>2
        <5>. QED BY <3>1, <3>2, <3>3, <3>5, <5>1, ReadFollows
      <4>. QED BY <3>2, <3>5, <4>3, <4>4
    <3>. QED BY <3>4, <3>5
  <2>4. \A e \in Command : /\ reader'[e] \notin {"append", "refill"} => chunk'[e] = <<>>
                           /\ reader'[e] = "refill" => tail'[e] = <<>>
    BY <1>0, <2>1, <2>2 DEF OutputInv, ReadIsOwn, OutputTypes
  <2>5. ReadIsOwn'
    BY <1>2, <2>3, <2>4 DEF ReadIsOwn
  <2>. QED BY <1>3, <1>4, <1>5, <2>2, <2>5 DEF OutputInv
<1>9. CASE GoOn(c) \/ ReadNothing(c)
  <2>1. reader[c] \in {"check", "poll"} /\ UNCHANGED <<closed, pipeAt, taken, tail, chunk>>
        /\ reader'[c] # "refill"
    BY <1>0, <1>9 DEF GoOn, ReadNothing, ReaderGoes, kernelVars, OutputTypes
  <2>. QED BY <1>6, <2>1 DEF OutputInv, ReadIsOwn
<1>10. ClearTail(c) \/ RefillTail(c) \/ GrowTail(c) \/ TrimTail(c) =>
         /\ UNCHANGED <<closed, pipeAt, taken>>
         /\ \A e \in Command \ {c} : tail'[e] = tail[e] /\ chunk'[e] = chunk[e]
  BY <1>0 DEF ClearTail, RefillTail, GrowTail, TrimTail, kernelVars, OutputTypes
<1>11. tail[c] \in Seq(Byte) /\ chunk[c] \in Seq(Byte)
  BY <1>0 DEF OutputTypes
<1>12. /\ ~TextTaken(c) => Follows(c, taken[c], tail[c], chunk[c])
       /\ reader[c] \notin {"append", "refill"} => chunk[c] = <<>>
       /\ reader[c] = "refill" => tail[c] = <<>>
  BY DEF OutputInv, ReadIsOwn
<1>13. CASE ClearTail(c)
  <2>1. tail'[c] = <<>> /\ chunk'[c] = chunk[c] /\ reader'[c] = "refill"
    BY <1>0, <1>13 DEF ClearTail, ReaderGoes, OutputTypes
  <2>2. Follows(c, taken[c], <<>>, chunk[c]) \/ TextTaken(c)
    BY <1>12 DEF Follows, OwnInOrder
  <2>. QED BY <1>6, <1>10, <1>13, <2>1, <2>2
<1>14. CASE RefillTail(c)
  <2>1. /\ tail'[c] = Last(chunk[c], Limit) /\ chunk'[c] = <<>>
        /\ reader'[c] = "check" /\ reader[c] = "refill"
    BY <1>0, <1>14 DEF RefillTail, ReaderGoes, OutputTypes
  <2>2. ASSUME ~TextTaken(c) PROVE Follows(c, taken[c], Last(chunk[c], Limit), <<>>)
    BY <1>11, <1>12, <2>1, <2>2, FollowsLast, ToolAssumption
  <2>. QED BY <1>6, <1>10, <1>14, <2>1, <2>2
<1>15. CASE GrowTail(c)
  <2>1. /\ tail'[c] = tail[c] \o chunk[c] /\ chunk'[c] = <<>>
        /\ reader'[c] \in {"trim", "check"}
    BY <1>0, <1>15 DEF GrowTail, ReaderGoes, OutputTypes
  <2>2. ASSUME ~TextTaken(c) PROVE Follows(c, taken[c], tail[c] \o chunk[c], <<>>)
    BY <1>11, <1>12, <2>2, FollowsConcat
  <2>. QED BY <1>6, <1>10, <1>15, <2>1, <2>2
<1>16. CASE TrimTail(c)
  <2>1. PICK n \in 1 .. Len(tail[c]) - Limit :
          tail' = [tail EXCEPT ![c] = SubSeq(@, n + 1, Len(@))]
    BY <1>16 DEF TrimTail
  <2>2. /\ tail'[c] = SubSeq(tail[c], n + 1, Len(tail[c])) /\ chunk'[c] = chunk[c]
        /\ reader[c] = "trim" /\ reader'[c] \in {"trim", "check"}
    BY <1>0, <1>16, <2>1 DEF TrimTail, ReaderGoes, OutputTypes
  <2>3. n \in Nat /\ n <= Len(tail[c])
    <3>1. Len(tail[c]) \in Nat /\ Limit \in Nat
      BY <1>11, LenProperties, ToolAssumption
    <3>. QED BY <3>1
  <2>4. ASSUME ~TextTaken(c)
        PROVE  Follows(c, taken[c], SubSeq(tail[c], n + 1, Len(tail[c])), chunk[c])
    BY <1>11, <1>12, <2>3, <2>4, SuffixFacts, FollowsPart
  <2>. QED BY <1>6, <1>10, <1>12, <1>16, <2>2, <2>4
<1>. QED
  BY <1>7, <1>8, <1>9, <1>13, <1>14, <1>15, <1>16 DEF Drain

LEMMA OutputOfWorld ==
  ASSUME OutputInv, World \/ UNCHANGED vars
  PROVE  OutputInv'
<1>1. UNCHANGED <<cmd, pc, output, reader, fd, closed, chunk, tail, pipeAt, taken>>
  BY DEF World, Write, End, OomKill, mainVars, readerVars, vars, kernelVars
<1>. QED BY <1>1 DEF OutputInv, StartedByRun, OpenIsOwn, ClosedByItself, ReadIsOwn, OutputIsOwn,
            Unstarted, TextTaken

\* The inductive invariant behind the output: whose pipe an open descriptor
\* reads, and who may have closed it before the text is taken.
THEOREM OutputInvariant == Spec => [](Types /\ OutputInv)
<1>1. Init => OutputInv
  BY ToolAssumption DEF Init, OutputInv, StartedByRun, OpenIsOwn, ClosedByItself, ReadIsOwn,
     OutputIsOwn, Unstarted, TextTaken, Follows, OwnInOrder, Command
<1>2. ASSUME Types, OutputInv, [Next]_vars PROVE OutputInv'
  BY <1>2, StepTypes, OutputOfMain, OutputOfDrain, OutputOfWorld DEF Next
<1>. QED BY <1>1, <1>2, InitTypes, StepTypes, PTL DEF Spec

\* However late its reader and whoever got its descriptor: what run() returns
\* for a command is what that command wrote, in that order.
THEOREM OutputsAreOwn == Spec => []OutputIsOwn
BY OutputInvariant, PTL DEF OutputInv

-----------------------------------------------------------------------------
(* The tail *)

\* s is the end of the first t bytes of c.
Ends(c, t, s) == Len(s) <= t /\ \A i \in 1 .. Len(s) : s[i] = <<c, t - Len(s) + i>>

\* ... as much of them as a tail keeps.
Kept(c, t, s) == Ends(c, t, s) /\ Len(s) = Least(t, Limit)

\* What a reader that works on its own pipe holds.
Held(c) ==
  /\ reader[c] \in {"check", "poll", "dead"} =>
       Kept(c, taken[c], tail[c]) /\ (truncated[c] <=> taken[c] > Limit)
  /\ reader[c] = "append" =>
       LET k == taken[c] - Len(chunk[c]) IN
       /\ Len(chunk[c]) > 0 /\ Ends(c, taken[c], chunk[c])
       /\ Kept(c, k, tail[c]) /\ (truncated[c] <=> k > Limit)
  /\ reader[c] = "refill" =>
       /\ Len(chunk[c]) >= Limit /\ Ends(c, taken[c], chunk[c])
       /\ (truncated[c] <=> taken[c] > Limit)
  /\ reader[c] = "trim" => Ends(c, taken[c], tail[c]) /\ Len(tail[c]) > Limit

HeldByReaders ==
  \A c \in Command :
    /\ reader[c] = "unborn" => tail[c] = <<>> /\ taken[c] = 0 /\ ~truncated[c]
    /\ reader[c] # "unborn" => Held(c)

\* A prompt reader is dead before the text is taken, and nothing else reads
\* the command's pipe.
TakenFromTheDead ==
  /\ pc = "finish" => reader[cmd] = "dead"
  /\ \A c \in Command : TextTaken(c) => reader[c] = "dead" /\ output[c] = tail[c]

\* A reader that was not stopped has read to the end.
ReadToTheEnd ==
  \A c \in Command :
    /\ taken[c] <= written[c]
    /\ reader[c] = "dead" /\ ~stop[c] => alive[c] = {} /\ taken[c] = written[c]

PromptInv == HeldByReaders /\ TakenFromTheDead /\ ReadToTheEnd

TailInv == OutputInv /\ (prompt => PromptInv)

\* The end of what was read, as the last bytes of all that was read.
LEMMA KeptIsLast ==
  ASSUME NEW c, NEW t \in Nat, NEW s \in Seq(Byte), Kept(c, t, s)
  PROVE  s = Last([i \in 1 .. t |-> <<c, i>>], Limit)
<1>. DEFINE all == [i \in 1 .. t |-> <<c, i>>]
<1>1. Len(all) = t
  OBVIOUS
<1>2. Len(s) \in Nat /\ s = [i \in 1 .. Len(s) |-> s[i]] /\ Limit \in Nat
  BY LenProperties, ToolAssumption
<1>3. CASE t <= Limit
  <2>1. Len(s) = t /\ \A i \in 1 .. t : s[i] = <<c, i>>
    BY <1>2, <1>3 DEF Kept, Ends, Least
  <2>2. s = all
    BY <1>2, <2>1
  <2>. QED BY <1>1, <1>3, <2>2 DEF Last
<1>4. CASE ~(t <= Limit)
  <2>1. Len(s) = Limit /\ \A i \in 1 .. Limit : s[i] = <<c, t - Limit + i>>
    BY <1>2, <1>4 DEF Kept, Ends, Least
  <2>2. all \in Seq({<<c, i>> : i \in 1 .. t}) /\ t - Limit \in Nat /\ t - Limit <= Len(all)
    BY <1>1, <1>2, <1>4
  <2>. DEFINE u == SubSeq(all, t - Limit + 1, t)
  <2>3. /\ u \in Seq({<<c, i>> : i \in 1 .. t})
        /\ Len(u) = IF t - Limit + 1 <= t THEN t - (t - Limit + 1) + 1 ELSE 0
        /\ \A i \in 1 .. t - (t - Limit + 1) + 1 : u[i] = all[t - Limit + 1 + i - 1]
    <3>1. \A i \in t - Limit + 1 .. t : all[i] \in {<<c, j>> : j \in 1 .. t}
      BY <2>2
    <3>2. t - Limit + 1 \in Int /\ t \in Int
      BY <1>2
    <3>. HIDE DEF all
    <3>. QED BY <3>1, <3>2, SubSeqProperties
  <2>. HIDE DEF u
  <2>4. Len(u) = Limit
    BY <1>2, <2>2, <2>3, ToolAssumption
  <2>5. \A i \in 1 .. Limit : u[i] = <<c, t - Limit + i>>
    <3>. SUFFICES ASSUME NEW i \in 1 .. Limit PROVE u[i] = <<c, t - Limit + i>>
      OBVIOUS
    <3>1. t \in Nat /\ Limit \in Nat /\ i \in 1 .. Limit /\ t - Limit \in Nat
      BY <1>2, <2>2
    <3>. HIDE DEF all
    <3>2. t - (t - Limit + 1) + 1 = Limit /\ t - Limit + 1 + i - 1 = t - Limit + i
      BY <3>1
    <3>3. i \in 1 .. t - (t - Limit + 1) + 1
      BY <3>1, <3>2
    <3>4. t - Limit + i \in 1 .. t
      BY <3>1
    <3>5. u[i] = all[t - Limit + i]
      BY <2>3, <3>2, <3>3
    <3>6. all[t - Limit + i] = <<c, t - Limit + i>>
      BY <3>4 DEF all
    <3>. QED BY <3>5, <3>6
  <2>6. u = [i \in 1 .. Len(u) |-> u[i]]
    BY <2>3, LenProperties
  <2>7. s = u
    BY <1>2, <2>1, <2>4, <2>5, <2>6
  <2>. QED BY <1>1, <1>4, <2>7 DEF Last, u
<1>. QED BY <1>3, <1>4

LEMMA EndsSuffix ==
  ASSUME NEW c, NEW t \in Nat, NEW s \in Seq(Byte), Ends(c, t, s), NEW n \in Nat, n <= Len(s)
  PROVE  /\ Ends(c, t, SubSeq(s, n + 1, Len(s)))
         /\ Len(SubSeq(s, n + 1, Len(s))) = Len(s) - n
<1>. DEFINE u == SubSeq(s, n + 1, Len(s))
<1>1. /\ u \in Seq(Byte) /\ Len(u) = Len(s) - n
      /\ \A i \in 1 .. Len(u) : u[i] = s[i + n]
  BY SuffixFacts
<1>. HIDE DEF u
<1>2. Len(s) \in Nat /\ Len(s) <= t /\ \A i \in 1 .. Len(s) : s[i] = <<c, t - Len(s) + i>>
  BY LenProperties DEF Ends
<1>3. \A i \in 1 .. Len(u) : u[i] = <<c, t - Len(u) + i>>
  <2>. SUFFICES ASSUME NEW i \in 1 .. Len(u) PROVE u[i] = <<c, t - Len(u) + i>>
    OBVIOUS
  <2>1. i + n \in 1 .. Len(s) /\ t - Len(s) + (i + n) = t - Len(u) + i
    BY <1>1, <1>2
  <2>2. s[i + n] = <<c, t - Len(s) + (i + n)>>
    BY <1>2, <2>1
  <2>. QED BY <1>1, <2>1, <2>2
<1>4. Len(u) <= t
  BY <1>1, <1>2
<1>5. Ends(c, t, u)
  BY <1>3, <1>4 DEF Ends
<1>. QED BY <1>1, <1>5 DEF u

LEMMA EndsLast ==
  ASSUME NEW c, NEW t \in Nat, NEW s \in Seq(Byte), Ends(c, t, s), Len(s) >= Limit
  PROVE  Kept(c, t, Last(s, Limit))
<1>1. Len(s) \in Nat /\ Limit \in Nat /\ Len(s) <= t
  BY LenProperties, ToolAssumption DEF Ends
<1>2. CASE Len(s) = Limit
  BY <1>1, <1>2 DEF Last, Kept, Least
<1>3. CASE Len(s) # Limit
  <2>1. Len(s) - Limit \in Nat /\ Len(s) - Limit <= Len(s)
    BY <1>1, <1>3
  <2>2. /\ Ends(c, t, SubSeq(s, (Len(s) - Limit) + 1, Len(s)))
        /\ Len(SubSeq(s, (Len(s) - Limit) + 1, Len(s))) = Len(s) - (Len(s) - Limit)
    BY <2>1, EndsSuffix
  <2>3. Last(s, Limit) = SubSeq(s, (Len(s) - Limit) + 1, Len(s))
    BY <1>1, <1>3 DEF Last
  <2>4. Len(s) - (Len(s) - Limit) = Least(t, Limit)
    BY <1>1 DEF Least
  <2>. QED BY <2>2, <2>3, <2>4 DEF Kept
<1>. QED BY <1>2, <1>3

LEMMA EndsConcat ==
  ASSUME NEW c, NEW t \in Nat, NEW s \in Seq(Byte), NEW r \in Seq(Byte),
         Ends(c, t, r), Ends(c, t - Len(r), s)
  PROVE  Ends(c, t, s \o r) /\ Len(s \o r) = Len(s) + Len(r)
<1>. DEFINE u == s \o r
<1>1. /\ Len(u) = Len(s) + Len(r)
      /\ \A i \in 1 .. Len(s) + Len(r) : u[i] = IF i <= Len(s) THEN s[i] ELSE r[i - Len(s)]
  BY ConcatProperties
<1>. HIDE DEF u
<1>2. /\ Len(s) \in Nat /\ Len(r) \in Nat /\ Len(r) <= t /\ Len(s) <= t - Len(r)
      /\ \A i \in 1 .. Len(s) : s[i] = <<c, (t - Len(r)) - Len(s) + i>>
      /\ \A i \in 1 .. Len(r) : r[i] = <<c, t - Len(r) + i>>
  BY LenProperties DEF Ends
<1>3. \A i \in 1 .. Len(u) : u[i] = <<c, t - Len(u) + i>>
  <2>. SUFFICES ASSUME NEW i \in 1 .. Len(u) PROVE u[i] = <<c, t - Len(u) + i>>
    OBVIOUS
  <2>1. CASE i <= Len(s)
    <3>1. i \in 1 .. Len(s) /\ (t - Len(r)) - Len(s) + i = t - Len(u) + i
      BY <1>1, <1>2, <2>1
    <3>. QED BY <1>1, <1>2, <2>1, <3>1
  <2>2. CASE ~(i <= Len(s))
    <3>1. i - Len(s) \in 1 .. Len(r) /\ t - Len(r) + (i - Len(s)) = t - Len(u) + i
      BY <1>1, <1>2, <2>2
    <3>2. u[i] = r[i - Len(s)]
      BY <1>1, <2>2
    <3>. QED BY <1>2, <3>1, <3>2
  <2>. QED BY <2>1, <2>2
<1>4. Len(u) <= t
  BY <1>1, <1>2
<1>5. Ends(c, t, u)
  BY <1>3, <1>4 DEF Ends
<1>. QED BY <1>1, <1>5 DEF u

\* The types the tail properties rest on.
TailTypes ==
  /\ OutputTypes
  /\ truncated \in [Command -> BOOLEAN] /\ stop \in [Command -> BOOLEAN]
  /\ written \in [Command -> Nat] /\ alive \in [Command -> SUBSET Processes]

LEMMA TailTyped ==
  ASSUME Types, Types'
  PROVE  TailTypes /\ TailTypes'
<1>1. Command \subseteq Nat \ {0}
  BY DEF Command
<1>. QED BY <1>1 DEF Types, TypeOK, ReadersArePiped, TailTypes, OutputTypes

LEMMA TailOfMain ==
  ASSUME Types, Types', OutputInv, prompt, PromptInv, Main \/ SpawnFails \/ Attest \/ NextCommand
  PROVE  PromptInv'
<1>0. TailTypes /\ TailTypes'
  BY TailTyped
<1>1. ASSUME UNCHANGED <<cmd, output, reader, chunk, tail, truncated, taken, written, alive>>,
             stop' = stop \/ (stop' = [stop EXCEPT ![cmd] = TRUE]),
             pc' = "returned" <=> pc = "returned",
             pc' = "finish" => reader[cmd] = "dead"
      PROVE  PromptInv'
  <2>1. \A c \in Command : TextTaken(c)' <=> TextTaken(c)
    BY <1>1 DEF TextTaken
  <2>2. HeldByReaders'
    BY <1>1 DEF PromptInv, HeldByReaders, Held
  <2>3. TakenFromTheDead'
    BY <1>1, <2>1 DEF PromptInv, TakenFromTheDead
  <2>4. \A c \in Command : stop[c] => stop'[c]
    BY <1>0, <1>1 DEF TailTypes, OutputTypes
  <2>5. ReadToTheEnd'
    BY <1>1, <2>4 DEF PromptInv, ReadToTheEnd
  <2>. QED BY <2>2, <2>3, <2>5 DEF PromptInv
<1>2. CASE Spawn
  <2>1. /\ reader' = [reader EXCEPT ![cmd] = "check"]
        /\ pc = "spawn" /\ pc' = "wait"
        /\ UNCHANGED <<cmd, output, chunk, tail, truncated, taken, written, stop>>
        /\ \A c \in Command \ {cmd} : alive'[c] = alive[c]
    BY <1>0, <1>2 DEF Spawn, TailTypes, OutputTypes
  <2>2. reader[cmd] = "unborn" /\ cmd \in Command
    <3>1. cmd \in Command /\ Unstarted(cmd)
      BY <1>0, <2>1 DEF TailTypes, OutputTypes, Unstarted
    <3>. QED BY <3>1 DEF OutputInv, StartedByRun
  <2>3. \A c \in Command : TextTaken(c)' <=> TextTaken(c)
    BY <2>1 DEF TextTaken
  <2>4. ~TextTaken(cmd)
    BY <1>0, <2>1 DEF TextTaken, TailTypes, OutputTypes
  <2>5. reader'[cmd] = "check" /\ \A c \in Command \ {cmd} : reader'[c] = reader[c]
    BY <1>0, <2>1, <2>2 DEF TailTypes, OutputTypes
  <2>6. HeldByReaders'
    <3>1. Kept(cmd, 0, <<>>)
      BY EmptySeq, ToolAssumption DEF Kept, Ends, Least
    <3>2. tail[cmd] = <<>> /\ taken[cmd] = 0 /\ ~truncated[cmd]
      BY <1>0, <2>2 DEF PromptInv, HeldByReaders, TailTypes
    <3>3. Held(cmd)'
      <4>1. tail'[cmd] = <<>> /\ taken'[cmd] = 0
        BY <2>1, <3>2
      <4>2. Kept(cmd, taken'[cmd], tail'[cmd])
        BY <3>1, <4>1
      <4>3. ~truncated'[cmd] /\ ~(taken'[cmd] > Limit)
        BY <2>1, <3>2, <4>1, ToolAssumption
      <4>. QED BY <2>1, <2>5, <4>2, <4>3 DEF Held
    <3>4. ASSUME NEW c \in Command, c # cmd
          PROVE  /\ reader'[c] = "unborn" => tail'[c] = <<>> /\ taken'[c] = 0 /\ ~truncated'[c]
                 /\ reader'[c] # "unborn" => Held(c)'
      BY <2>1, <2>5, <3>4 DEF PromptInv, HeldByReaders, Held
    <3>. QED
      <4>. SUFFICES ASSUME NEW c \in Command
                    PROVE  (/\ reader[c] = "unborn" => tail[c] = <<>> /\ taken[c] = 0 /\ ~truncated[c]
                            /\ reader[c] # "unborn" => Held(c))'
        BY DEF HeldByReaders
      <4>1. CASE c = cmd
        BY <2>1, <2>5, <3>3, <4>1
      <4>2. CASE c # cmd
        BY <3>4, <4>2
      <4>. QED BY <4>1, <4>2
  <2>7. TakenFromTheDead'
    BY <2>1, <2>3, <2>4, <2>5 DEF PromptInv, TakenFromTheDead
  <2>8. ReadToTheEnd'
    BY <2>1, <2>5 DEF PromptInv, ReadToTheEnd
  <2>. QED BY <2>6, <2>7, <2>8 DEF PromptInv
<1>3. CASE Finish
  <2>1. /\ pc = "finish" /\ pc' = "returned" /\ output' = [output EXCEPT ![cmd] = tail[cmd]]
        /\ UNCHANGED <<cmd, reader, stop, chunk, tail, truncated, taken, written, alive>>
    BY <1>3 DEF Finish
  <2>2. \A c \in Command : TextTaken(c)' <=> TextTaken(c) \/ c = cmd
    BY <1>0, <2>1 DEF TextTaken, TailTypes, OutputTypes
  <2>3. output'[cmd] = tail[cmd] /\ \A c \in Command \ {cmd} : output'[c] = output[c]
    BY <1>0, <2>1 DEF TailTypes, OutputTypes
  <2>4. TakenFromTheDead'
    BY <2>1, <2>2, <2>3 DEF PromptInv, TakenFromTheDead
  <2>5. HeldByReaders' /\ ReadToTheEnd'
    BY <2>1 DEF PromptInv, HeldByReaders, Held, ReadToTheEnd
  <2>. QED BY <2>4, <2>5 DEF PromptInv
<1>4. CASE NextCommand
  <2>1. /\ pc = "returned" /\ cmd' = cmd + 1 /\ pc' = "idle"
        /\ UNCHANGED <<output, reader, stop, chunk, tail, truncated, taken, written, alive>>
    BY <1>4 DEF NextCommand, readerVars, kernelVars
  <2>2. \A c \in Command : TextTaken(c)' <=> TextTaken(c)
    <3>1. cmd \in Nat /\ Command \subseteq Nat
      BY <1>0 DEF TailTypes, OutputTypes
    <3>2. \A c \in Nat : c < cmd + 1 <=> c < cmd \/ c = cmd
      BY <3>1
    <3>3. \A c \in Command : c < cmd' <=> c < cmd \/ c = cmd
      BY <2>1, <3>1, <3>2
    <3>. QED BY <2>1, <3>3 DEF TextTaken
  <2>3. TakenFromTheDead'
    BY <2>1, <2>2 DEF PromptInv, TakenFromTheDead
  <2>4. HeldByReaders' /\ ReadToTheEnd'
    BY <2>1 DEF PromptInv, HeldByReaders, Held, ReadToTheEnd
  <2>. QED BY <2>3, <2>4 DEF PromptInv
<1>5. CASE ReadBefore BY <1>1, <1>5 DEF ReadBefore, readerVars, kernelVars
<1>6. CASE ToolDone BY <1>1, <1>6 DEF ToolDone, readerVars
<1>7. CASE TimeOut BY <1>1, <1>7 DEF TimeOut, readerVars, PromptInv, TakenFromTheDead
<1>8. CASE Joined BY <1>1, <1>8 DEF Joined, readerVars, kernelVars
<1>9. CASE GraceEnds BY <1>1, <1>9 DEF GraceEnds, kernelVars
<1>10. ~ReaderIsLate
  BY DEF ReaderIsLate
<1>11. CASE SpawnFails BY <1>1, <1>11 DEF SpawnFails, readerVars, kernelVars
<1>12. CASE Attest BY <1>1, <1>12 DEF Attest, readerVars, kernelVars
<1>. QED
  BY <1>2, <1>3, <1>4, <1>5, <1>6, <1>7, <1>8, <1>9, <1>10, <1>11, <1>12 DEF Main

LEMMA TailOfDrain ==
  ASSUME Types, Types', OutputInv, prompt, PromptInv, NEW c \in Command, Drain(c)
  PROVE  PromptInv'
<1>0. TailTypes /\ TailTypes'
  BY TailTyped
<1>1. /\ UNCHANGED <<cmd, pc, output, stop, written, alive>>
      /\ reader[c] \notin {"unborn", "dead"}
      /\ reader'[c] # "unborn" /\ \A e \in Command \ {c} : reader'[e] = reader[e]
  <2>1. UNCHANGED <<cmd, pc, output, stop, written, alive>> /\ reader[c] \notin {"unborn", "dead"}
    BY DEF Drain, GoOn, SeeStop, ReaderEnds, ReadBytes, ReadNothing, ReadEnd, ClearTail,
           RefillTail, GrowTail, TrimTail, mainVars, kernelVars
  <2>2. \E place \in {"check", "poll", "append", "refill", "trim", "dead"} :
          reader' = [reader EXCEPT ![c] = place]
    BY DEF Drain, GoOn, SeeStop, ReaderEnds, ReadBytes, ReadNothing, ReadEnd, ClearTail,
           RefillTail, GrowTail, TrimTail, ReaderGoes
  <2>. QED BY <1>0, <2>1, <2>2 DEF TailTypes, OutputTypes
<1>2. ~TextTaken(c) /\ (pc = "finish" => c # cmd)
  BY <1>1 DEF PromptInv, TakenFromTheDead
<1>3. ~closed[c] /\ Piped(c) = c /\ c # 0
  BY <1>0, <1>1, <1>2 DEF OutputInv, ClosedByItself, OpenIsOwn, Piped, TailTypes, OutputTypes
<1>4. /\ taken[c] \in Nat /\ taken'[c] \in Nat /\ written[c] \in Nat /\ taken[c] <= written[c]
      /\ tail[c] \in Seq(Byte) /\ chunk[c] \in Seq(Byte)
      /\ truncated[c] \in BOOLEAN /\ truncated'[c] \in BOOLEAN
      /\ Limit \in Nat /\ Limit > 0
  BY <1>0, ToolAssumption DEF TailTypes, OutputTypes, PromptInv, ReadToTheEnd
<1>5. Held(c)
  BY <1>1 DEF PromptInv, HeldByReaders
<1>6. \A e \in Command \ {c} : /\ tail'[e] = tail[e] /\ chunk'[e] = chunk[e]
                               /\ truncated'[e] = truncated[e] /\ taken'[e] = taken[e]
  <2>1. UNCHANGED truncated \/ \E b : truncated' = [truncated EXCEPT ![c] = b]
    BY DEF Drain, GoOn, SeeStop, ReaderEnds, ReadBytes, ReadNothing, ReadEnd, ClearTail,
           RefillTail, GrowTail, TrimTail
  <2>2. UNCHANGED tail \/ \E b : tail' = [tail EXCEPT ![c] = b]
    BY DEF Drain, GoOn, SeeStop, ReaderEnds, ReadBytes, ReadNothing, ReadEnd, ClearTail,
           RefillTail, GrowTail, TrimTail
  <2>3. UNCHANGED chunk \/ \E b : chunk' = [chunk EXCEPT ![c] = b]
    BY DEF Drain, GoOn, SeeStop, ReaderEnds, ReadBytes, ReadNothing, ReadEnd, ClearTail,
           RefillTail, GrowTail, TrimTail
  <2>4. UNCHANGED taken \/ \E b : taken' = [taken EXCEPT ![c] = b]
    BY <1>3 DEF Drain, GoOn, SeeStop, ReaderEnds, ReadBytes, ReadNothing, ReadEnd, ClearTail,
           RefillTail, GrowTail, TrimTail, kernelVars
  <2>. QED BY <1>0, <2>1, <2>2, <2>3, <2>4 DEF TailTypes, OutputTypes
<1>7. ASSUME Held(c)', taken'[c] <= written[c],
             reader'[c] = "dead" /\ ~stop[c] => alive[c] = {} /\ taken'[c] = written[c]
      PROVE  PromptInv'
  <2>1. HeldByReaders'
    <3>. SUFFICES ASSUME NEW e \in Command
                  PROVE  (/\ reader[e] = "unborn" => tail[e] = <<>> /\ taken[e] = 0 /\ ~truncated[e]
                          /\ reader[e] # "unborn" => Held(e))'
      BY DEF HeldByReaders
    <3>1. CASE e = c
      BY <1>1, <1>7, <3>1
    <3>2. CASE e # c
      BY <1>1, <1>6, <3>2 DEF PromptInv, HeldByReaders, Held
    <3>. QED BY <3>1, <3>2
  <2>2. TakenFromTheDead'
    <3>1. \A e \in Command : TextTaken(e)' <=> TextTaken(e)
      BY <1>1 DEF TextTaken
    <3>2. pc' = "finish" => reader'[cmd] = "dead"
      BY <1>0, <1>1, <1>2 DEF PromptInv, TakenFromTheDead, TailTypes, OutputTypes
    <3>3. ASSUME NEW e \in Command, TextTaken(e) PROVE reader'[e] = "dead" /\ output'[e] = tail'[e]
      BY <1>1, <1>2, <1>6, <3>3 DEF PromptInv, TakenFromTheDead
    <3>. QED BY <1>1, <3>1, <3>2, <3>3 DEF TakenFromTheDead
  <2>3. ReadToTheEnd'
    BY <1>1, <1>6, <1>7 DEF PromptInv, ReadToTheEnd
  <2>. QED BY <2>1, <2>2, <2>3 DEF PromptInv
<1>8. CASE GoOn(c) \/ ReadNothing(c) \/ SeeStop(c) \/ ReadEnd(c)
  <2>1. /\ reader[c] \in {"check", "poll"} /\ reader'[c] \in {"check", "poll", "dead"}
        /\ UNCHANGED <<chunk, tail, truncated, taken>>
    BY <1>0, <1>8 DEF GoOn, ReadNothing, SeeStop, ReadEnd, ReaderEnds, ReaderGoes, kernelVars,
                      TailTypes, OutputTypes
  <2>2. Held(c)'
    BY <1>5, <2>1 DEF Held
  <2>3. ASSUME reader'[c] = "dead", ~stop[c] PROVE alive[c] = {} /\ taken[c] = written[c]
    <3>1. ReadEnd(c)
      BY <1>0, <1>8, <2>3 DEF GoOn, ReadNothing, SeeStop, ReaderGoes, TailTypes, OutputTypes
    <3>2. alive[c] = {} /\ ~(written[c] - taken[c] > 0)
      BY <1>3, <3>1 DEF ReadEnd, HasBytes, Available
    <3>. QED BY <1>4, <3>2
  <2>. QED BY <1>4, <1>7, <2>1, <2>2, <2>3
<1>9. CASE ReadBytes(c)
  <2>1. PICK n \in Nat, read \in Seq(Byte) :
          /\ n > 0 /\ n <= written[c] - taken[c]
          /\ chunk'[c] = read /\ taken'[c] = taken[c] + n
          /\ Len(read) = n /\ \A i \in 1 .. n : read[i] = <<c, taken[c] + i>>
    <3>1. PICK d \in Command, n \in Nat, read \in Seq(Byte) :
            /\ d = pipeAt[fd[c]] /\ n > 0 /\ n <= written[d] - taken[d] /\ fd[c] \in Fds
            /\ chunk' = [chunk EXCEPT ![c] = read]
            /\ taken' = [taken EXCEPT ![d] = @ + n]
            /\ Len(read) = n /\ \A i \in 1 .. n : read[i] = <<d, taken[d] + i>>
      BY <1>9, BytesRead, Zenon
    <3>2. d = c
      BY <1>3, <3>1 DEF Piped
    <3>3. chunk'[c] = read /\ taken'[c] = taken[c] + n
      BY <1>0, <3>1, <3>2 DEF TailTypes, OutputTypes
    <3>. QED BY <3>1, <3>2, <3>3
  <2>2. /\ reader[c] = "poll" /\ reader'[c] = "append"
        /\ tail'[c] = tail[c] /\ truncated'[c] = truncated[c]
    BY <1>0, <1>9 DEF ReadBytes, ReaderGoes, TailTypes, OutputTypes
  <2>3. taken'[c] - Len(chunk'[c]) = taken[c] /\ taken'[c] <= written[c] /\ Len(chunk'[c]) > 0
    BY <1>4, <2>1
  <2>4. Ends(c, taken'[c], chunk'[c])
    BY <1>4, <2>1, <2>3 DEF Ends
  <2>5. Kept(c, taken[c], tail'[c]) /\ (truncated'[c] <=> taken[c] > Limit)
    BY <1>5, <2>2 DEF Held
  <2>6. Held(c)'
    BY <2>2, <2>3, <2>4, <2>5 DEF Held
  <2>. QED BY <1>7, <2>2, <2>3, <2>6
<1>10. CASE ClearTail(c)
  <2>1. /\ reader[c] = "append" /\ reader'[c] = "refill"
        /\ Len(chunk[c]) >= Limit
        /\ truncated'[c] <=> truncated[c] \/ tail[c] # <<>> \/ Len(chunk[c]) > Limit
        /\ chunk'[c] = chunk[c] /\ taken'[c] = taken[c]
    BY <1>0, <1>10 DEF ClearTail, ReaderGoes, kernelVars, TailTypes, OutputTypes
  <2>2. /\ Ends(c, taken[c], chunk[c])
        /\ Len(tail[c]) = Least(taken[c] - Len(chunk[c]), Limit)
        /\ truncated[c] <=> taken[c] - Len(chunk[c]) > Limit
    BY <1>5, <2>1 DEF Held, Kept
  <2>3. /\ Len(chunk[c]) \in Nat /\ Len(chunk[c]) <= taken[c]
        /\ Len(tail[c]) \in Nat /\ (tail[c] = <<>> <=> Len(tail[c]) = 0)
    BY <1>4, <2>2, LenProperties, EmptySeq DEF Ends
  <2>4. truncated'[c] <=> taken[c] > Limit
    BY <1>4, <2>1, <2>2, <2>3 DEF Least
  <2>5. Held(c)'
    BY <2>1, <2>2, <2>4 DEF Held
  <2>. QED BY <1>4, <1>7, <2>1, <2>5
<1>11. CASE RefillTail(c)
  <2>1. /\ reader[c] = "refill" /\ reader'[c] = "check"
        /\ tail'[c] = Last(chunk[c], Limit)
        /\ truncated'[c] = truncated[c] /\ taken'[c] = taken[c]
    BY <1>0, <1>11 DEF RefillTail, ReaderGoes, kernelVars, TailTypes, OutputTypes
  <2>2. /\ Len(chunk[c]) >= Limit /\ Ends(c, taken[c], chunk[c])
        /\ truncated[c] <=> taken[c] > Limit
    BY <1>5, <2>1 DEF Held
  <2>3. Kept(c, taken[c], Last(chunk[c], Limit))
    BY <1>4, <2>2, EndsLast
  <2>4. Held(c)'
    BY <2>1, <2>2, <2>3 DEF Held
  <2>. QED BY <1>4, <1>7, <2>1, <2>4
<1>12. CASE GrowTail(c)
  <2>1. /\ reader[c] = "append" /\ tail'[c] = tail[c] \o chunk[c]
        /\ reader'[c] = IF Len(tail'[c]) > Limit THEN "trim" ELSE "check"
        /\ truncated'[c] = truncated[c] /\ taken'[c] = taken[c]
    BY <1>0, <1>12 DEF GrowTail, ReaderGoes, kernelVars, TailTypes, OutputTypes
  <2>2. /\ Len(chunk[c]) > 0 /\ Ends(c, taken[c], chunk[c])
        /\ Ends(c, taken[c] - Len(chunk[c]), tail[c])
        /\ Len(tail[c]) = Least(taken[c] - Len(chunk[c]), Limit)
        /\ truncated[c] <=> taken[c] - Len(chunk[c]) > Limit
    BY <1>5, <2>1 DEF Held, Kept
  <2>3. Ends(c, taken[c], tail'[c]) /\ Len(tail'[c]) = Len(tail[c]) + Len(chunk[c])
    <3>1. /\ Ends(c, taken[c], tail[c] \o chunk[c])
          /\ Len(tail[c] \o chunk[c]) = Len(tail[c]) + Len(chunk[c])
      BY <1>4, <2>2, EndsConcat, Zenon
    <3>. QED BY <2>1, <3>1, Zenon
  <2>4. Len(chunk[c]) \in Nat /\ Len(chunk[c]) <= taken[c] /\ Len(tail[c]) \in Nat
    BY <1>4, <2>2, LenProperties DEF Ends
  <2>5. CASE Len(tail'[c]) > Limit
    BY <1>4, <1>7, <2>1, <2>3, <2>5 DEF Held
  <2>6. CASE ~(Len(tail'[c]) > Limit)
    <3>1. taken[c] - Len(chunk[c]) <= Limit /\ Len(tail'[c]) = taken[c] /\ taken[c] <= Limit
      BY <1>4, <2>2, <2>3, <2>4, <2>6 DEF Least
    <3>2. Kept(c, taken[c], tail'[c])
      <4>1. Least(taken[c], Limit) = taken[c]
        BY <1>4, <3>1 DEF Least
      <4>. QED BY <2>3, <3>1, <4>1, Zenon DEF Kept
    <3>3. ~truncated'[c] /\ ~(taken[c] > Limit)
      BY <1>4, <2>1, <2>2, <2>4, <3>1
    <3>4. Held(c)'
      BY <2>1, <2>6, <3>2, <3>3 DEF Held
    <3>. QED BY <1>4, <1>7, <2>1, <2>6, <3>4
  <2>. QED BY <2>5, <2>6
<1>13. CASE TrimTail(c)
  <2>1. PICK n \in 1 .. Len(tail[c]) - Limit :
          tail' = [tail EXCEPT ![c] = SubSeq(@, n + 1, Len(@))]
    BY <1>13 DEF TrimTail
  <2>2. /\ reader[c] = "trim" /\ tail'[c] = SubSeq(tail[c], n + 1, Len(tail[c]))
        /\ reader'[c] = IF Len(tail'[c]) > Limit THEN "trim" ELSE "check"
        /\ truncated'[c] /\ taken'[c] = taken[c]
    BY <1>0, <1>13, <2>1 DEF TrimTail, ReaderGoes, kernelVars, TailTypes, OutputTypes
  <2>3. Ends(c, taken[c], tail[c]) /\ Len(tail[c]) > Limit
    BY <1>5, <2>2 DEF Held
  <2>4. Len(tail[c]) \in Nat /\ Len(tail[c]) <= taken[c]
    BY <1>4, <2>3, LenProperties DEF Ends
  <2>5. n \in Nat /\ n <= Len(tail[c]) /\ Len(tail[c]) - n >= Limit
    BY <1>4, <2>1, <2>4
  <2>6. Ends(c, taken[c], tail'[c]) /\ Len(tail'[c]) = Len(tail[c]) - n
    BY <1>4, <2>2, <2>3, <2>5, EndsSuffix
  <2>7. CASE Len(tail'[c]) > Limit
    BY <1>4, <1>7, <2>2, <2>6, <2>7 DEF Held
  <2>8. CASE ~(Len(tail'[c]) > Limit)
    <3>1. Len(tail'[c]) = Least(taken[c], Limit) /\ taken[c] > Limit
      BY <1>4, <2>3, <2>4, <2>5, <2>6, <2>8 DEF Least
    <3>2. Held(c)'
      BY <2>2, <2>6, <2>8, <3>1 DEF Held, Kept
    <3>. QED BY <1>4, <1>7, <2>2, <2>8, <3>2
  <2>. QED BY <2>7, <2>8
<1>. QED
  BY <1>8, <1>9, <1>10, <1>11, <1>12, <1>13 DEF Drain

LEMMA TailOfWorld ==
  ASSUME Types, Types', PromptInv, World \/ UNCHANGED vars
  PROVE  PromptInv'
<1>0. TailTypes /\ TailTypes'
  BY TailTyped
<1>1. UNCHANGED <<cmd, pc, output, reader, stop, chunk, tail, truncated, taken>>
  BY DEF World, Write, End, OomKill, mainVars, readerVars, vars, kernelVars
<1>2. HeldByReaders' /\ TakenFromTheDead'
  BY <1>1 DEF PromptInv, HeldByReaders, Held, TakenFromTheDead, TextTaken
<1>3. ASSUME UNCHANGED written, \A e \in Command : alive'[e] \subseteq alive[e]
      PROVE  ReadToTheEnd'
  BY <1>1, <1>3 DEF PromptInv, ReadToTheEnd
<1>4. ASSUME NEW c \in Command, Write(c) PROVE ReadToTheEnd'
  <2>1. UNCHANGED alive /\ alive[c] # {}
    BY <1>4 DEF Write
  <2>2. written'[c] = written[c] + 1 /\ \A e \in Command \ {c} : written'[e] = written[e]
    BY <1>0, <1>4 DEF Write, TailTypes
  <2>3. taken[c] \in Nat /\ written[c] \in Nat
    BY <1>0 DEF TailTypes, OutputTypes
  <2>. QED BY <1>1, <2>1, <2>2, <2>3 DEF PromptInv, ReadToTheEnd
<1>5. ASSUME NEW c \in Command, NEW p \in Processes, End(c, p) \/ OomKill(c, p)
      PROVE  ReadToTheEnd'
  BY <1>0, <1>3, <1>5 DEF End, OomKill, Gone, TailTypes
<1>6. ASSUME UNCHANGED vars PROVE ReadToTheEnd'
  BY <1>3, <1>6 DEF vars, kernelVars
<1>7. ReadToTheEnd'
  BY <1>4, <1>5, <1>6 DEF World
<1>. QED BY <1>2, <1>7 DEF PromptInv

\* The inductive invariant behind the tail: what a reader holds at each of its
\* statements, as the end of the bytes it has taken.
THEOREM TailInvariant == Spec => [](Types /\ TailInv)
<1>1. Init => TailInv
  <2>. SUFFICES ASSUME Init PROVE OutputInv /\ PromptInv
    BY DEF TailInv
  <2>1. OutputInv
    BY ToolAssumption DEF Init, OutputInv, StartedByRun, OpenIsOwn, ClosedByItself, ReadIsOwn,
       OutputIsOwn, Unstarted, TextTaken, Follows, OwnInOrder, Command
  <2>2. PromptInv
    BY ToolAssumption DEF Init, PromptInv, HeldByReaders, TakenFromTheDead, ReadToTheEnd,
       TextTaken, Command
  <2>. QED BY <2>1, <2>2
<1>2. ASSUME Types, TailInv, [Next]_vars PROVE TailInv'
  <2>1. Types'
    BY <1>2, StepTypes
  <2>2. OutputInv'
    BY <1>2, <2>1, OutputOfMain, OutputOfDrain, OutputOfWorld DEF TailInv, Next
  <2>3. prompt' = prompt
    BY <1>2 DEF Next, Main, ReadBefore, Spawn, ToolDone, TimeOut, Joined, GraceEnds, ReaderIsLate,
       Finish, SpawnFails, Attest, NextCommand, Drain, GoOn, SeeStop, ReaderEnds, ReadBytes,
       ReadNothing, ReadEnd, ClearTail, RefillTail, GrowTail, TrimTail, World, Write, End, OomKill,
       kernelVars, vars
  <2>4. ASSUME prompt PROVE PromptInv'
    BY <1>2, <2>1, <2>4, TailOfMain, TailOfDrain, TailOfWorld DEF TailInv, Next
  <2>. QED BY <2>2, <2>3, <2>4 DEF TailInv
<1>. QED BY <1>1, <1>2, InitTypes, StepTypes, PTL DEF Spec

\* With prompt threads run() returns the last MAX_TOOL_OUTPUT_BYTES of what the
\* command wrote until its pipe was drained or its reader was stopped, and of
\* everything when nothing escaped; for any chunk size, limit and output.
THEOREM OutputsAreTails == Spec => []OutputIsTail
<1>1. ASSUME Types, TailInv PROVE OutputIsTail
  <2>. SUFFICES ASSUME prompt, NEW c \in Command, TextTaken(c)
                PROVE  /\ output[c] = Last([i \in 1 .. taken[c] |-> <<c, i>>], Limit)
                       /\ truncated[c] <=> taken[c] > Limit
                       /\ alive[c] = {} /\ ~stop[c] => taken[c] = written[c]
    BY DEF OutputIsTail
  <2>1. HeldByReaders /\ TakenFromTheDead /\ ReadToTheEnd
    BY <1>1 DEF TailInv, PromptInv
  <2>2. reader[c] = "dead" /\ output[c] = tail[c]
    BY <2>1 DEF TakenFromTheDead
  <2>3. Kept(c, taken[c], tail[c]) /\ (truncated[c] <=> taken[c] > Limit)
    BY <2>1, <2>2 DEF HeldByReaders, Held
  <2>4. taken[c] \in Nat /\ tail[c] \in Seq(Byte) /\ truncated[c] \in BOOLEAN
    BY <1>1 DEF Types, TypeOK
  <2>5. output[c] = Last([i \in 1 .. taken[c] |-> <<c, i>>], Limit)
    BY <2>2, <2>3, <2>4, KeptIsLast
  <2>6. ~stop[c] => taken[c] = written[c]
    BY <2>1, <2>2 DEF ReadToTheEnd
  <2>. QED BY <2>3, <2>5, <2>6, Zenon
<1>. QED BY <1>1, TailInvariant, PTL

=============================================================================
