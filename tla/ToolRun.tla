------------------------------ MODULE ToolRun -------------------------------
(***************************************************************************)
(* How the judge runs its tools, one after the other: run() starts a       *)
(* command in a process group of its own, a daemon thread drains its pipe  *)
(* into a bounded tail, the group is killed, the thread is given a short   *)
(* grace, and the cgroup's OOM counter read before and after says whether  *)
(* the kernel killed something meanwhile.                                  *)
(*                                                                         *)
(* A command is its own process, a descendant in its group and one that    *)
(* left the group; each may hold the pipe.  Byte i that command c writes   *)
(* is <<c, i>>.  Time is left out: waits and joins may time out whenever   *)
(* the scheduling allows it: a prompt run is one in which a thread that    *)
(* could run never waits for a whole grace period.                         *)
(***************************************************************************)
EXTENDS Integers, Sequences, Folds, Functions

CONSTANTS
  Commands,    \* how many commands the judge runs
  Fds,         \* the descriptor numbers a pipe may get
  Limit,       \* MAX_TOOL_OUTPUT_BYTES
  ChunkSize,   \* what one os.read returns at most
  MaxBytes,    \* bound: bytes the commands write, by `prompt`
  MaxKills,    \* bound: processes the kernel kills for memory, by `prompt`
  Families,    \* bound: the sets of descendants a tool may have
  Isolations,  \* bound: the environments the judge may run in, by `prompt`
  CounterReadable  \* there is a cgroup-v2 memory.events to read

ASSUME ToolAssumption ==
  /\ Commands \in Nat \ {0} /\ Limit \in Nat \ {0} /\ ChunkSize \in Nat \ {0}
  /\ MaxBytes \in [BOOLEAN -> Nat] /\ MaxKills \in [BOOLEAN -> Nat] /\ CounterReadable \in BOOLEAN
  /\ 0 \notin Fds /\ Families \subseteq SUBSET {"child", "escapee"}
  /\ Isolations \in [BOOLEAN -> SUBSET SUBSET {"container", "memory", "wrapper"}]

VARIABLES
  \* the judge's main thread
  cmd,         \* the command it runs
  pc,          \* where it is in run()
  before,      \* oom_kills_before
  latch,       \* _LAST_RUN_OOM_KILL
  timedOut, output, attested,
  \* the reader threads and their streams
  reader, stop, fd, closed, chunk, tail, truncated,
  \* the processes, their pipes and the kernel
  alive,       \* [command -> the processes that run]
  doomed,      \* those of them that have been sent SIGKILL
  exit,        \* [command -> its own process' exit]
  pipeAt,      \* [descriptor -> the command whose pipe it reads, or 0]
  written, taken,
  oomKills,
  prompt,      \* the scheduling of this run
  isolation,   \* what of the official isolation the judge finds around it
  killedIn, ownKills   \* history: the commands during which, or of which, OOM killed

mainVars == <<cmd, pc, before, latch, timedOut, output, attested>>
readerVars == <<reader, stop, fd, closed, chunk, tail, truncated>>
kernelVars == <<alive, doomed, exit, pipeAt, written, taken, oomKills, prompt, isolation,
                killedIn, ownKills>>
vars == <<mainVars, readerVars, kernelVars>>

Command == 1 .. Commands
Processes == {"tool", "child", "escapee"}
Group == {"tool", "child"}
Exits == {"none", "other", "sigkill"}
Byte == Command \X Nat

\* SANDBOX_MODE is container, the policy's memory envelope is one, and
\* run_isolated.sh attests itself.
Canonical == {"container", "memory", "wrapper"}

InRun == pc \notin {"idle", "returned", "raised"}

-----------------------------------------------------------------------------
Init ==
  /\ cmd = 1 /\ pc = "idle" /\ before = 0 /\ latch = FALSE
  /\ timedOut = [c \in Command |-> FALSE]
  /\ output = [c \in Command |-> <<>>]
  /\ attested = [c \in Command |-> "unasked"]
  /\ reader = [c \in Command |-> "unborn"] /\ stop = [c \in Command |-> FALSE]
  /\ fd = [c \in Command |-> 0] /\ closed = [c \in Command |-> FALSE]
  /\ chunk = [c \in Command |-> <<>>] /\ tail = [c \in Command |-> <<>>]
  /\ truncated = [c \in Command |-> FALSE]
  /\ alive = [c \in Command |-> {}] /\ doomed = [c \in Command |-> {}]
  /\ exit = [c \in Command |-> "none"]
  /\ pipeAt = [n \in Fds |-> 0]
  /\ written = [c \in Command |-> 0] /\ taken = [c \in Command |-> 0]
  /\ oomKills = 0 /\ prompt \in BOOLEAN /\ isolation \in Isolations[prompt]
  /\ killedIn = {} /\ ownKills = {}

-----------------------------------------------------------------------------
(* run() *)

\* Mutant of ReadBefore: the counter is read once, by the first command.
ReadBefore_Once ==
  /\ pc = "idle" /\ pc' = "spawn"
  /\ before' = before
  /\ latch' = FALSE
  /\ UNCHANGED <<cmd, timedOut, output, attested, readerVars, kernelVars>>

ReadBefore ==
  /\ pc = "idle" /\ pc' = "spawn"
  /\ before' = oomKills
  /\ latch' = FALSE
  /\ UNCHANGED <<cmd, timedOut, output, attested, readerVars, kernelVars>>

\* Popen gives the pipe any free descriptor, one a reader has just lost too.
Spawn ==
  /\ pc = "spawn" /\ pc' = "wait"
  /\ \E n \in Fds, others \in Families :
       /\ pipeAt[n] = 0
       /\ pipeAt' = [pipeAt EXCEPT ![n] = cmd]
       /\ fd' = [fd EXCEPT ![cmd] = n]
       /\ alive' = [alive EXCEPT ![cmd] = {"tool"} \union others]
  /\ reader' = [reader EXCEPT ![cmd] = "check"]
  /\ UNCHANGED <<cmd, before, latch, timedOut, output, attested, stop, closed, chunk, tail,
                 truncated, doomed, exit, written, taken, oomKills, prompt, isolation,
                 killedIn, ownKills>>

\* The tool is missing: InfraError, after the `finally` block.
SpawnFails ==
  /\ pc = "spawn" /\ pc' = "raised"
  /\ latch' = (CounterReadable /\ oomKills > before)
  /\ UNCHANGED <<cmd, before, timedOut, output, attested, readerVars, kernelVars>>

KillGroup == doomed' = [doomed EXCEPT ![cmd] = @ \union (alive[cmd] \intersect Group)]

\* p.wait returns, and the rest of the group is killed.
ToolDone ==
  /\ pc = "wait" /\ "tool" \notin alive[cmd]
  /\ pc' = "join" /\ KillGroup
  /\ UNCHANGED <<cmd, before, latch, timedOut, output, attested, readerVars, alive, exit, pipeAt,
                 written, taken, oomKills, prompt, isolation,
                 killedIn, ownKills>>

\* p.wait times out; the second p.wait is ToolDone once more.
TimeOut ==
  /\ pc = "wait" /\ "tool" \in alive[cmd] /\ ~timedOut[cmd]
  /\ timedOut' = [timedOut EXCEPT ![cmd] = TRUE] /\ KillGroup
  /\ UNCHANGED <<cmd, pc, before, latch, output, attested, readerVars, alive, exit, pipeAt,
                 written, taken, oomKills, prompt, isolation,
                 killedIn, ownKills>>

Joined ==
  /\ pc \in {"join", "rejoin"} /\ reader[cmd] = "dead"
  /\ pc' = "finish"
  /\ UNCHANGED <<cmd, before, latch, timedOut, output, attested, readerVars, kernelVars>>

\* Mutant of GraceEnds: the reader is joined without a timeout.
GraceEnds_Never ==
  /\ pc = "join" /\ reader[cmd] = "dead"
  /\ pc' = "rejoin"
  /\ stop' = [stop EXCEPT ![cmd] = TRUE]
  /\ UNCHANGED <<cmd, before, latch, timedOut, output, attested,
                 reader, fd, closed, chunk, tail, truncated, kernelVars>>

\* The first grace ends with the reader alive.  A prompt reader is only late
\* when a process that escaped the kill holds the pipe.
GraceEnds ==
  /\ pc = "join" /\ reader[cmd] # "dead"
  /\ prompt => alive[cmd] \ doomed[cmd] # {}
  /\ pc' = "rejoin"
  /\ stop' = [stop EXCEPT ![cmd] = TRUE]
  /\ UNCHANGED <<cmd, before, latch, timedOut, output, attested,
                 reader, fd, closed, chunk, tail, truncated, kernelVars>>

\* The second: a prompt reader has seen the event by then.
ReaderIsLate ==
  /\ pc = "rejoin" /\ reader[cmd] # "dead" /\ ~prompt
  /\ pc' = "finish"
  /\ UNCHANGED <<cmd, before, latch, timedOut, output, attested, readerVars, kernelVars>>

Close(c) ==
  /\ closed' = [closed EXCEPT ![c] = TRUE]
  /\ pipeAt' = IF closed[c] THEN pipeAt ELSE [pipeAt EXCEPT ![fd[c]] = 0]

\* The text is taken; the `finally` block kills, closes and reads the counter.
Finish ==
  /\ pc = "finish" /\ pc' = "returned"
  /\ output' = [output EXCEPT ![cmd] = tail[cmd]]
  /\ KillGroup /\ Close(cmd)
  /\ latch' = (CounterReadable /\ oomKills > before)
  /\ UNCHANGED <<cmd, before, timedOut, attested, reader, stop, fd, chunk, tail, truncated,
                 alive, exit, written, taken, oomKills, prompt, isolation,
                 killedIn, ownKills>>

\* _attested_local_memory_kill, asked about an exit code and not a timeout.
Attest ==
  /\ pc = "returned" /\ ~timedOut[cmd] /\ attested[cmd] = "unasked"
  /\ attested' = [attested EXCEPT ![cmd] =
                    IF latch /\ exit[cmd] = "sigkill" /\ isolation = Canonical THEN "yes" ELSE "no"]
  /\ latch' = FALSE
  /\ UNCHANGED <<cmd, pc, before, timedOut, output, readerVars, kernelVars>>

NextCommand ==
  /\ pc = "returned" /\ cmd < Commands
  /\ cmd' = cmd + 1 /\ pc' = "idle"
  /\ UNCHANGED <<before, latch, timedOut, output, attested, readerVars, kernelVars>>

Main == \/ ReadBefore \/ Spawn \/ ToolDone \/ TimeOut \/ Joined \/ GraceEnds \/ ReaderIsLate
        \/ Finish

-----------------------------------------------------------------------------
(* _drain_output, the thread that reads for command c *)

Piped(c) == pipeAt[fd[c]]   \* whose pipe the thread's descriptor reads now

Available(c) == written[c] - taken[c]

HasBytes(c) == Piped(c) # 0 /\ Available(Piped(c)) > 0

ReaderGoes(c, place) == reader' = [reader EXCEPT ![c] = place]

\* The thread's `finally`: the stream is closed unless main has closed it.
ReaderEnds(c) ==
  /\ Close(c) /\ ReaderGoes(c, "dead")
  /\ UNCHANGED <<mainVars, stop, fd, chunk, tail, truncated,
                 alive, doomed, exit, written, taken, oomKills, prompt, isolation,
                 killedIn, ownKills>>

GoOn(c) == reader[c] = "check" /\ ~stop[c] /\ ReaderGoes(c, "poll")
           /\ UNCHANGED <<mainVars, stop, fd, closed, chunk, tail, truncated, kernelVars>>

\* Also the thread that starts so late that its stream is closed already.
SeeStop(c) == reader[c] = "check" /\ stop[c] /\ ReaderEnds(c)

Least(a, b) == IF a < b THEN a ELSE b

\* select and os.read, on whatever the descriptor is by now.
ReadBytes(c) ==
  /\ reader[c] = "poll" /\ HasBytes(c)
  /\ LET d == Piped(c)
         n == Least(ChunkSize, Available(d))
     IN  /\ chunk' = [chunk EXCEPT ![c] = [i \in 1 .. n |-> <<d, taken[d] + i>>]]
         /\ taken' = [taken EXCEPT ![d] = @ + n]
  /\ ReaderGoes(c, "append")
  /\ UNCHANGED <<mainVars, stop, fd, closed, tail, truncated,
                 alive, doomed, exit, pipeAt, written, oomKills, prompt, isolation,
                 killedIn, ownKills>>

\* 20 ms without a byte, or BlockingIOError.
ReadNothing(c) ==
  /\ reader[c] = "poll" /\ ~HasBytes(c)
  /\ Piped(c) # 0 /\ alive[Piped(c)] # {}
  /\ ReaderGoes(c, "check")
  /\ UNCHANGED <<mainVars, stop, fd, closed, chunk, tail, truncated, kernelVars>>

\* End of file, or an OSError because the descriptor is closed.
ReadEnd(c) ==
  /\ reader[c] = "poll" /\ ~HasBytes(c)
  /\ Piped(c) # 0 => alive[Piped(c)] = {}
  /\ ReaderEnds(c)

\* _OutputTail.append of a chunk that alone fills the tail, in two steps: main
\* may take the text between any two.
ClearTail(c) ==
  /\ reader[c] = "append" /\ Len(chunk[c]) >= Limit
  /\ truncated' = [truncated EXCEPT ![c] = @ \/ tail[c] # <<>> \/ Len(chunk[c]) > Limit]
  /\ tail' = [tail EXCEPT ![c] = <<>>]
  /\ ReaderGoes(c, "refill")
  /\ UNCHANGED <<mainVars, stop, fd, closed, chunk, kernelVars>>

Last(s, n) == IF Len(s) <= n THEN s ELSE SubSeq(s, Len(s) - n + 1, Len(s))

RefillTail(c) ==
  /\ reader[c] = "refill"
  /\ tail' = [tail EXCEPT ![c] = Last(chunk[c], Limit)]
  /\ chunk' = [chunk EXCEPT ![c] = <<>>]
  /\ ReaderGoes(c, "check")
  /\ UNCHANGED <<mainVars, stop, fd, closed, truncated, kernelVars>>

\* Mutant of GrowTail: the commands share one tail.
GrowTail_Shared(c) ==
  /\ reader[c] = "append" /\ Len(chunk[c]) < Limit
  /\ tail' = [tail EXCEPT ![cmd] = @ \o chunk[c]]
  /\ chunk' = [chunk EXCEPT ![c] = <<>>]
  /\ ReaderGoes(c, IF Len(tail'[c]) > Limit THEN "trim" ELSE "check")
  /\ UNCHANGED <<mainVars, stop, fd, closed, truncated, kernelVars>>

\* A smaller one goes to the end, and the front is trimmed afterwards.
GrowTail(c) ==
  /\ reader[c] = "append" /\ Len(chunk[c]) < Limit
  /\ tail' = [tail EXCEPT ![c] = @ \o chunk[c]]
  /\ chunk' = [chunk EXCEPT ![c] = <<>>]
  /\ ReaderGoes(c, IF Len(tail'[c]) > Limit THEN "trim" ELSE "check")
  /\ UNCHANGED <<mainVars, stop, fd, closed, truncated, kernelVars>>

\* Mutant of TrimTail: the newest bytes go.
TrimTail_Newest(c) ==
  /\ reader[c] = "trim"
  /\ truncated' = [truncated EXCEPT ![c] = TRUE]
  /\ tail' = [tail EXCEPT ![c] = SubSeq(@, 1, Len(@) - 1)]
  /\ ReaderGoes(c, IF Len(tail'[c]) > Limit THEN "trim" ELSE "check")
  /\ UNCHANGED <<mainVars, stop, fd, closed, chunk, kernelVars>>

\* One turn of the loop drops the oldest chunk or a part of it.
TrimTail(c) ==
  /\ reader[c] = "trim"
  /\ truncated' = [truncated EXCEPT ![c] = TRUE]
  /\ \E n \in 1 .. Len(tail[c]) - Limit :
       tail' = [tail EXCEPT ![c] = SubSeq(@, n + 1, Len(@))]
  /\ ReaderGoes(c, IF Len(tail'[c]) > Limit THEN "trim" ELSE "check")
  /\ UNCHANGED <<mainVars, stop, fd, closed, chunk, kernelVars>>

Drain(c) == \/ GoOn(c) \/ SeeStop(c) \/ ReadBytes(c) \/ ReadNothing(c) \/ ReadEnd(c)
            \/ ClearTail(c) \/ RefillTail(c) \/ GrowTail(c) \/ TrimTail(c)

-----------------------------------------------------------------------------
(* The processes and the kernel (not the judge's code) *)

Total == FoldFunction(LAMBDA m, n : m + n, 0, written)

\* Nobody writes to a pipe that has been closed.
Write(c) ==
  /\ alive[c] # {} /\ Total < MaxBytes[prompt]
  /\ \E n \in Fds : pipeAt[n] = c
  /\ written' = [written EXCEPT ![c] = @ + 1]
  /\ UNCHANGED <<mainVars, readerVars, alive, doomed, exit, pipeAt, taken, oomKills, prompt,
                 isolation, killedIn, ownKills>>

Gone(c, p) ==
  /\ alive' = [alive EXCEPT ![c] = @ \ {p}]
  /\ doomed' = [doomed EXCEPT ![c] = @ \ {p}]

\* A process ends by itself, or of the signal it was sent.
End(c, p) ==
  /\ p \in alive[c] /\ Gone(c, p)
  /\ \E e \in Exits \ {"none"} : exit' = IF p = "tool" THEN [exit EXCEPT ![c] = e] ELSE exit
  /\ UNCHANGED <<mainVars, readerVars, pipeAt, written, taken, oomKills, prompt,
                 isolation, killedIn, ownKills>>

OomKill(c, p) ==
  /\ p \in alive[c] /\ oomKills < MaxKills[prompt] /\ Gone(c, p)
  /\ oomKills' = oomKills + 1
  /\ exit' = IF p = "tool" THEN [exit EXCEPT ![c] = "sigkill"] ELSE exit
  /\ killedIn' = IF InRun THEN killedIn \union {cmd} ELSE killedIn
  /\ ownKills' = IF p = "tool" THEN ownKills \union {c} ELSE ownKills
  /\ UNCHANGED <<mainVars, readerVars, pipeAt, written, taken, prompt, isolation>>

World == \E c \in Command :
           Write(c) \/ \E p \in Processes : End(c, p) \/ OomKill(c, p)

-----------------------------------------------------------------------------
Next ==
  \/ Main \/ SpawnFails \/ Attest \/ NextCommand
  \/ \E c \in Command : Drain(c)
  \/ World

Spec == Init /\ [][Next]_vars

\* The OS runs the judge's threads, and what is sent SIGKILL dies.
Die(c, p) == p \in doomed[c] /\ End(c, p)

FairSpec ==
  /\ Spec /\ WF_vars(Main)
  /\ \A c \in Command : WF_vars(Drain(c))
  /\ WF_vars(\E c \in Command, p \in Processes : Die(c, p))

-----------------------------------------------------------------------------
TypeOK ==
  /\ cmd \in Command
  /\ pc \in {"idle", "spawn", "wait", "join", "rejoin", "finish", "returned", "raised"}
  /\ before \in Nat /\ latch \in BOOLEAN
  /\ timedOut \in [Command -> BOOLEAN] /\ output \in [Command -> Seq(Byte)]
  /\ attested \in [Command -> {"unasked", "yes", "no"}]
  /\ reader \in [Command -> {"unborn", "check", "poll", "append", "refill", "trim", "dead"}]
  /\ stop \in [Command -> BOOLEAN] /\ closed \in [Command -> BOOLEAN]
  /\ fd \in [Command -> Fds \union {0}] /\ pipeAt \in [Fds -> Command \union {0}]
  /\ chunk \in [Command -> Seq(Byte)] /\ tail \in [Command -> Seq(Byte)]
  /\ truncated \in [Command -> BOOLEAN]
  /\ alive \in [Command -> SUBSET Processes] /\ doomed \in [Command -> SUBSET Processes]
  /\ exit \in [Command -> Exits]
  /\ written \in [Command -> Nat] /\ taken \in [Command -> Nat]
  /\ oomKills \in Nat /\ prompt \in BOOLEAN /\ isolation \subseteq Canonical
  /\ killedIn \subseteq Command /\ ownKills \subseteq Command

\* judge.py:1211 "the canonical wrapper and OOM evidence bound to the preceding
\* command": a memory kill is attested only under the whole isolation, of a
\* command that ended by SIGKILL and while which the kernel killed something;
\* and there always of a tool the kernel itself killed.
EvidenceIsCurrent ==
  \A c \in Command :
    /\ attested[c] = "yes" =>
         c \in killedIn /\ exit[c] = "sigkill" /\ CounterReadable /\ isolation = Canonical
    /\ attested[c] = "no" /\ c \in ownKills => ~CounterReadable \/ isolation # Canonical

\* Bytes of command c alone, in the order it wrote them.
OwnInOrder(c, s) ==
  /\ \A i \in DOMAIN s : s[i][1] = c
  /\ \A i, j \in DOMAIN s : i < j => s[i][2] < s[j][2]

\* However late a reader is: what run() returns for a command was written by
\* that command, in that order.
OutputIsOwn == \A c \in Command : OwnInOrder(c, output[c])

TextTaken(c) == c < cmd \/ (c = cmd /\ pc = "returned")

\* With prompt threads it is the last Limit bytes of all that the command's
\* processes wrote until then, and of all they ever wrote if none escaped.
OutputIsTail ==
  prompt => \A c \in Command : TextTaken(c) =>
    /\ output[c] = Last([i \in 1 .. taken[c] |-> <<c, i>>], Limit)
    /\ truncated[c] <=> taken[c] > Limit
    /\ alive[c] = {} /\ ~stop[c] => taken[c] = written[c]

\* A command's descendants cannot keep run() from returning: not by living on,
\* not by holding the pipe, not by writing.
RunReturns == (pc = "spawn") ~> (pc \in {"returned", "raised"})

=============================================================================
