# A verification project for the Lean kernel challenge judge

The repository judges Lean submissions: a submission's proof is compared with the
problem's specification, audited for axioms and replayed by a kernel, its
implementation is timed on performance cases, and the verdicts are ranked. What must
never go wrong is the verdict: who is rejected, who is accepted, what the accepted run
was measured on, which verdict of several concurrent runs stays, and what place it
gets. These TLA+ modules model the code that decides that; TLC checks them on small
instances and TLAPS proves most of their safety properties for every size.

Paths are relative to the repository: `judge.py` is `evaluation/judge/judge.py`, the
wrapper is `scripts/run_isolated.sh`, `score.py` and the other scripts are in `scripts/`.

## 1. Inventory

| Component | State it keeps | Operations | Correct when |
|---|---|---|---|
| Verdict store (`judge.py` `_store_verdict`, `_atomic_json`) | attempt files, current verdict, flock per submission, temporaries | store and promote a record | readers see complete archived records only; a retry or error never replaces a judged verdict |
| Judge process (`main`, `_write_infra_verdict`, `_on_signal`) | exit code, job directory, handled exception | run `judge()`, report exceptions, clean up | exit code and filed record agree; a job directory that stays can be told from the exit code |
| Judging pipeline (`judge`, `probe_point`, `_collect_perf_slots`) | result record, pinned bytes and digests, rows | gates, correctness replay, cases, scoring | only the submission's own failure rejects; every row was measured on pinned files; failures of one case do not suppress others |
| Remote timing client (`_time_remote`, `time_export`) | pinned executor URL and identity | walk the executors, retry, time out | one executor per submission; outages only delay |
| Isolated runner (`run_isolated.sh`) | container status, verdict and attempt files | start the container, find the run's verdict | exit 0 is backed by a judgement of this run |
| Tool runner (`run`, `_drain_output`, `_OutputTail`, `_attested_local_memory_kill`) | process group, pipe, reader thread, output tail, OOM evidence | run one tool under a timeout | returns, gives the command's own output and its tail, attributes OOM kills to the right command |
| Performance policy and sample plan (`performance_plan`, `perf_inputs`, samplers; `score.py` `_validated_performance_plan`) | the groups drawn so far | derive the cases from seed and policy; validate a sealed plan | room for every slot, a quick plan is a prefix, judge and scorer agree |
| Scorer (`score.py`) and leaderboard (`judge.py` `leaderboard`) | none (reads verdicts) | validate, score, rank | only comparable verdicts are ranked; equal keys share ranks; the two boards agree |
| Problem dependencies (`problem_dependencies.py`, `prepare_problem_dependencies.py`) | pins, checkouts, lock, bundle, staged workspace | prepare, lock, replace, stage | a staged tree is one locked closure; a usable bundle survives; a later preparation repairs what a failed one left |
| Reference answers (`reference_answers.py`, `prepare_reference.py`) | sealed bundle | compute, seal, look up | every answer is the number the problem asks for |
| Performance harness (`run_harness.py`, `perf_eval.py`) | saved judge globals | drive the judge over fixtures or locally | outcomes compared with the manifest |
| Timer kernel (`timer-kernel/`) | PMU counter, phase, timing record | replay one target, count | counts the replay window only |
| Memory policy, entry point, participants' sync, setup scripts, Lean statements | – | validation, paths, copying, installation | – |

How they meet: the wrapper starts one container per run; its judge process resolves the
sample plan, stages the problem's dependencies and runs `judge()`, which calls the tools
one after another (comparator, axiom audit, exporter, timer) through `run`, or a remote
executor through `_time_remote`; `finish()` and the `except` clauses of `main` store a
record through `_store_verdict`; concurrent runs of one submission share the results
directory; the wrapper, the leaderboard and the scorer read it without a lock. The
scorer checks again that plan and policy belong together.

What is hard: two runs publishing at once; a SIGTERM raising an exception at any
instruction of `main`; kills between a temporary file and its rename; files that
the submission's own build processes can rewrite between two tools; reader threads that
outlive their command; rows that share a time budget; executors that fail, come back
redeployed or answer late; a bundle replaced under a job that copies it; two programs
that state the same contract twice (judge and scorer, scorer and leaderboard).

## 2. Modules

| Module | Models | Refines / uses |
|---|---|---|
| `Verdicts` | the verdict record and the vocabulary of statuses | |
| `VerdictBoard` | abstract: runs archive records and publish them by one rule | |
| `VerdictStore` | the store: temporaries, renames, flock, deadline, raise, kill | implements `VerdictBoard` |
| `JudgeProcess` | `main`: exceptions, signals, report, cleanup | extends `VerdictStore`, keeps its protocol |
| `RunIsolated` | the wrapper after the container exits | extends `JudgeProcess` |
| `JudgePipeline` | `judge()` from policy checks to `finish` | |
| `RemoteTiming` | `_time_remote` and `time_export` against failing executors | |
| `ToolRun` | `run` with its threads, processes, pipes and OOM evidence | |
| `SamplePlan` | the plan the judge draws and the scorer's check of it | |
| `Scoring` | which verdicts score, and their placement key | |
| `Standings` | the two boards: admission, sorting, ranks | extends `Scoring` |
| `Dependencies` | preparing, locking, replacing and staging a closure | |
| `ReferenceAnswers` | the algorithms behind the sealed answers | |
| `*Proofs` | the TLAPS proofs of the module they are named after (`RunIsolatedProofs`: of `VerdictStore` and `JudgeProcess` too; `StandingsProofs`: of `Scoring` too) | |
| `MC*` | finite instances for TLC | |

**VerdictStore.** `attempts[r]` is the attempt file of run `r`, `current` the current
verdict, `lock` the holder of the flock; `phase[r]` is the statement `r` is at:
`create`, `dump` and `replace` are the three steps of `_atomic_json` for the file named
by `target[r]`, `acquire`/`decide`/`release` the `with` block. `Raise` is any exception
out of the call (`finally` unlinks, `with` unlocks); `Kill` leaves the temporary behind
and the kernel drops the lock. The current verdict may be one of an earlier run,
absent, or unreadable at the start.

**JudgeProcess.** `pc[r]` is the statement of `main`; `Finish` and `Report` are the two
calls of the store, whose steps `RunStore` takes. `_on_signal` raises `TimingRetry`
wherever the main thread is, so there is one signal action per syntactic region: the
`try` body, `finish()`, the swallowing `try` of `_write_infra_verdict`, and an `except`
clause (nothing catches it there). What `judge()` decides is a choice in this module.
`disturbed` is a history variable: the processes a signal or a failing system call reached;
`stuck` those whose thaw or `rmtree` did not do its work (`CleanupFails`). `Cleanup` begins with
`cleaning[0] = True`; a signal before it (`SignalInFinally`) skips all of it. The runs of `Kept`
have `--keep-workspace`.

**RunIsolated.** `step[r]` is the wrapper's position after `docker run` and `status[r]`
its `STATUS`; the current verdict and then the attempt are compared with the run. The module
extends `JudgeProcess`: `WrapperNext` is a step of the judges or one of a wrapper.

**JudgePipeline.** Being at a `stage` means its tool may be running; the action of that
name is the judge reading the exit and comparing files. `file[f]` says whether the
submission source, the build artifacts, the correctness export and the current case's
export still are what was pinned. `Change` lets a process of the build rewrite any
pinned file at any moment; `mixed` is a history variable: `<<slot, f>>` is in it when a
tool of that slot may have read a changed `f`. Conventions: a changed file stays changed
(files are not restored between two comparisons); the baseline of a generated file is
what the judge pinned; the repetitions of one replay are one tool run; refusals before
the comparator are one choice in `Prepare`; `Abort` stands for every `InfraError` or
`OSError` at the stage, which end in `error`, and every signal there, which ends in `retry`; the scorer's refusal of an incomplete grouped profile
is part of `Report`.

**RemoteTiming.** One walk of the URL list is `attempt`, one URL of it `base`; a request
is sent by `Dispatch` and ends in `NoUsableAnswer`, `BrokenReply` or `ValidAnswer`, and
the deadline may pass or the executor be redeployed while it is out. `healthy` are the
executors that never fail: a set chosen at the start, used to say when an outage must
not be noticed. The repetitions and the contents of a sample are abstracted to "usable".

**ToolRun.** Three kinds of actors. The judge's main thread is at `pc`: `spawn`, `wait`,
`join` (the first, short grace for the reader), `rejoin` (after `stop` is set), `finish`.
Reader thread `c` is at `reader[c]`: it looks at its stop event, polls, and appends to
its tail in the separate statements of `_OutputTail.append`, so that the main thread may
take the text between any two of them. The kernel has the processes of each command (the
tool, a descendant in its group, one that escaped the group), the descriptor table
`pipeAt`, and the cgroup's `oomKills`. `_kill_group` dooms the group; death comes later
and by itself. A descriptor closed by the main thread may be given to the next command
while a late reader still holds its number. Time is left out: `prompt` says whether, in
this run, threads that can run always do so within the grace periods. The attestation is
asked right after the command, or not at all, as its callers do. `isolation` says which of the
three things the attestation looks for besides the evidence there are: the container sandbox,
the policy's memory envelope, and `run_isolated.sh`'s own attestation.

**SamplePlan.** `phase` is the statement of `performance_plan`: `start`, then per group
`group` (its checks) and `draw` (its sampler; `drawn` are the values so far), then `check`,
the scorer's `_validated_performance_plan`. A sampled target is a choice, because the HMAC,
the jitter and the rounding can give any; what the code then does to it (`Lower`, `Upper`,
`Project`, throwing away repetitions, the closing check, the cap by `PERF_COUNT`) is
modelled. `PolicyShape` and `PlanShape` are the scorer's two halves.

**Scoring and Standings.** `Scoring` is pure: a verdict record, `Scoreable`, and
`PlacementKey`, the tuple the row is sorted by under each of the contracts, with the
work counted by each rule and the points, milestones and prerequisites of grouped
cohorts. `Standings` runs `score.py`'s `main` and then `leaderboard()` over one results directory:
`loaded` are the admitted files, `rows` the sorted board, and `RankPlaced` and `RankUnplaced` are one
turn of `_competition_ranks` with its locals `previous`, `currentRank`, `scoredPosition`.
The keys are Python tuples with the submission's name behind them; where one key is the
beginning of another, a cost meets a name and the sort raises `TypeError` (`SortFails`).
`Stage1` is the set of problems with a public board for both tools: `score.py` has it as a list
(`STAGE1_PROBLEMS`), `leaderboard()` finds it in the `config.json` files; the two are the same eight problems at
this commit, and `BoardsAgree` holds only as long as they are.
The model keeps keys flat: the tuples nested in them have fixed lengths within a cohort.
`ValidPolicy` is what the scorer's shape check says of the awards and prerequisites of a
sealed policy, and `FilesAssumption` that files are natural numbers in records, that
sealed policies passed this check, and that a cohort id (a digest of the policy) stands for one policy.

**Dependencies.** A revision stands for manifest, lakefile, toolchain and the checkouts that
go with them; `Closure` is what Lake builds at a revision for the Spec's imports, and a
digest is the content itself. A module has an `.olean` (`Olean`) and companion files beside it,
not the same ones at every revision. Lake, which is external, is taken to write what it builds and to
remove nothing, so that files of other pins may lie in the build directories; an edit of the
pins keeps these or loses them with the checkouts. `Hash` records every companion that lies beside an
`.olean` of the closure, such left-overs included, as the code does: a lock `Holds` its closure rather than equals it.
Each preparation is at a statement of `prepare_problem`; copying into the temporary directory,
`rmtree` and a job's staging go file by file, so all of them interleave. A lock is written in
three steps: `Truncate` opens `dependency-lock.json.tmp`, one name for all refreshes,
`Dump` writes to the file it opened, and `Publish` renames whatever the temporary is by then; `fd` follows the
opened file when somebody else renames it, to the published lock or to no name at all. `Fails` is an error or
a crash at any statement. `alone` and `repaired` are history variables for `RepairedIsUsable`. The model assumes
that nobody edits the pins while a preparation runs, which the code relies on and does not check, and that
`lake update` leaves the manifest's pins as they are, which the exact revisions in the problems' lakefiles see to.

**ReferenceAnswers.** One step is one turn of a loop of a reference algorithm: a bit of fast
doubling, one sum of the partition table, one number of the sieve and one prime of the Möbius
loop, one mask of a row of the permanent (`todo` holds the masks the row has not seen yet, in
any order), one pivot of Bareiss' elimination, one turn of rule 110. `Meaning` and
`EliminationMeaning` define the numbers independently: the Fibonacci recurrence, ways to write a
number with parts up to a bound, counts of primes and of placements, the Möbius function by
its divisors, Leibniz' formula, the table that gives the rule its number. The random draws
behind a matrix or a row are inputs.

## 3. What is checked

| Run | Instance | Shows |
|---|---|---|
| `verdict_store` | 2 runs, unlimited calls, raise and kill anywhere; one run scheduled fairly | a promotion is still right when it is written, returned calls leave a verdict, judged verdicts are never demoted, the store implements the board, and a scheduled run leaves `_store_verdict` though the other may stop inside the flock |
| `judge_process` | 2 processes, signals and OS failures anywhere; one scheduled fairly | a workspace that stays shows in the exit code unless thaw or `rmtree` failed, exit 0 never pairs with a requeueable record, a process nothing disturbed keeps the whole contract of the module docstring, `main` uses the store by its protocol, the process ends |
| `run_isolated` | a wrapped and a bare run, signals and kills anywhere | status 0 is a judgement of this very run; a concurrent run does not hide it |
| `judge_pipeline` | 3 cases, all modes, exits, changes, deadline | `RejectionIsEarned` (a rejection rests on the submission's own failure at a gate, read from an unchanged export), `AcceptedIsVerified`, `RowsMeasureWhatWasPinned` (no row, good or bad, comes from a changed build or export), `FailuresNeverSuppressLaterCases`, and that a verdict is reached |
| `remote_timing` | 3 executors, 2 identities, 3 replays | one executor per submission, earned exhaustion, standby, termination |
| `tool_run` | 2 commands on one descriptor number, late readers, an escaped or a grouped descendant, an OOM kill anywhere, the whole isolation or all but the wrapper | a memory kill is attested only under the whole isolation and of the command asked about; the output is the command's own and, with prompt threads, the end of it; `run` returns whatever the descendants do |
| `sample_plan` | some 110 policies of one and two groups, all samplers and refusals, all environments, every sequence of draws | every slot has room, a plan fits a policy the scorer accepts, refusals for repeated inputs are the policy's doing, quick plans are prefixes, resolution ends |
| `standings` | 2–3 verdicts of 3 cases under five policies, and of a plan cut to 2, with ties and records that belong elsewhere | published ranks are competition ranks, passing more never costs a rank, keys of official cohorts are comparable and the canonical report never stops in a sort, the two boards agree |
| `dependencies` | 2 preparations, 1 job, 2 revisions, 2 import lists, 1 edit, left-over companions, a shared temporary, failures anywhere | a staged workspace has one whole closure, a lock holds its closure and nothing but old companions besides, usable bundles survive, a preparation that ran alone repairs whatever was left |
| `reference_answers` | all small inputs of eight algorithms | the six loops without divisions return the number asked for (`AnswerIsRight`); every division of the elimination is exact and its result is the determinant or the discriminant (`EliminationIsExact`) |
| `signal_loses_verdict` | one process, signals | see below |
| `broken_reply` | 2 executors | see below |

**Disagreements between code and documentation.** Two runs end in a violation of a
statement that a docstring or comment of `judge.py` makes:

- `signal_loses_verdict`: a SIGTERM in an `except` clause of `main`, outside
  `_write_infra_verdict`'s `try`, gives exit 1 and a traceback instead of a verdict.
- `broken_reply`: a garbled or truncated HTTP reply is an exception the remote client does
  not catch, hence an error verdict and not a retry.

Observations of the same kind, met while modelling and not the subject of a run: a SIGTERM
inside the report of a rejection is swallowed, the process exits 0 and files nothing; one
after `finish()` stored its record makes `main` overwrite the attempt with a retry record;
one between `mkdtemp` and the assignment leaks the job directory, and so does one in
`finally` before `cleaning[0]` is set, with exit 1, though `judge.py:3381` and `judge.py:3437` say that cleanup
completes (`SignalInFinally`); an exception in `thaw` skips `rmtree`, and errors of `rmtree` are ignored (`CleanupFails`).
Left-over companions of earlier pins enter a refreshed lock (`Hash`), and a clean machine then refuses
that lock. Two refreshes at once may publish a lock that one of them has just truncated (`Truncate`, `Publish`), which stays if that one
dies; jobs refuse it, and the next refresh repairs it. A grouped case can get a
`budget-exhausted` row from the audit budget that the binding step and the axiom check
share. Each case's binding step reads the correctness export, which is not compared after
it. A historical development cohort of milestones (`group-points-v1`, `hardest_group_then_count`)
that `PERF_COUNT` cut short can make `leaderboard()` stop with a `TypeError` (`SortFails`, reached
in run `standings`): its last milestone is out of reach, so a group that requires it never
counts; two submissions then have equal points and profiles, but only the one that
completed the short plan has the work tie-break behind them, and the sort compares its
work with the other's name. Official plans are whole, so there this cannot happen (`KeysAreComparable`). Under prerequisites between groups, passing a superset of cases may rank worse, which
the comment at `score.py:1379` does not except. A verdict filed in another problem's
directory is ignored by `score.py` and shown by `leaderboard()`. A late reader thread may
take bytes of the next command through a reused descriptor: that command's output then
lacks them, though no output ever holds foreign bytes (`OutputIsOwn`). An attested OOM kill may be of
any process of the cgroup, while the tool was killed by the judge: `EvidenceIsCurrent` says
what the evidence does mean.

**Bounds.** *Store, process, wrapper:* two runs are enough for every race of the store:
each property mentions one run and what others did to the shared `current` and `lock`, and
two writers already give every order of the read/decide/write section; the proofs cover any
number. Calls per run are unlimited, and so are signals. One of the two processes keeps its
workspace. Kills are left out of
`judge_process` and OS failures out of `run_isolated` to keep the state spaces small; the
other run has them, and `verdict_store` has both. A second wrapper would only read files, so
one run is wrapped. There, three of the six initial verdicts stand for all: an earlier
verdict matters only by being judged or not.
*Pipeline:* three cases give a first, a middle and a last one.
*Remote client:* three executors give an active one, a standby that works and one behind it;
two identities give a redeployment; three replays give the correctness replay (no deadline)
and two cases with one. The attempts (three) are the code's own.
*Tool runner:* two commands on one descriptor give the reuse and the stale latch; a limit and
a chunk of two bytes with three bytes written (two when threads may be late) give tails
that are filled, replaced and trimmed; one OOM kill is the smallest that can be
misattributed, and is not combined with late readers, on which evidence does not depend; the
attestation only asks whether the isolation is whole, so one way of its not being so stands for all.
*Sample plan:* ranges of at most six values and four packed seeds give full, tight and too
small spaces; two groups give overlap, order and repeated names; `PERF_COUNT` is absent,
malformed, zero or 2, below and above the counts.
*Standings:* two verdicts give every order and tie of keys, a third one the skipped rank;
three cases in two groups give passed, failed and over-limit cases, milestones and a
prerequisite; a plan of two cases has a milestone that cannot be reached.
*Dependencies:* two preparations and a job are the three writers and readers of a bundle, and two
refreshes share the temporary; a preparation that failed may run again any number of times. One
revision changes an artifact and has neither the companion nor the second module of the other, which one import list drops, so
mixtures and left-overs are visible; one edit is what makes a left-over. Symmetry is used on the preparations, no property of
which tells them apart.
*Reference answers:* arguments 0 to 14 pass every branch of the loops; permanents have 0 to 4
rows, below three with every entry one; matrices up to 4 × 4
force row exchanges and zero columns, and polynomials are of degree 2 and 3.
`CHECK_DEADLOCK FALSE` is used because runs, judges, tools and preparations end.

**Fairness.** `StoreEnds` and `ProcessEnds` assume only that the operating system keeps
scheduling the runs of `Diligent`: weak fairness on their steps, nothing for the others,
which may stop while holding the flock. That is enough because the lock is polled under a
five second deadline (`judge.py:905`). `JudgeEnds` assumes weak fairness of `judge()`'s own
steps: each tool runs under a timeout, so a stage ends by itself. That is what `RunReturns`
checks of `run` itself, from weak fairness of the main thread, of each reader thread, and of
the death of processes that were sent SIGKILL; nothing is assumed of the tools. `ReplayEnds`
assumes weak fairness of the remote client, whose requests have a timeout. `PlanEnds` assumes it
of the plan builder, whose loop bodies are bounded; a redraw of an already drawn value is no
step, so termination of the rejection sampling is with probability one and what is checked is
that a new value exists. No fairness is assumed of signals, deadlines, executors, edits or
file changes.

## 4. What is proved

All theorems hold for every value of the constants, under the named assumptions of the
modules: `VerdictConstants`, `StoreConstants`, `ProcessConstants` and `WrappedAssumption`
(the markers are no run names or records, `Diligent` and `Wrapped` are sets of runs),
`CasesAssumption` and `RemoteAssumption` (at least one case, executor and replay),
`ToolAssumption` (positive sizes, 0 is no descriptor of a pipe, isolations are sets of the three marks), `SizesAssumption`,
`PerfCountAssumption`, `PoliciesAssumption` (the shape of policies),
`DependencyAssumption` (closures are not empty and have the `.olean` of each companion, markers are no locks), `FilesAssumption`
and `InfinityAssumption` (the shape of sealed policies; infinity is a number, though
nothing is assumed of its size), and `TasksAssumption` (`compute_answer` refuses negative
arguments; a row of cells is not empty).
The type invariants are parts of the inductive ones.

*RunIsolatedProofs*, of the verdict store: `StoreInv` is inductive. Lock discipline alone is not: that a
promotion is still right needs that the promoting run holds the lock (so `current` has not
moved since the decision) and carries the record it archived (`CarriesItsRecord`).
From it: `MutualExclusion`, `PromotionsAreRight`, `ReturnedVerdictStands`, `JudgedStays` (an
action property) and `StoreImplementsBoard`, the refinement to `VerdictBoard`: only the two
renames change what readers see, and each maps to `File` or `Publish`; every other step,
crashes included, is a stutter.

Of the judge processes: every step of `main` is a step of the store or leaves it alone, which is `ProcessesImplementStore` and
carries `StoreInv` over. The rest of `ProcessInv` is about one process at a time (`ProcessOK`: its
call, its record, its exit code, its workspace), and a process changes nothing of another's. From it
`UndisturbedProcessesReport`, `LeaksAreVisible` and `ExitZeroIsJudged`. Of the wrappers:
`WrappersLeaveJudgesAlone` (`WrapperSpec => Spec`) takes all this over. A wrapper looks at files only
after its own judge has ended, and nothing of an ended process changes; what others do to
`current` meanwhile is bounded by `ArchivedInv`: a current verdict of this run is one it has
archived. From it `SuccessIsBacked` and `JudgementsAreReported`.

*JudgePipelineProofs.* `PipelineInv` is inductive. Its added parts say which gates being at a
stage implies (`GatesPassed`), that exactly the rows before the current slot are written and
none is fatal (`RowsInOrder`), and that what was read so far had not changed
(`NothingChangedSoFar`): a case goes on only after comparing everything its last tool read.
The proof has one lemma per conjunct and in it one step per action. From it the pipeline's safety
properties, and two no run checks, `ProfilesAreComplete` and `RowsStay`.

*RemoteTimingProofs.* `RemoteInv` is inductive. The walk of a pinned submission stays at
the pinned URL (`WalkInv`) and an accepted identity is the pinned one, so a measurement
either makes the pin or repeats it (`MeasuredByPin`): `SingleExecutor`, `PinStays`,
`OutagesAreNotCharged`. That a walk has passed no healthy executor (`HealthyAhead`) gives
`StandbyIsFound`.

*ToolRunProofs.* Three invariants on top of the types. Evidence: while
a command runs the counter has moved only by kills during that command (`CounterCounts`), and
the latch is about the command that just returned (`LatchIsCurrent`), so `EvidenceIsBound`. Output: an open descriptor reads the pipe of
the reader's own command, since it can only be reused after it was closed, and until
a text is taken only the reader itself may have closed it (`OpenIsOwn`, `ClosedByItself`,
`ReadIsOwn`): `OutputsAreOwn`. Tail, for prompt threads: at each statement of
`_OutputTail.append` the reader holds the end of the bytes taken, the chunk in hand
included (`Held`), and it is dead when its text is taken: `OutputsAreTails`.

*SamplePlanProofs.* A range slot lies between what the slots before it used up and what those
after it need (`Slotted`), so the interval it is projected into is never empty:
`RangesHaveRoom`. Every value is in its group's space and new in its group, so only two
groups can repeat one: `CollisionsAreOverlaps`; `PlansAreSchedules` follows by how rows are
appended. `PlansFitPolicies`: each closed group adds rows of the scorer's shape, in order and under
a name of its own (`Form`; for packed inputs `n \div 2^32` is the scale), and `check` is reached only
with all groups closed.

*DependenciesProofs.* While a preparation runs nobody edits, so all running preparations work
on one `Target`; a build of what is built changes nothing, so all of them find the same files for it (`Found`), old companions
included, and would write the same lock (`Newest`). What each hashed, copied or compared is that or a part of
it, and what the shared temporary holds while somebody writes or renames it is `Newest` or cut short, whoever
wrote it (`PrepOK`); a cut-short lock is none, hence `LocksHoldTheirClosure` and `UsableBundlesAreKept`. A job keeps
only bytes equal to those of a lock that holds its closure (`JobOK`): `JobsGetOneClosure`. Of a preparation that runs
alone, more is known: the temporary it renames is the one it has written, and the lock it
compared is still there (`AloneOK`), so `LonePreparationsRepair`. All of it for any number of preparations and jobs.

*StandingsProofs.* `CompetitionRank` is the rank a file should have, defined from the files alone:
one more than the number of admitted files of its board with a better key. The invariant
`IInv` says that every report entry has that rank and every admitted file of a finished board
its entry (`ReportInv`), that `rows` is a sorted enumeration of its board (`RowsInv`), and that the walk has counted
right so far: `scoredPosition` placed rows are behind it, `previous` is the key of the last one and
`currentRank` its rank (`WalkInv`). The walk compares neighbours while a rank counts all rows
ahead, so what is needed is that `KeyLess` orders keys strictly and totally (`KeyLessIrreflexive`,
`KeyLessTotal`, `KeyLessTransitive`), and that nothing comes between two equal keys in a sorted board. That
gives `RanksTheorem`, and `BoardsTheorem` since the two tools then rank equal sets.
`KeysTheorem`: a key of an official cohort has its tie-break exactly when the plan was passed; the
other verdict then failed a case, which shows in the case profile (`FailedCaseShows`), because with
everything passed every group is eligible (`CompleteIsEligible`): that step needs the last milestones to
be within the plan, as official plans promise. `ExtraPassTheorem`: passing more gives each group
and each profile entry no less and, at equal profiles, the same cases passed and hence a smaller sum of
costs (`NoWorseIsNotBeaten`); that verdict's competitors ahead are then among the other's.
The sums are the library's folds, whose recursion is over sets; `SubsetInduction`, induction over
the subsets of a finite set stated with a set of good ones, gives their equations (`SumMonotone` and
the lemmas before it).

*ReferenceAnswersProofs.* `AnswersAreRight`: for every argument, matrix and row the six loops
return what `Meaning` says. The invariant `AnswersInv` is that each loop has, at every turn, the
accumulators `LoopInv` names: after some bits of `n` the pair is `Fib[p]`, `Fib[p + 1]` of the number
`p` those bits spell (`FibInv`, from `Doubling`); totals below the current one count parts up
to `k`, the others up to `k - 1` (`PartitionInv`); below `k` the sieve has crossed out exactly what
has a divisor `d` with `d * d <= m`, also where it skipped a number that was crossed out
(`SievedUpTo`, `SieveSkips`), which at the end are the composites (`SmallDivisor`, `SieveEnds`);
`mu` holds the Möbius values by the primes so far (`MoebiusStep`, and `MoebiusEnds` by
`PrimeFactor`); `states` counts the placements of the rows before, and `following` those that come
from the masks already seen (`CountsThroughStep`: the placements that end in a new column are as
many as those it extends); the cells are `Cells(row)[k - 1]`. The meanings are recursive
functions, and that such a function satisfies its own equation has to be proved first: `Recursion`
shows it for any step that looks only at arguments of a smaller measure, from `Induction`, which
is stated with a set of good numbers.

Only model-checked: the temporal properties under fairness (`StoreEnds`, `ProcessEnds`,
`JudgeEnds`, `ReplayEnds`, `PlanEnds`, `RunReturns`), which the prover does not treat; and
`EliminationIsExact`: that the fraction-free divisions leave no remainder is Sylvester's identity
between determinants of minors, an induction over matrices that would need the theory of
determinants first.

## 5. Not modelled

- The text of records, logs, reports and boards; hashing and fingerprints
  (`specification_fingerprint`, digests): a pin is compared, not computed.
- The Lean tools themselves, whose exits are choices, and the timer kernel: Lean and C code
  around the PMU that keeps no state of the judge.
- In the plan: the numbers themselves (HMAC, jitter, rounding), labels and the axis.
- In the scorer: the fitted curve, the statistics of retained repetitions, the field-by-field shape
  of v1 policies.
- In the reference answers: SHA-256, the draws (`mix32`, `candidate_polynomial`), and
  the bundle's validation and sealing, which restate their inputs.
- In the tool runner: the child's environment and stack limit. In the wrapper: argument checks,
  identity resolution and docker flags, which precede every modelled step.
- The harness and `perf_eval.py`: sequential drivers that call the judge and compare its verdict
  with a manifest.
- Entry point, memory policy, participants' workspace, setup scripts, problem statements: thin argument
  and path handling, copying, installation, data checked by Lean.

What would come next: composing `JudgePipeline` and `RemoteTiming` with `JudgeProcess`, so that
the choice `judge()` makes there is refined by the pipeline's verdicts (and a remote
replay by the client's outcomes); the harness' saved and restored globals; determinants, for a proof of
`EliminationIsExact`.
