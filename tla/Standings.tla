----------------------------- MODULE Standings ------------------------------
(***************************************************************************)
(* The two boards made from the verdict files: the canonical reports of    *)
(* score.py's main and, after it, the local board of the judge's           *)
(* leaderboard().  Both read the files, group what they admit              *)
(* into boards of one problem, metric and cohort, sort each board by the   *)
(* placement key and walk it to give out competition ranks.                *)
(*                                                                         *)
(* The two tools know the problems with a public board from different      *)
(* places: score.py has a fixed list (STAGE1_PROBLEMS), the judge looks    *)
(* for a grouped evaluation in the config.json files there are             *)
(* (_stage1_problem_ids).  The two sets are equal at this commit and are   *)
(* one constant here; BoardsAgree rests on that.                           *)
(***************************************************************************)
EXTENDS Scoring

CONSTANTS
  FileSets,    \* the result directories: functions from file names to records
  Stage1       \* the problems with a public board, for both tools

\* The records that may lie in a result directory.  A sealed record carries a
\* policy of valid shape, whose digest its cohort id is the beginning of.
ValidFiles(F) ==
  /\ IsFiniteSet(DOMAIN F)
  /\ \A f \in DOMAIN F :
       /\ F[f].correctness \in Nat
       /\ \A s \in DOMAIN F[f].samples : F[f].samples[s].value \in Nat
       /\ F[f].sealed => ValidPolicy(F[f].cohort)
  /\ \A f, g \in DOMAIN F :
       F[f].sealed /\ F[g].sealed /\ F[f].cohort.id = F[g].cohort.id => F[f].cohort = F[g].cohort

ASSUME FilesAssumption == \A F \in FileSets : ValidFiles(F)
ASSUME InfinityAssumption == Infinity \in Nat

NoRank == 0

VARIABLES
  files,       \* the verdict of each file, with the directory it lies in
  allowSplit,  \* ALLOW_COHORT_SPLIT=1
  tool,        \* "score", then "leaderboard"
  phase,       \* where the tool is
  loaded,      \* files whose verdict the tool has admitted
  rows,        \* the board being ranked, best first
  ranks,       \* the ranks of a prefix of rows
  previous, currentRank, scoredPosition,   \* _competition_ranks' locals
  report       \* the boards of each tool: entries [file, rank]

locals == <<rows, ranks, previous, currentRank, scoredPosition>>
vars == <<files, allowSplit, tool, phase, loaded, locals, report>>

Names == DOMAIN files
Tools == {"score", "leaderboard"}

\* Record structure and directory: a misfiled verdict scores nowhere in the
\* canonical report, and under the problem it claims on the local board.
AdmittedByScorer(f) ==
  LET v == files[f]
  IN  /\ v.dir \notin Retired /\ v.problem = v.dir
      /\ v.status = "accepted"
      /\ v.cohort.contract # "legacy" /\ v.problem \in Stage1
      /\ v.mode = "official" /\ v.cohort.mode = "official"
      /\ v.metric = "perf_instructions" /\ v.local /\ v.cohort.local

\* Verdicts that are not accepted are listed below the ranking tables, legacy
\* ones in a section of their own: neither is ranked.
AdmittedByLeaderboard(f) ==
  LET v == files[f]
  IN  /\ v.dir \notin Retired /\ v.problem \notin Retired
      /\ v.problem \in Stage1
      /\ v.status = "accepted" /\ v.cohort.contract # "legacy"

Admitted(f) == IF tool = "score" THEN AdmittedByScorer(f) ELSE AdmittedByLeaderboard(f)

\* Rows of different metrics or cohorts are never compared.
BoardOf(f) ==
  [problem |-> files[f].problem, metric |-> files[f].metric, cohort |-> files[f].cohort.id]

Boards == {BoardOf(f) : f \in loaded}
Members(b) == {f \in loaded : BoardOf(f) = b}

Key(f) == PlacementKey(files[f])

-----------------------------------------------------------------------------
Init ==
  /\ files \in FileSets
  /\ allowSplit \in BOOLEAN
  /\ tool = "score" /\ phase = "read"
  /\ loaded = {}
  /\ rows = <<>> /\ ranks = <<>> /\ previous = Unplaced /\ currentRank = 0 /\ scoredPosition = 0
  /\ report = [t \in Tools |-> {}]

\* One policy per board, and one cohort per problem and round.
SplitPolicies(S) ==
  \E f, g \in S : BoardOf(f) = BoardOf(g) /\ files[f].cohort.hash # files[g].cohort.hash

SplitRound(S) ==
  \E f, g \in S :
    /\ files[f].problem = files[g].problem /\ files[f].metric = files[g].metric
    /\ files[f].cohort.round = files[g].cohort.round /\ files[f].cohort.id # files[g].cohort.id

\* Only the canonical report refuses, before anything is written.
Load ==
  /\ phase = "read"
  /\ loaded' = {f \in Names : Admitted(f)}
  /\ phase' = IF tool = "score" /\ (SplitPolicies(loaded') \/ (SplitRound(loaded') /\ ~allowSplit))
              THEN "refused" ELSE "boards"
  /\ UNCHANGED <<files, allowSplit, tool, locals, report>>

Done(b) == \E e \in report[tool] : BoardOf(e.file) = b

\* A board in rank order: placed rows by key, the others behind them.  The
\* local board sets unscored rows aside first.
Ranked(b) == {f \in Members(b) : tool = "score" \/ Scoreable(files[f])}

InRankOrder(order) ==
  \A i, j \in DOMAIN order : i < j =>
    /\ Key(order[i]) = Unplaced => Key(order[j]) = Unplaced
    /\ Key(order[j]) # Unplaced => ~KeyLess(Key(order[j]), Key(order[i]))

Orders(S) == {order \in [1 .. Cardinality(S) -> S] :
                \A i, j \in DOMAIN order : order[i] = order[j] => i = j}

\* Behind its key a row is sorted by name: where one key is the beginning of
\* the other, a cost meets a name and the sort raises TypeError.
Comparable(a, b) == Len(a) = Len(b) \/ \E i \in DOMAIN a \intersect DOMAIN b : a[i] # b[i]

Sortable(S) ==
  ~ \E f, g \in S : Key(f) # Unplaced /\ Key(g) # Unplaced /\ ~Comparable(Key(f), Key(g))

ReadyToSort(b) ==
  phase = "boards" /\ rows = <<>> /\ b \in Boards /\ ~Done(b) /\ Ranked(b) # {}

SortFails(b) ==
  /\ ReadyToSort(b) /\ ~Sortable(Ranked(b))
  /\ phase' = "failed"
  /\ UNCHANGED <<files, allowSplit, tool, loaded, locals, report>>

SortBoard(b) ==
  /\ ReadyToSort(b) /\ Sortable(Ranked(b))
  /\ \E order \in Orders(Ranked(b)) : InRankOrder(order) /\ rows' = order
  /\ ranks' = <<>> /\ previous' = Unplaced /\ currentRank' = 0 /\ scoredPosition' = 0
  /\ UNCHANGED <<files, allowSplit, tool, phase, loaded, report>>

NextRow == rows[Len(ranks) + 1]

RankUnplaced ==
  /\ phase = "boards" /\ Len(ranks) < Len(rows) /\ Key(NextRow) = Unplaced
  /\ ranks' = Append(ranks, NoRank)
  /\ UNCHANGED <<files, allowSplit, tool, phase, loaded, rows,
                 previous, currentRank, scoredPosition, report>>

\* Mutant of RankAfter: dense ranks (1, 1, 2).
RankAfter_Dense(key) == IF key # previous THEN currentRank + 1 ELSE currentRank

\* Standard competition ranks: 1, 1, 3.
RankAfter(key) == IF key # previous THEN scoredPosition + 1 ELSE currentRank

RankPlaced ==
  /\ phase = "boards" /\ Len(ranks) < Len(rows) /\ Key(NextRow) # Unplaced
  /\ scoredPosition' = scoredPosition + 1
  /\ currentRank' = RankAfter(Key(NextRow))
  /\ previous' = Key(NextRow)
  /\ ranks' = Append(ranks, RankAfter(Key(NextRow)))
  /\ UNCHANGED <<files, allowSplit, tool, phase, loaded, rows, report>>

\* The canonical board of a computation-total cohort shows ranked rows only.
Shown(f) ==
  tool = "score" /\ files[f].cohort.contract = "computation-total-v1" => Key(f) # Unplaced

FinishBoard ==
  /\ phase = "boards" /\ rows # <<>> /\ Len(ranks) = Len(rows)
  /\ report' = [report EXCEPT ![tool] =
                  @ \union {[file |-> rows[i], rank |-> ranks[i]] : i \in DOMAIN rows}]
  /\ rows' = <<>> /\ ranks' = <<>>
  /\ UNCHANGED <<files, allowSplit, tool, phase, loaded,
                 previous, currentRank, scoredPosition>>

\* score.py writes its reports and ends; the local board is made from scratch.
Publish ==
  /\ phase \in {"boards", "refused"} /\ rows = <<>>
  /\ phase = "boards" => \A b \in Boards : Ranked(b) # {} => Done(b)
  /\ report' = [report EXCEPT ![tool] = {e \in @ : Shown(e.file)}]
  /\ IF tool = "score"
     THEN tool' = "leaderboard" /\ phase' = "read" /\ loaded' = {}
     ELSE UNCHANGED <<tool, loaded>> /\ phase' = "done"
  /\ UNCHANGED <<files, allowSplit, locals>>

Next ==
  \/ Load
  \/ \E b \in Boards : SortBoard(b) \/ SortFails(b)
  \/ RankUnplaced \/ RankPlaced \/ FinishBoard \/ Publish

Spec == Init /\ [][Next]_vars

-----------------------------------------------------------------------------
TypeOK ==
  /\ allowSplit \in BOOLEAN /\ tool \in Tools
  /\ phase \in {"read", "boards", "refused", "failed", "done"}
  /\ loaded \subseteq Names
  /\ rows \in Seq(loaded) /\ ranks \in Seq(Nat)
  /\ currentRank \in Nat /\ scoredPosition \in Nat
  /\ \A t \in Tools : \A e \in report[t] : e.file \in Names /\ e.rank \in Nat

OnOneBoard(e, f) == BoardOf(e.file) = BoardOf(f.file)

\* The published rank of a placed row is one more than the number of rows of
\* its board with a better key; equal keys share a rank, the others have none.
\* (_competition_ranks: "standard competition ranks (1, 1, 3)".)
RanksAreCompetitionRanks ==
  \A t \in Tools : \A e \in report[t] :
    e.rank = IF Placed(files[e.file])
             THEN 1 + Cardinality({f \in report[t] :
                        /\ OnOneBoard(e, f) /\ Placed(files[f.file])
                        /\ KeyLess(Key(f.file), Key(e.file))})
             ELSE NoRank

\* v passes what w passes and is nowhere more expensive.
DoesNoWorse(v, w) ==
  /\ Passed(w) \subseteq Passed(v)
  /\ \A s \in Passed(w) : v.samples[s].value <= w.samples[s].value
  /\ v.correctness <= w.correctness

\* e's record is scoreable, on f's board, and does no worse than f's, which
\* has a rank.
Outdoes(e, f) ==
  /\ OnOneBoard(e, f) /\ f.rank # NoRank /\ Scoreable(files[e.file])
  /\ DoesNoWorse(files[e.file], files[f.file])

BeatsOrTies(e, f) == e.rank # NoRank /\ e.rank <= f.rank

\* Passing more cases, or the same ones more cheaply, never costs a rank,
\* under every contract whose groups have no prerequisites.
ExtraPassNeverHurts ==
  \A t \in Tools : \A e, f \in report[t] :
    /\ Outdoes(e, f)
    /\ \A g \in Groups(files[e.file].cohort) : files[e.file].cohort.groups[g].requires = {}
    => BeatsOrTies(e, f)

\* A key may lack the work tie-break another one has.  In an official cohort
\* the two then differ before it, so the sort never comes to compare a cost
\* with a name, and a canonical report is always made.
KeysAreComparable ==
  /\ \A f, g \in loaded :
       /\ BoardOf(f) = BoardOf(g) /\ Key(f) # Unplaced /\ Key(g) # Unplaced
       /\ files[f].cohort.mode = "official"
       => Comparable(Key(f), Key(g))
  /\ phase = "failed" => tool = "leaderboard"

\* One interpretation of the verdicts: when every verdict lies in its problem's
\* directory, a row of the canonical report has the same rank on the local
\* board, and a round that spans two cohorts has no canonical report at all.
BoardsAgree ==
  /\ phase = "done" /\ (\A f \in Names : files[f].dir = files[f].problem) =>
       \A e \in report["score"] : e.rank # NoRank => e \in report["leaderboard"]
  /\ ~allowSplit =>
       \A e, f \in report["score"] :
         /\ files[e.file].problem = files[f.file].problem
         /\ files[e.file].cohort.round = files[f.file].cohort.round
         => files[e.file].cohort.id = files[f.file].cohort.id

=============================================================================
