---------------------------- MODULE Dependencies ----------------------------
(***************************************************************************)
(* A problem's locked dependency closure: maintainers pin packages,        *)
(* prepare_problem builds the Spec, collects the closure, compares it with *)
(* the trusted lock (or rewrites that lock) and replaces the bundle; judge *)
(* jobs stage the bundle into their workspaces.  Preparations and jobs run *)
(* concurrently on one problem directory and may fail or die anywhere.     *)
(*                                                                         *)
(* A revision stands for the manifest, the lakefile, the toolchain and the *)
(* checkouts that go with them; Closure gives the artifacts Lake builds at *)
(* a revision for the imports of a Spec.  A module has an .olean and may   *)
(* have companions beside it, not the same ones at every revision, and     *)
(* Lake removes none: a file of other pins may lie beside an .olean of     *)
(* these.  A digest is the content itself.                                 *)
(***************************************************************************)
EXTENDS Integers, FiniteSets, Functions

CONSTANTS
  Revisions,   \* the pins maintainers consider
  Imports,     \* the direct imports of a Spec.lean
  Artifacts,   \* paths in a bundle
  Contents,
  Olean,       \* the .olean an artifact is a companion of, or is itself
  Closure,     \* [revision, imports -> the artifacts of the import closure]
  Preparers,   \* runs of prepare_problem_dependencies.py
  Jobs,        \* judge jobs
  NoLock,      \* no lock file
  BadLock,     \* a lock that load_dependency_lock refuses
  Nothing,     \* no checkout, no bundle, no workspace
  MaxEdits     \* bound: edits of pins or imports

Files == UNION {[S -> Contents] : S \in SUBSET Artifacts}
Empty == [a \in {} |-> a]

\* The lock's source digests, package pins, root modules and artifact records.
Lock == [source : Revisions, packages : Revisions, roots : Imports, artifacts : Files \ {Empty}]

Over(new, old) ==
  [a \in DOMAIN new \union DOMAIN old |-> IF a \in DOMAIN new THEN new[a] ELSE old[a]]
With(files, a, content) == Over([x \in {a} |-> content], files)

\* f is a part of g.
Within(f, g) == DOMAIN f \subseteq DOMAIN g /\ \A a \in DOMAIN f : f[a] = g[a]

\* The names of the files' modules' artifacts, there or not.
Beside(files) == {a \in Artifacts : Olean[a] \in DOMAIN files}

ASSUME DependencyAssumption ==
  /\ Closure \in [Revisions \X Imports -> Files \ {Empty}]
  /\ Olean \in [Artifacts -> Artifacts]
  /\ \A x \in Revisions \X Imports : DOMAIN Closure[x] \subseteq Beside(Closure[x])
  /\ MaxEdits \in Nat
  /\ Nothing \notin Revisions \union Files
  /\ NoLock # BadLock /\ NoLock \notin Lock /\ BadLock \notin Lock

VARIABLES
  pins,        \* the revision in lake-manifest.json and lakefile.toml
  imports,     \* of Spec.lean
  checkout,    \* the revision in .lake/packages
  built,       \* the artifacts in the packages' build directories
  lock,        \* dependency-lock.json
  draft,       \* dependency-lock.json.tmp
  bundle,      \* .lake/dependency-bundle/lib/lean
  edits,
  \* each preparation
  refresh, at, seen, records, staged,
  fd,          \* what the descriptor write_text holds is by now, if it holds one
  alone,       \* history: the preparation that runs, if none else has since it began
  repaired,    \* history: the last of edits, starts and ends is that of one alone
  \* each job
  jobAt, jobLock, workspace

tree == <<pins, imports, checkout, built, lock, draft, bundle, edits>>
own == <<refresh, seen, records, staged>>
past == <<alone, repaired>>
prepVars == <<own, at, fd, past>>
jobVars == <<jobAt, jobLock, workspace>>
vars == <<tree, prepVars, jobVars>>

Locked == lock \in Lock
Usable == Locked /\ bundle = lock.artifacts

Idle == {"idle", "done", "failed"}

\* Some revision has this artifact with this content.
Leftover(a, content) ==
  \E x \in Revisions \X Imports : a \in DOMAIN Closure[x] /\ Closure[x][a] = content

\* The files are the whole closure and nothing else but companions of its
\* modules that were built some time.
Holds(files, revision, roots) ==
  LET closure == Closure[<<revision, roots>>]
  IN  /\ Within(closure, files)
      /\ \A a \in DOMAIN files : a \in Beside(closure) /\ Leftover(a, files[a])

-----------------------------------------------------------------------------
\* The committed lock, if one is, was made for these pins on some machine.
Init ==
  /\ pins \in Revisions /\ imports \in Imports /\ checkout \in {pins, Nothing} /\ built = Empty
  /\ \/ lock \in {NoLock, BadLock}
     \/ \E files \in Files \ {Empty} :
          /\ Holds(files, pins, imports)
          /\ lock = [source |-> pins, packages |-> pins, roots |-> imports, artifacts |-> files]
  /\ draft = NoLock /\ bundle = Nothing /\ edits = 0
  /\ refresh \in [Preparers -> BOOLEAN] /\ at = [p \in Preparers |-> "idle"]
  /\ seen = [p \in Preparers |-> pins]
  /\ records = [p \in Preparers |-> Empty] /\ staged = [p \in Preparers |-> Empty]
  /\ fd = [p \in Preparers |-> "none"] /\ alone = {} /\ repaired = FALSE
  /\ jobAt = [j \in Jobs |-> "lock"] /\ jobLock = [j \in Jobs |-> NoLock]
  /\ workspace = [j \in Jobs |-> Empty]

-----------------------------------------------------------------------------
(* Maintainers *)

Edit ==
  /\ edits < MaxEdits /\ \A p \in Preparers : at[p] \in Idle
  /\ edits' = edits + 1 /\ repaired' = FALSE
  /\ UNCHANGED <<lock, draft, bundle, own, at, fd, alone, jobVars>>

\* New pins, with the checkouts of the old ones, of the new ones, or gone; what
\* was built in them stays or is gone too.  Nobody edits while a preparation runs.
EditPins(r) ==
  /\ Edit /\ r # pins /\ pins' = r
  /\ checkout' \in {checkout, r, Nothing} /\ built' \in {built, Empty}
  /\ UNCHANGED imports

EditImports(i) ==
  /\ Edit /\ i # imports /\ imports' = i
  /\ UNCHANGED <<pins, checkout, built>>

-----------------------------------------------------------------------------
(* prepare_problem *)

Goes(p, place) == at' = [at EXCEPT ![p] = place]

\* Any error ends a preparation with exit 2; a crash, besides, leaves its
\* temporary directory or file behind.
Fails(p) ==
  /\ at[p] \notin Idle
  /\ Goes(p, "failed") /\ fd' = [fd EXCEPT ![p] = "none"] /\ alone' = alone \ {p}
  /\ UNCHANGED <<tree, own, repaired, jobVars>>

\* Bound: a preparation that has failed may be run again, one that is done not.
Start(p) ==
  /\ at[p] \in Idle \ {"done"} /\ (lock = NoLock => refresh[p])
  /\ Goes(p, "packages")
  /\ records' = [records EXCEPT ![p] = Empty] /\ staged' = [staged EXCEPT ![p] = Empty]
  /\ alone' = {q \in {p} : \A other \in Preparers \ {q} : at[other] \in Idle}
  /\ repaired' = FALSE
  /\ UNCHANGED <<tree, refresh, seen, fd, jobVars>>

EndsWell(p) == Goes(p, "done") /\ repaired' = (p \in alone) /\ alone' = alone \ {p}

\* runtime_lakefile and the pins of a lock that is not being refreshed.
LockFits == Locked /\ lock.source = pins /\ lock.packages = pins

\* `lake update` fetches checkouts that are missing.  It rewrites the manifest
\* too, to the same pins: the lakefiles require exact revisions.
Fetched == IF checkout = Nothing THEN pins ELSE checkout

\* Mutant of Packages: the checkouts' revisions are not compared with the pins.
Packages_AnyCheckout(p) ==
  /\ at[p] = "packages"
  /\ checkout' = Fetched
  /\ ~refresh[p] => LockFits
  /\ seen' = [seen EXCEPT ![p] = pins]
  /\ Goes(p, "build")
  /\ UNCHANGED <<pins, imports, built, lock, draft, bundle, edits, refresh, records, staged, fd,
                 past, jobVars>>

\* Whatever was there or fetched: nothing but the pinned revisions is taken.
Packages(p) ==
  /\ at[p] = "packages"
  /\ Fetched = pins /\ (~refresh[p] => LockFits)
  /\ checkout' = Fetched
  /\ seen' = [seen EXCEPT ![p] = pins]
  /\ Goes(p, "build")
  /\ UNCHANGED <<pins, imports, built, lock, draft, bundle, edits, refresh, records, staged, fd,
                 past, jobVars>>

\* `lake build Spec`; artifacts of other closures stay where they were.
Build(p) ==
  /\ at[p] = "build"
  /\ built' = Over(Closure[<<checkout, imports>>], built)
  /\ Goes(p, "hash")
  /\ UNCHANGED <<pins, imports, checkout, lock, draft, bundle, edits, own, fd, past, jobVars>>

\* The closure's modules, each with every companion file that lies beside it.
Hash(p) ==
  /\ at[p] = "hash"
  /\ LET found == DOMAIN built \intersect Beside(Closure[<<checkout, imports>>])
     IN  records' = [records EXCEPT ![p] = Restrict(built, found)]
  /\ Goes(p, "compare")
  /\ UNCHANGED <<tree, refresh, seen, staged, fd, past, jobVars>>

NewLock(p) ==
  [source |-> pins, packages |-> seen[p], roots |-> imports, artifacts |-> records[p]]

\* Mutant of Compare: without --refresh-lock too, the closure is taken as it is.
Compare_Trusting(p) ==
  /\ at[p] = "compare"
  /\ Goes(p, "copy")
  /\ UNCHANGED <<tree, own, fd, past, jobVars>>

\* The trusted lock must be what this preparation would have written.
Compare(p) ==
  /\ at[p] = "compare" /\ (~refresh[p] => lock = NewLock(p))
  /\ Goes(p, "copy")
  /\ UNCHANGED <<tree, own, fd, past, jobVars>>

\* Into a temporary directory beside the bundle.
CopyFile(p) ==
  /\ at[p] = "copy"
  /\ \E a \in DOMAIN records[p] \ DOMAIN staged[p] :
       staged' = [staged EXCEPT ![p] = With(@, a, built[a])]
  /\ Goes(p, IF DOMAIN staged'[p] = DOMAIN records[p] THEN "remove" ELSE "copy")
  /\ UNCHANGED <<tree, refresh, seen, records, fd, past, jobVars>>

\* shutil.rmtree(bundle), file by file, and the directory at last.
Remove(p) ==
  /\ at[p] = "remove"
  /\ \/ bundle = Nothing /\ Goes(p, "replace") /\ bundle' = bundle
     \/ bundle = Empty /\ Goes(p, "replace") /\ bundle' = Nothing
     \/ /\ bundle \notin {Nothing, Empty} /\ Goes(p, "remove")
        /\ \E a \in DOMAIN bundle : bundle' = Restrict(bundle, DOMAIN bundle \ {a})
  /\ UNCHANGED <<pins, imports, checkout, built, lock, draft, edits, own, fd, past, jobVars>>

\* os.replace refuses a directory that has files in it again.
Replace(p) ==
  /\ at[p] = "replace" /\ bundle \in {Nothing, Empty}
  /\ bundle' = staged[p]
  /\ \/ refresh[p] /\ Goes(p, "lock") /\ UNCHANGED past
     \/ ~refresh[p] /\ EndsWell(p)
  /\ UNCHANGED <<pins, imports, checkout, built, lock, draft, edits, own, fd, jobVars>>

\* Mutant of Truncate: a temporary that is there already is published.
Truncate_KeepsDraft(p) ==
  /\ at[p] = "lock"
  /\ IF draft = NoLock
     THEN draft' = BadLock /\ fd' = [fd EXCEPT ![p] = "draft"] /\ Goes(p, "dump")
     ELSE UNCHANGED <<draft, fd>> /\ Goes(p, "publish")
  /\ UNCHANGED <<pins, imports, checkout, built, lock, bundle, edits, own, past, jobVars>>

\* write_text opens the one temporary that all refreshes share, and truncates it.
Truncate(p) ==
  /\ at[p] = "lock"
  /\ draft' = BadLock /\ fd' = [fd EXCEPT ![p] = "draft"]
  /\ Goes(p, "dump")
  /\ UNCHANGED <<pins, imports, checkout, built, lock, bundle, edits, own, past, jobVars>>

\* It writes to the file it opened: the temporary, the published lock by now,
\* or a file without a name.
Dump(p) ==
  /\ at[p] = "dump"
  /\ draft' = IF fd[p] = "draft" THEN NewLock(p) ELSE draft
  /\ lock' = IF fd[p] = "lock" THEN NewLock(p) ELSE lock
  /\ fd' = [fd EXCEPT ![p] = "none"] /\ Goes(p, "publish")
  /\ UNCHANGED <<pins, imports, checkout, built, bundle, edits, own, past, jobVars>>

\* os.replace publishes the temporary as it is by now; the other descriptors
\* follow their files.
Publish(p) ==
  /\ at[p] = "publish" /\ draft # NoLock
  /\ lock' = draft /\ draft' = NoLock
  /\ fd' = [q \in Preparers |->
              IF fd[q] = "draft" THEN "lock" ELSE IF fd[q] = "lock" THEN "gone" ELSE fd[q]]
  /\ EndsWell(p)
  /\ UNCHANGED <<pins, imports, checkout, built, bundle, edits, own, jobVars>>

Prepare(p) ==
  \/ Start(p) \/ Packages(p) \/ Build(p) \/ Hash(p) \/ Compare(p) \/ CopyFile(p) \/ Remove(p)
  \/ Replace(p) \/ Truncate(p) \/ Dump(p) \/ Publish(p) \/ Fails(p)

-----------------------------------------------------------------------------
(* stage_problem_dependencies *)

JobGoes(j, place) == jobAt' = [jobAt EXCEPT ![j] = place]

JobRefused(j) ==
  /\ jobAt[j] \in {"lock", "list", "copy"}
  /\ JobGoes(j, "refused")
  /\ UNCHANGED <<tree, prepVars, jobLock, workspace>>

\* The lock is read once; it must belong to the canonical sources.
ReadLock(j) ==
  /\ jobAt[j] = "lock"
  /\ Locked /\ lock.source = pins
  /\ jobLock' = [jobLock EXCEPT ![j] = lock]
  /\ JobGoes(j, "list")
  /\ UNCHANGED <<tree, prepVars, workspace>>

ListBundle(j) ==
  /\ jobAt[j] = "list"
  /\ bundle # Nothing /\ DOMAIN bundle = DOMAIN jobLock[j].artifacts
  /\ JobGoes(j, "copy")
  /\ UNCHANGED <<tree, prepVars, jobLock, workspace>>

NextFile(j) == DOMAIN jobLock[j].artifacts \ DOMAIN workspace[j]

StageDone(j) == IF NextFile(j)' = {} THEN JobGoes(j, "staged") ELSE JobGoes(j, "copy")

\* Mutant of StageFile: the file set was checked, so only the name matters.
StageFile_Unverified(j) ==
  /\ jobAt[j] = "copy" /\ bundle # Nothing
  /\ \E a \in NextFile(j) \intersect DOMAIN bundle :
       workspace' = [workspace EXCEPT ![j] = With(@, a, bundle[a])]
  /\ UNCHANGED <<tree, prepVars, jobLock>>
  /\ StageDone(j)

\* The bytes written are the bytes read and verified.
StageFile(j) ==
  /\ jobAt[j] = "copy" /\ bundle # Nothing
  /\ \E a \in NextFile(j) \intersect DOMAIN bundle :
       /\ bundle[a] = jobLock[j].artifacts[a]
       /\ workspace' = [workspace EXCEPT ![j] = With(@, a, bundle[a])]
  /\ UNCHANGED <<tree, prepVars, jobLock>>
  /\ StageDone(j)

Stage(j) == ReadLock(j) \/ ListBundle(j) \/ StageFile(j) \/ JobRefused(j)

-----------------------------------------------------------------------------
Next ==
  \/ \E r \in Revisions : EditPins(r)
  \/ \E i \in Imports : EditImports(i)
  \/ \E p \in Preparers : Prepare(p)
  \/ \E j \in Jobs : Stage(j)

Spec == Init /\ [][Next]_vars

-----------------------------------------------------------------------------
TypeOK ==
  /\ pins \in Revisions /\ imports \in Imports /\ checkout \in Revisions \union {Nothing}
  /\ built \in Files /\ bundle \in Files \union {Nothing}
  /\ lock \in Lock \union {NoLock, BadLock} /\ draft \in Lock \union {NoLock, BadLock}
  /\ edits \in Nat
  /\ refresh \in [Preparers -> BOOLEAN]
  /\ at \in [Preparers -> Idle \union {"packages", "build", "hash", "compare", "copy", "remove",
                                       "replace", "lock", "dump", "publish"}]
  /\ seen \in [Preparers -> Revisions]
  /\ records \in [Preparers -> Files] /\ staged \in [Preparers -> Files]
  /\ fd \in [Preparers -> {"none", "draft", "lock", "gone"}]
  /\ alone \subseteq Preparers /\ repaired \in BOOLEAN
  /\ jobAt \in [Jobs -> {"lock", "list", "copy", "staged", "refused"}]
  /\ jobLock \in [Jobs -> Lock \union {NoLock}] /\ workspace \in [Jobs -> Files]

\* A workspace that was staged holds what the lock it was staged by lists, and
\* with it the whole closure of that lock's revision and roots, whatever
\* happened to bundle and lock while it was copied.
StagedIsOneClosure ==
  \A j \in Jobs : jobAt[j] = "staged" =>
    /\ workspace[j] = jobLock[j].artifacts
    /\ Holds(workspace[j], jobLock[j].packages, jobLock[j].roots)

\* However a lock came to be, through refreshes that shared a temporary, died
\* writing it or found files of earlier pins: it lists the closure of the very
\* revision it pins and of its imports, and besides only old companions of
\* modules of that closure.
LockHoldsItsClosure ==
  Locked => /\ lock.source = lock.packages
            /\ Holds(lock.artifacts, lock.packages, lock.roots)

\* prepare_problem_dependencies.py:262 "Only replace a usable prepared bundle
\* after the recomputed closure has matched the trusted lock (or the caller
\* explicitly selected the maintainer refresh operation)."
UsableBundleSurvives ==
  [][Usable /\ bundle' # bundle =>
       \E p \in Preparers : at[p] = "remove" /\ (refresh[p] \/ records[p] = lock.artifacts)]_vars

\* One preparation that nothing else ran beside, and that ends well, repairs
\* whatever earlier ones left when they failed, died or ran together: a bundle
\* half removed or missing, a lock or a temporary cut short, files of other
\* pins.  The next job can stage what it needs.
RepairedIsUsable == repaired => Usable /\ lock.source = pins

=============================================================================
