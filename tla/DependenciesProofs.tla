------------------------- MODULE DependenciesProofs -------------------------
(***************************************************************************)
(* Proofs about Dependencies, for any number of preparations and jobs, any *)
(* revisions, imports, artifacts and contents.  The argument: nobody edits *)
(* the pins while a preparation runs, so all that run at a time work on    *)
(* one closure (Target), find the same files for it (Found) and would      *)
(* write the same lock (Newest); what a lock or the shared temporary holds *)
(* while they run is therefore that lock or cut short, whoever wrote or    *)
(* renamed it.  A job copies from a lock that holds a closure and keeps    *)
(* only bytes equal to the lock's.                                         *)
(***************************************************************************)
EXTENDS Dependencies, TLAPS

Target == Closure[<<pins, imports>>]

\* What a preparation that has built finds for it, files of other pins included.
Found == Restrict(built, DOMAIN built \intersect Beside(Target))

Newest == [source |-> pins, packages |-> pins, roots |-> imports, artifacts |-> Found]

Building == {"build", "hash", "compare", "copy", "remove", "replace", "lock", "dump", "publish"}
Built == Building \ {"build"}
Hashed == Built \ {"hash"}

BuiltInv == \A a \in DOMAIN built : Leftover(a, built[a])

PrepOK(p) ==
  /\ at[p] \in Building => checkout = pins /\ seen[p] = pins
  /\ at[p] \in Built => Within(Target, built)
  /\ at[p] \in Hashed => records[p] = Found
  /\ at[p] \in {"packages", "build", "hash", "compare"} => staged[p] = Empty
  /\ at[p] = "copy" => Within(staged[p], Found)
  /\ at[p] \in {"remove", "replace"} => staged[p] = Found
  /\ at[p] \in {"copy", "remove", "replace"} /\ ~refresh[p] => lock \in {Newest, BadLock}
  /\ at[p] \in {"dump", "publish"} => draft \in {NoLock, BadLock, Newest}

PrepInv == \A p \in Preparers : PrepOK(p)

\* Nobody else disturbs a preparation that runs alone: lock, bundle and
\* temporary are as it found or made them.
AloneOK(p) ==
  /\ at[p] \notin Idle /\ \A q \in Preparers \ {p} : at[q] \in Idle
  /\ at[p] \in {"copy", "remove", "replace"} /\ ~refresh[p] => lock = Newest
  /\ at[p] \in {"lock", "dump", "publish"} => bundle = Found
  /\ at[p] = "dump" => fd[p] = "draft"
  /\ at[p] = "publish" => draft = Newest

AloneInv == \A p \in alone : AloneOK(p)

RepairInv ==
  repaired => /\ \A p \in Preparers : at[p] \in Idle
              /\ lock = Newest /\ bundle = Found /\ Within(Target, built)

HoldsItsClosure(l) == l.source = l.packages /\ Holds(l.artifacts, l.packages, l.roots)

JobOK(j) ==
  /\ jobAt[j] \in {"lock", "list"} => workspace[j] = Empty
  /\ jobAt[j] \in {"list", "copy", "staged"} =>
       jobLock[j] \in Lock /\ HoldsItsClosure(jobLock[j])
  /\ jobAt[j] \in {"copy", "staged"} => Within(workspace[j], jobLock[j].artifacts)
  /\ jobAt[j] = "staged" => DOMAIN workspace[j] = DOMAIN jobLock[j].artifacts

JobInv == \A j \in Jobs : JobOK(j)

LockInv == LockHoldsItsClosure

Inv == TypeOK /\ BuiltInv /\ LockInv /\ PrepInv /\ AloneInv /\ RepairInv /\ JobInv

-----------------------------------------------------------------------------
(* The operators on files *)

\* Membership in Files, without the union.
LEMMA FilesShape ==
  ASSUME NEW f
  PROVE  f \in Files <=> \E S \in SUBSET Artifacts : f \in [S -> Contents]
BY DEF Files

LEMMA FilesParts ==
  ASSUME NEW f \in Files
  PROVE  /\ DOMAIN f \subseteq Artifacts
         /\ f \in [DOMAIN f -> Contents]
         /\ \A a \in DOMAIN f : f[a] \in Contents
BY FilesShape

\* Functions of the same artifacts with the same contents are equal.
LEMMA SameFiles ==
  ASSUME NEW f \in Files, NEW g \in Files, Within(f, g), DOMAIN f = DOMAIN g
  PROVE  f = g
BY FilesParts DEF Within

LEMMA EmptyInFiles == Empty \in Files
<1>1. Empty \in [{} -> Contents]
  BY DEF Empty
<1> QED
  BY <1>1, FilesShape

LEMMA OverInFiles ==
  ASSUME NEW f \in Files, NEW g \in Files
  PROVE  Over(f, g) \in Files
<1> DEFINE S == DOMAIN f \union DOMAIN g
<1>1. Over(f, g) \in [S -> Contents]
  BY FilesParts DEF Over
<1>2. S \subseteq Artifacts
  BY FilesParts
<1> QED
  BY <1>1, <1>2, FilesShape

\* One more artifact of g copied to a part of g.
LEMMA CopiedArtifact ==
  ASSUME NEW f \in Files, NEW g \in Files, Within(f, g), NEW a \in DOMAIN g
  PROVE  /\ With(f, a, g[a]) \in Files
         /\ Within(With(f, a, g[a]), g)
         /\ DOMAIN With(f, a, g[a]) = DOMAIN f \union {a}
<1> DEFINE one == [x \in {a} |-> g[a]]
<1>1. one \in Files
  <2>1. a \in Artifacts /\ g[a] \in Contents
    BY FilesParts
  <2>2. one \in [{a} -> Contents]
    BY <2>1
  <2> QED
    BY <2>1, <2>2, FilesShape
<1>2. With(f, a, g[a]) = Over(one, f)
  BY DEF With
<1>3. Within(Over(one, f), g) /\ DOMAIN Over(one, f) = DOMAIN f \union {a}
  BY DEF Over, Within
<1> QED
  BY <1>1, <1>2, <1>3, OverInFiles

LEMMA RestrictInFiles ==
  ASSUME NEW f \in Files, NEW S, S \subseteq DOMAIN f
  PROVE  Restrict(f, S) \in Files
<1>1. Restrict(f, S) \in [S -> Contents]
  BY FilesParts DEF Restrict
<1>2. S \subseteq Artifacts
  BY FilesParts
<1> QED
  BY <1>1, <1>2, FilesShape

\* Building what is there already changes nothing.
LEMMA OverWithin ==
  ASSUME NEW f \in Files, NEW g \in Files, Within(f, g)
  PROVE  Over(f, g) = g
<1>1. Over(f, g) \in Files
  BY OverInFiles
<1>2. DOMAIN Over(f, g) = DOMAIN g /\ Within(Over(f, g), g)
  BY DEF Over, Within
<1> QED
  BY <1>1, <1>2, SameFiles

LEMMA ClosureInFiles ==
  ASSUME NEW r \in Revisions, NEW i \in Imports
  PROVE  /\ Closure[<<r, i>>] \in Files /\ Closure[<<r, i>>] # Empty
         /\ DOMAIN Closure[<<r, i>>] \subseteq Beside(Closure[<<r, i>>])
BY DependencyAssumption

LEMMA TargetInFiles ==
  ASSUME TypeOK
  PROVE  Target \in Files /\ Target # Empty /\ DOMAIN Target \subseteq Beside(Target)
BY ClosureInFiles DEF TypeOK, Target

\* A file that is not empty has an artifact.
LEMMA NotEmpty ==
  ASSUME NEW f \in Files
  PROVE  f # Empty <=> DOMAIN f # {}
<1>1. DOMAIN Empty = {}
  BY DEF Empty
<1>2. ASSUME DOMAIN f = {} PROVE f = Empty
  BY <1>1, <1>2, EmptyInFiles, SameFiles DEF Within
<1> QED
  BY <1>1, <1>2

LEMMA FoundInFiles == TypeOK => Found \in Files
BY RestrictInFiles DEF TypeOK, Found

\* What is found for a closure that has been built holds it.
LEMMA FoundHolds ==
  ASSUME TypeOK, BuiltInv, Within(Target, built)
  PROVE  /\ Within(Target, Found) /\ Within(Found, built) /\ Found # Empty
         /\ Holds(Found, pins, imports)
<1>1. /\ DOMAIN Found = DOMAIN built \intersect Beside(Target)
      /\ \A a \in DOMAIN Found : Found[a] = built[a]
  BY DEF Found, Restrict
<1>2. Within(Target, Found) /\ Within(Found, built)
  BY <1>1, TargetInFiles DEF Within
<1>3. DOMAIN Target # {}
  BY TargetInFiles, NotEmpty
<1>4. Found # Empty
  BY <1>2, <1>3, FoundInFiles, NotEmpty DEF Within
<1>5. \A a \in DOMAIN Found : a \in Beside(Target) /\ Leftover(a, Found[a])
  BY <1>1 DEF BuiltInv
<1> QED
  BY <1>2, <1>4, <1>5 DEF Holds, Target

\* So the lock that a preparation writes is one.
LEMMA NewestIsLock ==
  ASSUME TypeOK, BuiltInv, Within(Target, built)
  PROVE  Newest \in Lock /\ HoldsItsClosure(Newest)
<1>1. Found \in Files \ {Empty} /\ Holds(Found, pins, imports)
  BY FoundHolds, FoundInFiles
<1>2. pins \in Revisions /\ imports \in Imports
  BY DEF TypeOK
<1> QED
  BY <1>1, <1>2 DEF Newest, Lock, HoldsItsClosure

LEMMA SameTarget ==
  ASSUME UNCHANGED <<pins, imports, built>>
  PROVE  UNCHANGED <<Target, Found, Newest>>
BY DEF Target, Found, Newest

-----------------------------------------------------------------------------
(* The invariant is inductive *)

LEMMA InitInv == Init => Inv
<1> SUFFICES ASSUME Init
             PROVE  Inv
  OBVIOUS
<1> USE DEF Init
<1>1. lock \in Lock \union {NoLock, BadLock} /\ LockInv
  <2>1. CASE lock \in {NoLock, BadLock}
    BY <2>1, DependencyAssumption DEF LockInv, LockHoldsItsClosure, Locked
  <2>2. CASE lock \notin {NoLock, BadLock}
    <3>1. PICK files \in Files \ {Empty} :
            /\ Holds(files, pins, imports)
            /\ lock = [source |-> pins, packages |-> pins, roots |-> imports, artifacts |-> files]
      BY <2>2
    <3> QED
      BY <3>1 DEF LockInv, LockHoldsItsClosure, Locked, Lock
  <2> QED
    BY <2>1, <2>2
<1>2. TypeOK
  BY <1>1, EmptyInFiles DEF TypeOK, Idle
<1>3. BuiltInv
  BY DEF BuiltInv, Empty
<1>4. PrepInv /\ AloneInv /\ RepairInv /\ JobInv
  BY DEF PrepInv, PrepOK, AloneInv, RepairInv, JobInv, JobOK, Building, Built, Hashed
<1> QED
  BY <1>1, <1>2, <1>3, <1>4 DEF Inv

\* What a job relies on is not disturbed by maintainers and preparations.
LEMMA JobsUnchanged ==
  ASSUME JobInv, UNCHANGED jobVars
  PROVE  JobInv'
BY DEF JobInv, JobOK, jobVars, HoldsItsClosure

LEMMA PrepsUnchanged ==
  ASSUME Inv, UNCHANGED <<tree, prepVars>>
  PROVE  BuiltInv' /\ LockInv' /\ PrepInv' /\ AloneInv' /\ RepairInv'
<1>1. UNCHANGED <<Target, Found, Newest>>
  BY SameTarget DEF tree
<1>2. BuiltInv' /\ LockInv'
  BY DEF Inv, BuiltInv, LockInv, LockHoldsItsClosure, Locked, tree
<1>3. PrepInv'
  BY <1>1 DEF Inv, PrepInv, PrepOK, tree, prepVars, own
<1>4. AloneInv' /\ RepairInv'
  BY <1>1 DEF Inv, AloneInv, AloneOK, RepairInv, tree, prepVars, own, past
<1> QED
  BY <1>2, <1>3, <1>4

LEMMA EditStep ==
  ASSUME Inv, Edit, checkout' \in Revisions \union {Nothing}, built' \in {built, Empty},
         pins' \in Revisions, imports' \in Imports
  PROVE  Inv'
<1> USE DEF Edit, own
<1>1. TypeOK'
  <2>1. built' \in Files
    BY EmptyInFiles DEF Inv, TypeOK
  <2>2. edits' \in Nat
    BY DEF Inv, TypeOK
  <2> QED
    BY <2>1, <2>2 DEF Inv, TypeOK, jobVars
<1>2. BuiltInv' /\ LockInv'
  BY DEF Inv, BuiltInv, Empty, LockInv, LockHoldsItsClosure, Locked
<1>3. PrepInv'
  BY DEF Inv, PrepInv, PrepOK, Idle, Building, Built, Hashed
<1>4. AloneInv' /\ RepairInv'
  <2>1. alone = {}
    BY DEF Inv, TypeOK, AloneInv, AloneOK
  <2> QED
    BY <2>1 DEF AloneInv, RepairInv
<1>5. JobInv'
  BY JobsUnchanged DEF Inv
<1> QED
  BY <1>1, <1>2, <1>3, <1>4, <1>5 DEF Inv

-----------------------------------------------------------------------------
(* Each step of a preparation *)

\* A running preparation is alone or none is, and nothing is repaired.
LEMMA OneAlone ==
  ASSUME Inv, NEW p \in Preparers, at[p] \notin Idle
  PROVE  ~repaired /\ alone \subseteq {p}
BY DEF Inv, TypeOK, RepairInv, AloneInv, AloneOK

LEMMA StartStep ==
  ASSUME Inv, NEW p \in Preparers, Start(p)
  PROVE  Inv'
<1> USE DEF Start, Goes, tree
<1>0. UNCHANGED <<Target, Found, Newest>>
  BY SameTarget
<1>1. TypeOK'
  <2>1. alone' \subseteq Preparers /\ repaired' \in BOOLEAN
    OBVIOUS
  <2>2. records' \in [Preparers -> Files] /\ staged' \in [Preparers -> Files]
    BY EmptyInFiles DEF Inv, TypeOK
  <2>3. at' = [at EXCEPT ![p] = "packages"]
    OBVIOUS
  <2> QED
    BY <2>1, <2>2, <2>3 DEF Inv, TypeOK, jobVars
<1>2. BuiltInv' /\ LockInv'
  BY DEF Inv, BuiltInv, LockInv, LockHoldsItsClosure, Locked
<1>3. PrepInv'
  <2> SUFFICES ASSUME NEW q \in Preparers
               PROVE  PrepOK(q)'
    BY DEF PrepInv
  <2>1. PrepOK(q)
    BY DEF Inv, PrepInv
  <2> QED
    BY <1>0, <2>1 DEF PrepOK, Inv, TypeOK, Building, Built, Hashed
<1>4. AloneInv' /\ RepairInv'
  BY <1>0 DEF Inv, TypeOK, AloneInv, AloneOK, RepairInv, Idle
<1>5. JobInv'
  BY JobsUnchanged DEF Inv
<1> QED
  BY <1>1, <1>2, <1>3, <1>4, <1>5 DEF Inv

LEMMA FailsStep ==
  ASSUME Inv, NEW p \in Preparers, Fails(p)
  PROVE  Inv'
<1> USE DEF Fails, Goes, tree, own
<1>0. UNCHANGED <<Target, Found, Newest>> /\ ~repaired /\ alone' = {}
  BY SameTarget, OneAlone
<1>1. TypeOK'
  BY <1>0 DEF Inv, TypeOK, Idle, jobVars
<1>2. BuiltInv' /\ LockInv'
  BY DEF Inv, BuiltInv, LockInv, LockHoldsItsClosure, Locked
<1>3. PrepInv'
  <2> SUFFICES ASSUME NEW q \in Preparers
               PROVE  PrepOK(q)'
    BY DEF PrepInv
  <2>1. PrepOK(q)
    BY DEF Inv, PrepInv
  <2> QED
    BY <1>0, <2>1 DEF PrepOK, Inv, TypeOK, Building, Built, Hashed
<1>4. AloneInv' /\ RepairInv'
  BY <1>0 DEF AloneInv, RepairInv
<1>5. JobInv'
  BY JobsUnchanged DEF Inv
<1> QED
  BY <1>1, <1>2, <1>3, <1>4, <1>5 DEF Inv

LEMMA PackagesStep ==
  ASSUME Inv, NEW p \in Preparers, Packages(p)
  PROVE  Inv'
<1> USE DEF Packages, Goes, past
<1>0. UNCHANGED <<Target, Found, Newest>> /\ ~repaired /\ alone \subseteq {p}
  BY SameTarget, OneAlone DEF Idle
<1>1. TypeOK'
  BY DEF Inv, TypeOK, jobVars
<1>2. BuiltInv' /\ LockInv'
  BY DEF Inv, BuiltInv, LockInv, LockHoldsItsClosure, Locked
<1>3. PrepInv'
  <2> SUFFICES ASSUME NEW q \in Preparers
               PROVE  PrepOK(q)'
    BY DEF PrepInv
  <2>1. PrepOK(q)
    BY DEF Inv, PrepInv
  <2> QED
    BY <1>0, <2>1 DEF PrepOK, Inv, TypeOK, Building, Built, Hashed
<1>4. AloneInv' /\ RepairInv'
  BY <1>0 DEF Inv, TypeOK, AloneInv, AloneOK, RepairInv, Idle
<1>5. JobInv'
  BY JobsUnchanged DEF Inv
<1> QED
  BY <1>1, <1>2, <1>3, <1>4, <1>5 DEF Inv

\* A build is none when some preparation has built this closure already.
LEMMA BuildStep ==
  ASSUME Inv, NEW p \in Preparers, Build(p)
  PROVE  Inv'
<1> USE DEF Build, Goes, own, past
<1>0. UNCHANGED Target /\ ~repaired /\ alone \subseteq {p}
  BY OneAlone DEF Idle, Target
<1>1. checkout = pins /\ built' = Over(Target, built)
  BY DEF Inv, PrepInv, PrepOK, Building, Target
<1>2. Within(Target, built) => UNCHANGED <<built, Found, Newest>>
  <2>1. Within(Target, built) => built' = built
    BY <1>1, TargetInFiles, OverWithin DEF Inv, TypeOK
  <2> QED
    BY <2>1, SameTarget
<1>3. Within(Target, built)'
  <2>1. Within(Target, built')
    BY <1>1 DEF Within, Over
  <2> QED
    BY <1>0, <2>1
<1>4. TypeOK'
  <2>1. built' \in Files
    BY <1>1, TargetInFiles, OverInFiles DEF Inv, TypeOK
  <2> QED
    BY <2>1 DEF Inv, TypeOK, jobVars
<1>5. BuiltInv'
  <2>1. ASSUME NEW a \in DOMAIN Target PROVE Leftover(a, Target[a])
    BY DEF Inv, TypeOK, Leftover, Target
  <2> QED
    BY <1>1, <2>1 DEF Inv, BuiltInv, Over
<1>6. LockInv'
  BY DEF Inv, LockInv, LockHoldsItsClosure, Locked
<1>7. PrepInv'
  <2> SUFFICES ASSUME NEW q \in Preparers
               PROVE  PrepOK(q)'
    BY DEF PrepInv
  <2>1. PrepOK(q)
    BY DEF Inv, PrepInv
  <2>2. CASE q = p
    BY <1>0, <1>1, <1>3, <2>1, <2>2 DEF PrepOK, Inv, TypeOK, Building, Built, Hashed
  <2>3. CASE q # p /\ at[q] \in Built
    BY <1>0, <1>2, <2>1, <2>3 DEF PrepOK, Inv, TypeOK
  <2>4. CASE q # p /\ at[q] \notin Built
    BY <1>0, <2>1, <2>4 DEF PrepOK, Inv, TypeOK, Building, Built, Hashed
  <2> QED
    BY <2>2, <2>3, <2>4
<1>8. AloneInv' /\ RepairInv'
  BY <1>0 DEF Inv, TypeOK, AloneInv, AloneOK, RepairInv, Idle
<1>9. JobInv'
  BY JobsUnchanged DEF Inv
<1> QED
  BY <1>4, <1>5, <1>6, <1>7, <1>8, <1>9 DEF Inv

LEMMA HashStep ==
  ASSUME Inv, NEW p \in Preparers, Hash(p)
  PROVE  Inv'
<1> USE DEF Hash, Goes, tree, past
<1>0. UNCHANGED <<Target, Found, Newest>> /\ ~repaired /\ alone \subseteq {p}
  BY SameTarget, OneAlone DEF Idle
<1>1. records' = [records EXCEPT ![p] = Found]
  <2>1. checkout = pins
    BY DEF Inv, PrepInv, PrepOK, Building
  <2> QED
    BY <2>1 DEF Found, Target
<1>2. TypeOK'
  BY <1>1, FoundInFiles DEF Inv, TypeOK, jobVars
<1>3. BuiltInv' /\ LockInv'
  BY DEF Inv, BuiltInv, LockInv, LockHoldsItsClosure, Locked
<1>4. PrepInv'
  <2> SUFFICES ASSUME NEW q \in Preparers
               PROVE  PrepOK(q)'
    BY DEF PrepInv
  <2>1. PrepOK(q)
    BY DEF Inv, PrepInv
  <2> QED
    BY <1>0, <1>1, <2>1 DEF PrepOK, Inv, TypeOK, Building, Built, Hashed
<1>5. AloneInv' /\ RepairInv'
  BY <1>0 DEF Inv, TypeOK, AloneInv, AloneOK, RepairInv, Idle
<1>6. JobInv'
  BY JobsUnchanged DEF Inv
<1> QED
  BY <1>2, <1>3, <1>4, <1>5, <1>6 DEF Inv

\* What a preparation that has hashed writes.
LEMMA NewLockIsNewest ==
  ASSUME Inv, NEW p \in Preparers, at[p] \in Hashed
  PROVE  NewLock(p) = Newest /\ Within(Target, built)
BY DEF Inv, PrepInv, PrepOK, Building, Built, Hashed, NewLock, Newest

LEMMA CompareStep ==
  ASSUME Inv, NEW p \in Preparers, Compare(p)
  PROVE  Inv'
<1> USE DEF Compare, Goes, tree, past, own
<1>0. UNCHANGED <<Target, Found, Newest>> /\ ~repaired /\ alone \subseteq {p}
  BY SameTarget, OneAlone DEF Idle
<1>1. ~refresh[p] => lock = Newest
  BY NewLockIsNewest DEF Hashed, Built, Building
<1>2. TypeOK'
  BY DEF Inv, TypeOK, jobVars
<1>3. BuiltInv' /\ LockInv'
  BY DEF Inv, BuiltInv, LockInv, LockHoldsItsClosure, Locked
<1>4. PrepInv'
  <2> SUFFICES ASSUME NEW q \in Preparers
               PROVE  PrepOK(q)'
    BY DEF PrepInv
  <2>1. PrepOK(q)
    BY DEF Inv, PrepInv
  <2>2. Within(Empty, Found)
    BY DEF Within, Empty
  <2> QED
    BY <1>0, <1>1, <2>1, <2>2 DEF PrepOK, Inv, TypeOK, Building, Built, Hashed
<1>5. AloneInv' /\ RepairInv'
  BY <1>0, <1>1 DEF Inv, TypeOK, AloneInv, AloneOK, RepairInv, Idle
<1>6. JobInv'
  BY JobsUnchanged DEF Inv
<1> QED
  BY <1>2, <1>3, <1>4, <1>5, <1>6 DEF Inv

\* A copied artifact is the one that was hashed.
LEMMA CopyFileStep ==
  ASSUME Inv, NEW p \in Preparers, CopyFile(p)
  PROVE  Inv'
<1> USE DEF CopyFile, Goes, tree, past
<1>0. UNCHANGED <<Target, Found, Newest>> /\ ~repaired /\ alone \subseteq {p}
  BY SameTarget, OneAlone DEF Idle
<1>1. PICK a \in DOMAIN records[p] \ DOMAIN staged[p] :
        staged' = [staged EXCEPT ![p] = With(@, a, built[a])]
  OBVIOUS
<1> DEFINE s == With(staged[p], a, built[a])
<1>2. PrepOK(p)
  BY DEF Inv, PrepInv
<1>3. records[p] = Found /\ Within(staged[p], Found) /\ Within(Target, built)
  BY <1>2 DEF PrepOK, Built, Hashed, Building
<1>4. Found \in Files /\ a \in DOMAIN Found /\ a \notin DOMAIN staged[p] /\ staged[p] \in Files
  BY <1>1, <1>3, FoundInFiles DEF Inv, TypeOK
<1>5. built[a] = Found[a]
  BY <1>3, <1>4, FoundHolds DEF Within, Inv
<1>6. s \in Files /\ Within(s, Found) /\ DOMAIN s = DOMAIN staged[p] \union {a}
  BY <1>3, <1>4, <1>5, CopiedArtifact
<1> HIDE DEF s
<1>7. staged' = [staged EXCEPT ![p] = s]
  BY <1>1 DEF s
<1>8. DOMAIN s = DOMAIN records[p] => s = Found
  BY <1>3, <1>4, <1>6, SameFiles
<1>9. TypeOK'
  BY <1>6, <1>7 DEF Inv, TypeOK, jobVars
<1>10. staged'[p] = s
  BY <1>7 DEF Inv, TypeOK
<1>11. BuiltInv' /\ LockInv'
  BY DEF Inv, BuiltInv, LockInv, LockHoldsItsClosure, Locked
<1>12. PrepInv'
  <2> SUFFICES ASSUME NEW q \in Preparers
               PROVE  PrepOK(q)'
    BY DEF PrepInv
  <2>1. PrepOK(q)
    BY DEF Inv, PrepInv
  <2>2. CASE q # p
    BY <2>1, <2>2, <1>0, <1>7 DEF PrepOK, Inv, TypeOK, Building, Built, Hashed
  <2>3. CASE q = p
    BY <2>1, <2>3, <1>0, <1>6, <1>8, <1>10 DEF PrepOK, Inv, TypeOK, Building, Built, Hashed
  <2> QED
    BY <2>2, <2>3
<1>13. AloneInv' /\ RepairInv'
  <2>1. at' = [at EXCEPT ![p] = "remove"] \/ at' = [at EXCEPT ![p] = "copy"]
    OBVIOUS
  <2>2. UNCHANGED <<lock, bundle, fd, draft, refresh, alone, repaired>> /\ at[p] = "copy"
    OBVIOUS
  <2> QED
    BY <1>0, <2>1, <2>2 DEF Inv, TypeOK, AloneInv, AloneOK, RepairInv, Idle
<1>14. JobInv'
  BY JobsUnchanged DEF Inv
<1> QED
  BY <1>9, <1>11, <1>12, <1>13, <1>14 DEF Inv

LEMMA RemoveStep ==
  ASSUME Inv, NEW p \in Preparers, Remove(p)
  PROVE  Inv'
<1> USE DEF Remove, Goes, past, own
<1>0. UNCHANGED <<Target, Found, Newest>> /\ ~repaired /\ alone \subseteq {p}
  BY SameTarget, OneAlone DEF Idle
<1>1. TypeOK'
  <2>1. bundle' \in Files \union {Nothing}
    <3>1. ASSUME bundle \notin {Nothing, Empty}, NEW a \in DOMAIN bundle,
                 bundle' = Restrict(bundle, DOMAIN bundle \ {a})
          PROVE  bundle' \in Files
      BY <3>1, RestrictInFiles DEF Inv, TypeOK
    <3> QED
      BY <3>1 DEF Inv, TypeOK
  <2> QED
    BY <2>1 DEF Inv, TypeOK, jobVars
<1>2. at' = [at EXCEPT ![p] = "remove"] \/ at' = [at EXCEPT ![p] = "replace"]
  OBVIOUS
<1>3. BuiltInv' /\ LockInv'
  BY DEF Inv, BuiltInv, LockInv, LockHoldsItsClosure, Locked
<1>4. PrepInv'
  <2> SUFFICES ASSUME NEW q \in Preparers
               PROVE  PrepOK(q)'
    BY DEF PrepInv
  <2>1. PrepOK(q)
    BY DEF Inv, PrepInv
  <2> QED
    BY <1>0, <1>2, <2>1 DEF PrepOK, Inv, TypeOK, Building, Built, Hashed
<1>5. AloneInv' /\ RepairInv'
  BY <1>0, <1>2 DEF Inv, TypeOK, AloneInv, AloneOK, RepairInv, Idle
<1>6. JobInv'
  BY JobsUnchanged DEF Inv
<1> QED
  BY <1>1, <1>3, <1>4, <1>5, <1>6 DEF Inv

\* What is put in place is what was found; one that is alone and does not
\* rewrite the lock is done, and has compared it.
LEMMA ReplaceStep ==
  ASSUME Inv, NEW p \in Preparers, Replace(p)
  PROVE  Inv'
<1> USE DEF Replace, Goes, past, own
<1>0. UNCHANGED <<Target, Found, Newest>> /\ ~repaired /\ alone \subseteq {p}
  BY SameTarget, OneAlone DEF Idle
<1>1. /\ staged[p] = Found /\ Within(Target, built)
      /\ at[p] = "replace" /\ UNCHANGED <<lock, draft, fd, refresh>>
  BY DEF Inv, PrepInv, PrepOK, Built, Building
<1>2. \/ refresh[p] /\ at' = [at EXCEPT ![p] = "lock"] /\ UNCHANGED <<alone, repaired>>
      \/ /\ ~refresh[p] /\ at' = [at EXCEPT ![p] = "done"]
         /\ alone' = {} /\ repaired' = (p \in alone)
  BY <1>0 DEF EndsWell
<1>3. TypeOK'
  <2>1. alone' \subseteq Preparers
    BY <1>2 DEF Inv, TypeOK
  <2>2. repaired' \in BOOLEAN
    <3>1. CASE repaired' = repaired
      BY <3>1 DEF Inv, TypeOK
    <3>2. CASE repaired' = (p \in alone)
      BY <3>2
    <3> QED
      BY <1>2, <3>1, <3>2
  <2>3. at' \in [Preparers -> Idle \union {"packages", "build", "hash", "compare", "copy", "remove",
                                           "replace", "lock", "dump", "publish"}]
    BY <1>2 DEF Inv, TypeOK, Idle
  <2> QED
    BY <2>1, <2>2, <2>3 DEF Inv, TypeOK, jobVars
<1>4. BuiltInv' /\ LockInv'
  BY DEF Inv, BuiltInv, LockInv, LockHoldsItsClosure, Locked
<1>5. PrepInv'
  <2> SUFFICES ASSUME NEW q \in Preparers
               PROVE  PrepOK(q)'
    BY DEF PrepInv
  <2>1. PrepOK(q)
    BY DEF Inv, PrepInv
  <2>2. at'[q] = at[q] \/ (q = p /\ at'[q] \in {"lock", "done"})
    BY <1>2 DEF Inv, TypeOK
  <2> QED
    BY <1>0, <1>1, <2>1, <2>2 DEF PrepOK, Building, Built, Hashed
<1>6. AloneInv' /\ RepairInv'
  <2>1. bundle' = Found
    BY <1>1
  <2>2. CASE refresh[p]
    BY <1>0, <1>1, <1>2, <2>1, <2>2 DEF Inv, TypeOK, AloneInv, AloneOK, RepairInv, Idle
  <2>3. CASE ~refresh[p]
    <3>1. AloneInv'
      BY <1>2, <2>3 DEF AloneInv
    <3>2. ASSUME p \in alone PROVE lock = Newest /\ \A q \in Preparers : at'[q] \in Idle
      BY <1>1, <1>2, <2>3, <3>2 DEF Inv, TypeOK, AloneInv, AloneOK, Idle
    <3>3. Within(Target, built)'
      BY <1>0, <1>1
    <3> QED
      BY <1>0, <1>1, <1>2, <2>1, <2>3, <3>1, <3>2, <3>3 DEF RepairInv
  <2> QED
    BY <2>2, <2>3
<1>7. JobInv'
  BY JobsUnchanged DEF Inv
<1> QED
  BY <1>3, <1>4, <1>5, <1>6, <1>7 DEF Inv

LEMMA TruncateStep ==
  ASSUME Inv, NEW p \in Preparers, Truncate(p)
  PROVE  Inv'
<1> USE DEF Truncate, Goes, past, own
<1>0. UNCHANGED <<Target, Found, Newest>> /\ ~repaired /\ alone \subseteq {p}
  BY SameTarget, OneAlone DEF Idle
<1>1. TypeOK'
  BY DEF Inv, TypeOK, jobVars
<1>2. BuiltInv' /\ LockInv'
  BY DEF Inv, BuiltInv, LockInv, LockHoldsItsClosure, Locked
<1>3. PrepInv'
  <2> SUFFICES ASSUME NEW q \in Preparers
               PROVE  PrepOK(q)'
    BY DEF PrepInv
  <2>1. PrepOK(q)
    BY DEF Inv, PrepInv
  <2> QED
    BY <1>0, <2>1 DEF PrepOK, Inv, TypeOK, Building, Built, Hashed
<1>4. AloneInv' /\ RepairInv'
  BY <1>0 DEF Inv, TypeOK, AloneInv, AloneOK, RepairInv, Idle
<1>5. JobInv'
  BY JobsUnchanged DEF Inv
<1> QED
  BY <1>1, <1>2, <1>3, <1>4, <1>5 DEF Inv

\* Wherever the descriptor leads by now, the lock written is every other
\* running preparation's, too.
LEMMA DumpStep ==
  ASSUME Inv, NEW p \in Preparers, Dump(p)
  PROVE  Inv'
<1> USE DEF Dump, Goes, past, own
<1>0. UNCHANGED <<Target, Found, Newest>> /\ ~repaired /\ alone \subseteq {p}
  BY SameTarget, OneAlone DEF Idle
<1>1. NewLock(p) = Newest /\ Newest \in Lock /\ HoldsItsClosure(Newest)
  <2>1. NewLock(p) = Newest /\ Within(Target, built)
    BY NewLockIsNewest DEF Hashed, Built, Building
  <2> QED
    BY <2>1, NewestIsLock DEF Inv
<1>2. draft' \in {draft, Newest} /\ lock' \in {lock, Newest} /\ (fd[p] = "draft" => draft' = Newest)
  BY <1>1
<1>3. TypeOK'
  BY <1>1, <1>2 DEF Inv, TypeOK, jobVars
<1>4. BuiltInv' /\ LockInv'
  BY <1>1, <1>2 DEF Inv, BuiltInv, LockInv, LockHoldsItsClosure, Locked, HoldsItsClosure
<1>5. PrepInv'
  <2> SUFFICES ASSUME NEW q \in Preparers
               PROVE  PrepOK(q)'
    BY DEF PrepInv
  <2>1. PrepOK(q)
    BY DEF Inv, PrepInv
  <2>2. PrepOK(p)
    BY DEF Inv, PrepInv
  <2> QED
    BY <1>0, <1>2, <2>1, <2>2 DEF PrepOK, Inv, TypeOK, Building, Built, Hashed
<1>6. AloneInv' /\ RepairInv'
  BY <1>0, <1>2 DEF Inv, TypeOK, AloneInv, AloneOK, RepairInv, Idle
<1>7. JobInv'
  BY JobsUnchanged DEF Inv
<1> QED
  BY <1>3, <1>4, <1>5, <1>6, <1>7 DEF Inv

\* The temporary is the lock of all that run or was cut short by another; of
\* one that is alone it is whole.
LEMMA PublishStep ==
  ASSUME Inv, NEW p \in Preparers, Publish(p)
  PROVE  Inv'
<1> USE DEF Publish, Goes, past, own, EndsWell
<1>0. UNCHANGED <<Target, Found, Newest>> /\ ~repaired /\ alone' = {}
  BY SameTarget, OneAlone DEF Idle
<1>1. Newest \in Lock /\ HoldsItsClosure(Newest) /\ Within(Target, built)
  <2>1. Within(Target, built)
    BY NewLockIsNewest DEF Hashed, Built, Building
  <2> QED
    BY <2>1, NewestIsLock DEF Inv
<1>2. lock' \in {BadLock, Newest} /\ draft' = NoLock
  BY DEF Inv, PrepInv, PrepOK
<1>3. TypeOK'
  <2>1. fd' \in [Preparers -> {"none", "draft", "lock", "gone"}]
    BY DEF Inv, TypeOK
  <2>2. lock' \in Lock \union {NoLock, BadLock} /\ alone' \subseteq Preparers /\ repaired' \in BOOLEAN
    BY <1>0, <1>1, <1>2
  <2>3. at' \in [Preparers -> Idle \union {"packages", "build", "hash", "compare", "copy", "remove",
                                           "replace", "lock", "dump", "publish"}]
    BY DEF Inv, TypeOK, Idle
  <2> QED
    BY <1>2, <2>1, <2>2, <2>3 DEF Inv, TypeOK, jobVars
<1>4. BuiltInv' /\ LockInv'
  BY <1>1, <1>2, DependencyAssumption
     DEF Inv, BuiltInv, LockInv, LockHoldsItsClosure, Locked, HoldsItsClosure
<1>5. PrepInv'
  <2> SUFFICES ASSUME NEW q \in Preparers
               PROVE  PrepOK(q)'
    BY DEF PrepInv
  <2>1. PrepOK(q)
    BY DEF Inv, PrepInv
  <2> QED
    BY <1>0, <1>2, <2>1 DEF PrepOK, Inv, TypeOK, Building, Built, Hashed
<1>6. AloneInv' /\ RepairInv'
  <2>1. ASSUME p \in alone
        PROVE  lock' = Newest /\ bundle' = Found /\ \A q \in Preparers : at'[q] \in Idle
    BY <2>1 DEF Inv, TypeOK, AloneInv, AloneOK, Idle
  <2>2. Within(Target, built)'
    BY <1>0, <1>1
  <2> QED
    BY <1>0, <2>1, <2>2 DEF AloneInv, RepairInv
<1>7. JobInv'
  BY JobsUnchanged DEF Inv
<1> QED
  BY <1>3, <1>4, <1>5, <1>6, <1>7 DEF Inv

-----------------------------------------------------------------------------
(* Each step of a job.  It changes nothing a preparation looks at.         *)

LEMMA ReadLockStep ==
  ASSUME Inv, NEW j \in Jobs, ReadLock(j)
  PROVE  Inv'
<1> USE DEF ReadLock, JobGoes
<1>1. lock \in Lock /\ HoldsItsClosure(lock)
  BY DEF Inv, LockInv, LockHoldsItsClosure, Locked, HoldsItsClosure
<1>2. TypeOK'
  BY <1>1 DEF Inv, TypeOK, tree, prepVars, own, past
<1>3. BuiltInv' /\ LockInv' /\ PrepInv' /\ AloneInv' /\ RepairInv'
  BY PrepsUnchanged DEF Inv
<1>4. JobInv'
  <2> SUFFICES ASSUME NEW k \in Jobs
               PROVE  JobOK(k)'
    BY DEF JobInv
  <2>1. JobOK(k)
    BY DEF Inv, JobInv
  <2> QED
    BY <1>1, <2>1 DEF JobOK, Inv, TypeOK, HoldsItsClosure
<1> QED
  BY <1>2, <1>3, <1>4 DEF Inv

LEMMA JobMovesStep ==
  ASSUME Inv, NEW j \in Jobs, ListBundle(j) \/ JobRefused(j)
  PROVE  Inv'
<1> USE DEF ListBundle, JobRefused, JobGoes
<1>1. TypeOK'
  BY DEF Inv, TypeOK, tree, prepVars, own, past
<1>2. BuiltInv' /\ LockInv' /\ PrepInv' /\ AloneInv' /\ RepairInv'
  BY PrepsUnchanged DEF Inv
<1>3. JobInv'
  <2> SUFFICES ASSUME NEW k \in Jobs
               PROVE  JobOK(k)'
    BY DEF JobInv
  <2>1. JobOK(k)
    BY DEF Inv, JobInv
  <2>2. Within(Empty, jobLock[k].artifacts)
    BY DEF Within, Empty
  <2> QED
    BY <2>1, <2>2 DEF JobOK, Inv, TypeOK, HoldsItsClosure
<1> QED
  BY <1>1, <1>2, <1>3 DEF Inv

\* Only bytes equal to the lock's are kept, whatever the bundle holds by now.
LEMMA StageFileStep ==
  ASSUME Inv, NEW j \in Jobs, StageFile(j)
  PROVE  Inv'
<1> DEFINE wanted == jobLock[j].artifacts
<1>1. /\ jobAt[j] = "copy" /\ JobOK(j)
      /\ UNCHANGED <<tree, prepVars, jobLock>> /\ StageDone(j)
  BY DEF StageFile, Inv, JobInv
<1>2. wanted \in Files /\ workspace[j] \in Files /\ Within(workspace[j], wanted)
  BY <1>1 DEF JobOK, Lock, Inv, TypeOK
<1>3. PICK a \in DOMAIN wanted :
        workspace' = [workspace EXCEPT ![j] = With(workspace[j], a, wanted[a])]
  BY DEF StageFile, NextFile
<1> DEFINE s == With(workspace[j], a, wanted[a])
<1>4. s \in Files /\ Within(s, wanted) /\ workspace'[j] = s
  BY <1>2, <1>3, CopiedArtifact DEF Inv, TypeOK
<1>5. workspace' = [workspace EXCEPT ![j] = s]
  BY <1>3
<1> HIDE DEF s
<1>6. jobAt' = [jobAt EXCEPT ![j] = IF DOMAIN wanted \subseteq DOMAIN s THEN "staged" ELSE "copy"]
  BY <1>1, <1>4 DEF StageDone, NextFile, JobGoes
<1>7. TypeOK'
  BY <1>1, <1>4, <1>5, <1>6 DEF Inv, TypeOK, tree, prepVars, own, past
<1>8. BuiltInv' /\ LockInv' /\ PrepInv' /\ AloneInv' /\ RepairInv'
  BY <1>1, PrepsUnchanged DEF Inv
<1>9. JobInv'
  <2> SUFFICES ASSUME NEW k \in Jobs
               PROVE  JobOK(k)'
    BY DEF JobInv
  <2>1. JobOK(k)
    BY DEF Inv, JobInv
  <2>2. CASE k # j
    BY <2>1, <2>2, <1>1, <1>5, <1>6 DEF JobOK, Inv, TypeOK, HoldsItsClosure
  <2>3. CASE k = j
    <3>1. jobAt'[j] = IF DOMAIN wanted \subseteq DOMAIN s THEN "staged" ELSE "copy"
      BY <1>6 DEF Inv, TypeOK
    <3> QED
      BY <2>1, <2>3, <3>1, <1>1, <1>4 DEF JobOK, HoldsItsClosure, Within
  <2> QED
    BY <2>2, <2>3
<1> QED
  BY <1>7, <1>8, <1>9 DEF Inv

-----------------------------------------------------------------------------
LEMMA StutterStep ==
  ASSUME Inv, UNCHANGED vars
  PROVE  Inv'
BY PrepsUnchanged, JobsUnchanged DEF Inv, TypeOK, vars, tree, prepVars, own, past, jobVars

LEMMA NextStep == Inv /\ [Next]_vars => Inv'
<1> SUFFICES ASSUME Inv, [Next]_vars
             PROVE  Inv'
  OBVIOUS
<1>1. ASSUME NEW r \in Revisions, EditPins(r)
      PROVE  Inv'
  <2>1. /\ checkout' \in Revisions \union {Nothing} /\ built' \in {built, Empty}
        /\ pins' \in Revisions /\ imports' \in Imports
    BY <1>1 DEF EditPins, Inv, TypeOK
  <2> QED
    BY <1>1, <2>1, EditStep DEF EditPins
<1>2. ASSUME NEW i \in Imports, EditImports(i)
      PROVE  Inv'
  <2>1. /\ checkout' \in Revisions \union {Nothing} /\ built' \in {built, Empty}
        /\ pins' \in Revisions /\ imports' \in Imports
    BY <1>2 DEF EditImports, Inv, TypeOK
  <2> QED
    BY <1>2, <2>1, EditStep DEF EditImports
<1>3. ASSUME NEW p \in Preparers, Prepare(p)
      PROVE  Inv'
  BY <1>3, StartStep, PackagesStep, BuildStep, HashStep, CompareStep, CopyFileStep, RemoveStep,
     ReplaceStep, TruncateStep, DumpStep, PublishStep, FailsStep DEF Prepare
<1>4. ASSUME NEW j \in Jobs, Stage(j)
      PROVE  Inv'
  BY <1>4, ReadLockStep, JobMovesStep, StageFileStep DEF Stage
<1> QED
  BY <1>1, <1>2, <1>3, <1>4, StutterStep DEF Next

\* Preparations and jobs keep to their types; the lock holds its closure; what
\* each running preparation has found, copied, compared and written is the same
\* for all of them; nothing disturbs one that is alone.
THEOREM DependencyInvariant == Spec => []Inv
BY InitInv, NextStep, PTL DEF Spec

\* However bundle, lock and other preparations change while it copies, a job
\* that is staged has what the lock it read lists, one whole closure in it.
THEOREM JobsGetOneClosure == Spec => []StagedIsOneClosure
<1>1. Inv => StagedIsOneClosure
  <2> SUFFICES ASSUME Inv, NEW j \in Jobs, jobAt[j] = "staged"
               PROVE  /\ workspace[j] = jobLock[j].artifacts
                      /\ Holds(workspace[j], jobLock[j].packages, jobLock[j].roots)
    BY DEF StagedIsOneClosure
  <2>1. JobOK(j)
    BY DEF Inv, JobInv
  <2>2. jobLock[j].artifacts \in Files /\ workspace[j] \in Files
    BY <2>1 DEF JobOK, Lock, Inv, TypeOK
  <2>3. workspace[j] = jobLock[j].artifacts
    BY <2>1, <2>2, SameFiles DEF JobOK
  <2> QED
    BY <2>1, <2>3 DEF JobOK, HoldsItsClosure
<1> QED
  BY <1>1, DependencyInvariant, PTL

\* No interleaving of refreshes, failures, truncated temporaries and edits
\* publishes a lock that pins one revision and lists the artifacts of another,
\* but for old companions of modules both have.
THEOREM LocksHoldTheirClosure == Spec => []LockHoldsItsClosure
<1>1. Inv => LockHoldsItsClosure
  BY DEF Inv, LockInv
<1> QED
  BY <1>1, DependencyInvariant, PTL

\* Only a preparation whose recomputed closure is the lock's, or a refresh,
\* touches a bundle that jobs can use.
THEOREM UsableBundlesAreKept == Spec => UsableBundleSurvives
<1> DEFINE A == Usable /\ bundle' # bundle =>
                  \E p \in Preparers : at[p] = "remove" /\ (refresh[p] \/ records[p] = lock.artifacts)
<1>1. Inv /\ [Next]_vars => [A]_vars
  <2> SUFFICES ASSUME Inv, Next, Usable, bundle' # bundle
               PROVE  \E p \in Preparers : at[p] = "remove" /\ (refresh[p] \/ records[p] = lock.artifacts)
    OBVIOUS
  <2>1. bundle \notin {Nothing, Empty} /\ lock # BadLock
    BY DependencyAssumption DEF Usable, Locked, Lock
  <2>2. PICK p \in Preparers : Remove(p)
    BY <2>1 DEF Next, EditPins, EditImports, Edit, Prepare, Start, Packages, Build, Hash, Compare,
                CopyFile, Replace, Truncate, Dump, Publish, Fails, Stage, ReadLock, ListBundle,
                StageFile, JobRefused, tree
  <2>3. at[p] = "remove" /\ PrepOK(p)
    BY <2>2 DEF Remove, Inv, PrepInv
  <2>4. refresh[p] \/ records[p] = lock.artifacts
    BY <2>1, <2>3 DEF PrepOK, Building, Built, Hashed, Newest
  <2> QED
    BY <2>3, <2>4
<1> QED
  BY <1>1, DependencyInvariant, PTL DEF Spec, UsableBundleSurvives

\* A preparation that ran alone and ended well leaves a lock and a bundle that
\* fit the pins and each other, whatever it began with.
THEOREM LonePreparationsRepair == Spec => []RepairedIsUsable
<1>1. Inv => RepairedIsUsable
  <2> SUFFICES ASSUME Inv, repaired
               PROVE  Usable /\ lock.source = pins
    BY DEF RepairedIsUsable
  <2>1. bundle = Found /\ lock = Newest /\ Within(Target, built)
    BY DEF Inv, RepairInv
  <2>2. Newest \in Lock
    BY <2>1, NewestIsLock DEF Inv
  <2> QED
    BY <2>1, <2>2 DEF Usable, Locked, Newest
<1> QED
  BY <1>1, DependencyInvariant, PTL

=============================================================================
