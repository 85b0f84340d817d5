-------------------------- MODULE SamplePlanProofs --------------------------
(***************************************************************************)
(* Proofs about SamplePlan, for every set of policies, any ranges, counts, *)
(* limits and PERF_COUNT, and any number of packed seeds.  The argument: a *)
(* range slot lies between what the slots before it used up and what the   *)
(* slots after it need (Slotted), so the interval it is projected into is  *)
(* never empty; every value drawn is in its group's space and new in its   *)
(* group, so only two groups' spaces can make a value occur twice.         *)
(* The plan has the scorer's shape because each closed group adds rows of  *)
(* that shape, in order, under a name of its own (Form), and the phase     *)
(* before the scorer's check is reached only when all groups are closed.   *)
(***************************************************************************)
EXTENDS SamplePlan, SequenceTheorems, TLAPS

\* Strictly increasing values of lo .. hi with room for w of them.
Slotted(s, lo, hi, w) ==
  /\ Increasing(s)
  /\ \A k \in DOMAIN s : lo + k - 1 <= s[k] /\ s[k] <= hi - (w - k)

DrawInv ==
  phase = "draw" =>
    /\ GroupIndex \in DOMAIN policy.groups
    /\ SamplerValid(Here, Wanted(Here), Strict)
    /\ Here.kind \in RangeKinds => Slotted(drawn, Here.lo, Here.hi, Wanted(Here))
    /\ Distinct(drawn) /\ Image(drawn) \subseteq Space(Here)

\* Where the values of the plan come from.
SpacesInv ==
  \A i \in DOMAIN plan :
    \E h \in DOMAIN policy.groups : h < GroupIndex /\ plan[i].n \in Space(policy.groups[h])

ScheduleInv ==
  /\ phase = "start" => schedule = <<>>
  /\ phase = "group" => GroupIndex \in DOMAIN policy.groups
  /\ phase \in {"start", "group", "draw"} => reason = "none"
  /\ reason # "slots"

Inv == TypeOK /\ DrawInv /\ SpacesInv /\ ScheduleInv /\ OnlyOverlapsCollide /\ PlanIsSchedule

-----------------------------------------------------------------------------
(* Sequences of samples *)

LEMMA ImageOfAppend ==
  ASSUME NEW s \in Seq(Int), NEW n \in Int
  PROVE  /\ Image(Append(s, n)) = Image(s) \union {n}
         /\ Distinct(s) /\ n \notin Image(s) => Distinct(Append(s, n))
<1>1. /\ DOMAIN Append(s, n) = 1 .. Len(s) + 1 /\ DOMAIN s = 1 .. Len(s)
      /\ \A i \in 1 .. Len(s) : Append(s, n)[i] = s[i]
      /\ Append(s, n)[Len(s) + 1] = n
  OBVIOUS
<1> QED
  BY <1>1 DEF Image, Distinct

LEMMA IncreasingIsDistinct ==
  ASSUME NEW s \in Seq(Int), Increasing(s)
  PROVE  Distinct(s)
BY DEF Increasing, Distinct

\* The next slot keeps the room of the slots after it.
LEMMA SlotsGrow ==
  ASSUME NEW m \in Nat, NEW s \in [1 .. m -> Int], NEW t \in [1 .. m + 1 -> Int],
         NEW lo \in Int, NEW hi \in Int, NEW w \in Int,
         \A i \in 1 .. m : t[i] = s[i],
         Slotted(s, lo, hi, w),
         lo + m <= t[m + 1], t[m + 1] <= hi - (w - 1 - m),
         m = 0 \/ s[m] < t[m + 1]
  PROVE  Slotted(t, lo, hi, w)
<1>1. \A i \in 1 .. m : t[i] < t[m + 1]
  BY DEF Slotted, Increasing
<1>2. \A i \in 1 .. m + 1 : i \in 1 .. m \/ i = m + 1
  OBVIOUS
<1>3. \A i, j \in 1 .. m : i < j => t[i] < t[j]
  BY DEF Slotted, Increasing
<1>4. Increasing(t)
  <2> SUFFICES ASSUME NEW i \in 1 .. m + 1, NEW j \in 1 .. m + 1, i < j
               PROVE  t[i] < t[j]
    BY DEF Increasing
  <2>1. i \in 1 .. m
    OBVIOUS
  <2>2. CASE j \in 1 .. m
    BY <1>3, <2>1, <2>2
  <2>3. CASE j = m + 1
    BY <1>1, <2>1, <2>3
  <2> QED
    BY <1>2, <2>2, <2>3
<1>5. \A k \in 1 .. m : lo + k - 1 <= t[k] /\ t[k] <= hi - (w - k)
  BY DEF Slotted
<1>6. lo + (m + 1) - 1 <= t[m + 1] /\ t[m + 1] <= hi - (w - (m + 1))
  OBVIOUS
<1> QED
  BY <1>2, <1>4, <1>5, <1>6 DEF Slotted

LEMMA SlotFits ==
  ASSUME NEW s \in Seq(Int), NEW lo \in Int, NEW hi \in Int, NEW w \in Int, NEW n \in Int,
         Slotted(s, lo, hi, w),
         lo + Len(s) <= n, n <= hi - (w - 1 - Len(s)),
         Len(s) = 0 \/ s[Len(s)] < n
  PROVE  Slotted(Append(s, n), lo, hi, w)
<1> DEFINE m == Len(s)
           t == Append(s, n)
<1>1. m \in Nat /\ s \in [1 .. m -> Int]
  OBVIOUS
<1>2. t[m + 1] = n /\ \A i \in 1 .. m : t[i] = s[i]
  OBVIOUS
<1>3. t \in [1 .. m + 1 -> Int]
  <2>1. t \in Seq(Int) /\ Len(t) = m + 1
    OBVIOUS
  <2> QED
    BY <2>1, LenProperties
<1> HIDE DEF m, t
<1>4. Slotted(t, lo, hi, w)
  BY <1>1, <1>2, <1>3, SlotsGrow DEF m
<1> QED
  BY <1>4 DEF t

\* A projected target is in the interval, when there is one.
LEMMA ProjectIsBetween ==
  ASSUME NEW t \in Int, NEW lower \in Int, NEW upper \in Int, lower <= upper
  PROVE  Project(t, lower, upper) \in lower .. upper
BY DEF Project

\* Capping leaves a prefix.
LEMMA CappedIsPrefix ==
  ASSUME NEW s \in Seq(Int), PerfCountAssumption, env \in Environment
  PROVE  /\ Capped(s) \in Seq(Int) /\ DOMAIN Capped(s) \subseteq DOMAIN s
         /\ \A i \in DOMAIN Capped(s) : Capped(s)[i] = s[i]
<1>1. CASE HasCap /\ env.perfCount < Len(s)
  <2> DEFINE m == env.perfCount
  <2>1. m \in Int /\ m > 0 /\ m < Len(s)
    BY <1>1 DEF HasCap, NumberGiven, PerfCountAssumption, Environment
  <2>2. Capped(s) = SubSeq(s, 1, m)
    BY <1>1 DEF Capped
  <2> HIDE DEF m
  <2> QED
    BY <2>1, <2>2
<1>2. CASE ~(HasCap /\ env.perfCount < Len(s))
  BY <1>2 DEF Capped
<1> QED
  BY <1>1, <1>2

-----------------------------------------------------------------------------
(* The group at hand *)

LEMMA HereIsGroup ==
  ASSUME TypeOK, GroupIndex \in DOMAIN policy.groups
  PROVE  /\ Here \in Group /\ Wanted(Here) \in Int
         /\ Here.lo \in Int /\ Here.hi \in Int /\ Here.scale \in Int /\ Here.values \in Seq(Int)
         /\ Here.id \in STRING /\ Here.timeout \in Int
<1>1. policy \in Policy
  BY PoliciesAssumption DEF TypeOK
<1>2. policy.groups \in Seq(Group)
  BY <1>1 DEF Policy
<1>3. Here \in Group
  BY <1>2 DEF Here
<1>4. NumberGiven => env.perfCount \in Int
  BY PerfCountAssumption DEF TypeOK, NumberGiven, Environment
<1>5. /\ Here.lo \in Int /\ Here.hi \in Int /\ Here.scale \in Int /\ Here.values \in Seq(Int)
      /\ Here.id \in STRING /\ Here.timeout \in Int /\ Here.count \in Int
  BY <1>3 DEF Group
<1> HIDE DEF Here
<1>6. Wanted(Here) \in Int
  BY <1>4, <1>5 DEF Wanted
<1> QED
  BY <1>3, <1>5, <1>6

LEMMA SpaceIsInt ==
  ASSUME NEW g \in Group
  PROVE  Space(g) \subseteq Int
<1>1. g.lo \in Int /\ g.hi \in Int /\ g.scale \in Int /\ g.values \in Seq(Int)
  BY DEF Group
<1>2. Image(g.values) \subseteq Int
  BY <1>1 DEF Image
<1>3. g.scale * SeedSpace \in Int
  BY <1>1, SizesAssumption
<1> QED
  BY <1>1, <1>2, <1>3 DEF Space

-----------------------------------------------------------------------------
(* The invariant is inductive *)

\* What a step that leaves plan and schedule alone does not disturb.
LEMMA ScheduleUnchanged ==
  ASSUME PlanIsSchedule, UNCHANGED <<policy, env, schedule, plan>>
  PROVE  PlanIsSchedule'
BY DEF PlanIsSchedule, Capped, HasCap, NumberGiven

LEMMA InitInv == Init => Inv
<1> SUFFICES ASSUME Init
             PROVE  Inv
  OBVIOUS
<1>1. <<>> \in Seq(Int) /\ <<>> \in Seq(Seq(Int)) /\ <<>> \in Seq(Row)
  OBVIOUS
<1> QED
  BY <1>1 DEF Init, Inv, TypeOK, DrawInv, SpacesInv, ScheduleInv, OnlyOverlapsCollide, PlanIsSchedule

\* A step that changes neither what is drawn nor what is planned, to a phase
\* other than "draw"; a refusal, and a phase change.
LEMMA MovesInv ==
  ASSUME Inv, UNCHANGED <<policy, env, schedule, plan>>, drawn' \in Seq(Int),
         phase' \in {"group", "check", "accepted", "refused"},
         phase' = "group" => GroupIndex \in DOMAIN policy.groups,
         reason' \in {"none", "start", "group", "limits", "policy", "plan"},
         (reason' = "none") = (phase' # "refused")
  PROVE  Inv'
<1>1. TypeOK'
  BY DEF Inv, TypeOK
<1>2. DrawInv' /\ ScheduleInv'
  BY DEF Inv, DrawInv, ScheduleInv, GroupIndex
<1>3. SpacesInv'
  BY DEF Inv, SpacesInv, GroupIndex, Space, Image
<1>4. OnlyOverlapsCollide'
  BY DEF OnlyOverlapsCollide
<1> QED
  BY <1>1, <1>2, <1>3, <1>4, ScheduleUnchanged DEF Inv

LEMMA StartStep == Inv /\ Start => Inv'
<1> SUFFICES ASSUME Inv, Start
             PROVE  Inv'
  OBVIOUS
<1> USE DEF Start, Refuse, Goto
<1>1. CASE StartRefused
  BY <1>1, MovesInv DEF Inv, TypeOK
<1>2. CASE ~StartRefused
  <2>1. policy.groups \in Seq(Group) /\ policy.groups # <<>>
    BY <1>2, PoliciesAssumption DEF Inv, TypeOK, Policy, StartRefused
  <2>2. GroupIndex \in DOMAIN policy.groups
    BY <2>1 DEF Inv, ScheduleInv, GroupIndex
  <2>3. drawn' \in Seq(Int) /\ reason' = "none" /\ phase' = "group"
    BY <1>2 DEF Inv, TypeOK, ScheduleInv
  <2> QED
    BY <1>2, <2>2, <2>3, MovesInv
<1> QED
  BY <1>1, <1>2

LEMMA EnterStep == Inv /\ EnterGroup => Inv'
<1> SUFFICES ASSUME Inv, EnterGroup
             PROVE  Inv'
  OBVIOUS
<1> USE DEF EnterGroup, Refuse, Goto
<1>1. CASE GroupRefused
  BY <1>1, MovesInv DEF Inv, TypeOK
<1>2. CASE ~GroupRefused
  <2>1. /\ phase' = "draw" /\ drawn' = <<>> /\ UNCHANGED <<policy, env, schedule, plan, reason>>
        /\ GroupIndex \in DOMAIN policy.groups /\ reason = "none"
    BY <1>2 DEF Inv, ScheduleInv
  <2>2. SamplerValid(Here, Wanted(Here), Strict)
    BY <1>2 DEF GroupRefused
  <2>3. GroupIndex' = GroupIndex /\ Here' = Here /\ Wanted(Here)' = Wanted(Here)
        /\ Strict' = Strict /\ Space(Here)' = Space(Here)
    BY <2>1 DEF GroupIndex, Here, Wanted, Strict, NumberGiven, Space, Image
  <2>4. DrawInv'
    <3>1. Increasing(<<>>) /\ Distinct(<<>>) /\ Image(<<>>) = {}
      BY DEF Increasing, Distinct, Image
    <3>2. Slotted(<<>>, Here.lo, Here.hi, Wanted(Here))
      BY <3>1 DEF Slotted
    <3>3. SamplerValid(Here, Wanted(Here), Strict)'
      BY <2>1, <2>2, <2>3 DEF SamplerValid, Intervals, JitterValid, Image, Distinct
    <3> QED
      BY <2>1, <2>3, <3>1, <3>2, <3>3 DEF DrawInv, Slotted, Increasing, Distinct, Image
  <2>5. SpacesInv'
    BY <2>1, <2>3 DEF Inv, SpacesInv, Space, Image
  <2> QED
    BY <2>1, <2>4, <2>5, ScheduleUnchanged DEF Inv, TypeOK, ScheduleInv, OnlyOverlapsCollide
<1> QED
  BY <1>1, <1>2

\* What the samplers may append.
LEMMA RangeDraw ==
  ASSUME Inv, phase = "draw", Len(drawn) < Wanted(Here), DrawRange
  PROVE  \E n \in Space(Here) \ Image(drawn) :
           /\ n \in Int /\ drawn' = Append(drawn, n)
           /\ Slotted(Append(drawn, n), Here.lo, Here.hi, Wanted(Here))
<1> DEFINE c == Len(drawn)
           w == Wanted(Here)
           lo == Here.lo
           hi == Here.hi
<1>1. /\ c \in Nat /\ drawn \in Seq(Int) /\ \A i \in 1 .. c : drawn[i] \in Int
      /\ DOMAIN drawn = 1 .. c
  BY LenProperties DEF Inv, TypeOK
<1>2. w \in Int /\ lo \in Int /\ hi \in Int /\ Here.kind \in RangeKinds
  BY HereIsGroup DEF Inv, DrawInv, DrawRange
<1>3. 0 <= lo /\ w <= hi - lo + 1 /\ c < w
  BY <1>2 DEF Inv, DrawInv, SamplerValid, Intervals
<1>4. Slotted(drawn, lo, hi, w)
  BY <1>2 DEF Inv, DrawInv
<1>5. Upper(c) = hi - (w - 1 - c)
  BY DEF Upper
<1>6. Lower(c) = IF c = 0 \/ lo + c > drawn[c] + 1 THEN lo + c ELSE drawn[c] + 1
  BY DEF Lower
<1> HIDE DEF w, lo, hi, c
<1>7. c = 0 \/ drawn[c] <= hi - (w - c)
  <2> SUFFICES ASSUME c # 0
               PROVE  drawn[c] <= hi - (w - c)
    OBVIOUS
  <2>1. c \in 1 .. c
    BY <1>1
  <2> QED
    BY <1>1, <1>4, <2>1 DEF Slotted
<1>8. c = 0 \/ drawn[c] \in Int
  BY <1>1
<1>9. /\ Lower(c) \in Int /\ Upper(c) \in Int /\ Lower(c) <= Upper(c) /\ lo + c <= Lower(c)
      /\ c = 0 \/ drawn[c] < Lower(c)
  BY <1>1, <1>2, <1>3, <1>5, <1>6, <1>7, <1>8
<1>10. PICK t \in (lo - 1) .. (hi + 1) : drawn' = Append(drawn, Project(t, Lower(c), Upper(c)))
  BY DEF DrawRange, Targets, lo, hi, c
<1> DEFINE n == Project(t, Lower(c), Upper(c))
<1>11. n \in Lower(c) .. Upper(c)
  <2>1. t \in Int
    BY <1>2
  <2> QED
    BY <1>9, <2>1, ProjectIsBetween
<1> HIDE DEF n
<1>12. n \in Int /\ lo + c <= n /\ n <= hi - (w - 1 - c) /\ (c = 0 \/ drawn[c] < n)
  BY <1>1, <1>2, <1>5, <1>8, <1>9, <1>11
<1>13. Slotted(Append(drawn, n), lo, hi, w)
  BY <1>1, <1>2, <1>4, <1>12, SlotFits DEF c
<1>14. n \in Space(Here)
  <2>1. n \in lo .. hi
    BY <1>1, <1>2, <1>3, <1>12
  <2>2. Here.kind \notin {"fixed", "packed"}
    BY <1>2 DEF RangeKinds
  <2> QED
    BY <2>1, <2>2 DEF Space, lo, hi
<1>15. n \notin Image(drawn)
  <2> SUFFICES ASSUME NEW i \in 1 .. c
               PROVE  drawn[i] < n
    BY <1>1, <1>12 DEF Image
  <2>1. i = c \/ i < c
    BY <1>1
  <2>2. c \in 1 .. c /\ drawn[i] \in Int /\ drawn[c] \in Int /\ drawn[c] < n
    BY <1>1, <1>12
  <2>3. i < c => drawn[i] < drawn[c]
    BY <1>1, <1>4, <2>2 DEF Slotted, Increasing
  <2> QED
    BY <2>1, <2>2, <2>3, <1>12
<1> QED
  BY <1>10, <1>12, <1>13, <1>14, <1>15 DEF n, w, lo, hi

LEMMA OtherDraws ==
  ASSUME Inv, phase = "draw", DrawUniform \/ DrawPacked
  PROVE  /\ Here.kind \notin RangeKinds
         /\ \E n \in Space(Here) \ Image(drawn) : n \in Int /\ drawn' = Append(drawn, n)
<1>1. /\ Here \in Group /\ Here.lo \in Int /\ Here.hi \in Int /\ Here.scale \in Int
      /\ Space(Here) \subseteq Int
  BY HereIsGroup, SpaceIsInt DEF Inv, DrawInv
<1>2. CASE DrawUniform
  BY <1>1, <1>2 DEF DrawUniform, Space, RangeKinds
<1>3. CASE DrawPacked
  <2> DEFINE b == Here.scale * SeedSpace
  <2>1. b \in Int /\ SeedSpace \in Nat
    BY <1>1, SizesAssumption
  <2>2. Here.kind = "packed" /\ Space(Here) = b .. (b + SeedSpace - 1)
    BY <1>3 DEF DrawPacked, Space
  <2>3. PICK seed \in 0 .. SeedSpace - 1 : b + seed \notin Image(drawn) /\ drawn' = Append(drawn, b + seed)
    BY <1>3 DEF DrawPacked
  <2> HIDE DEF b
  <2>4. b + seed \in b .. (b + SeedSpace - 1) /\ b + seed \in Int
    BY <2>1, <2>3
  <2> QED
    BY <2>2, <2>3, <2>4 DEF RangeKinds
<1> QED
  BY <1>2, <1>3

LEMMA DrawStep == Inv /\ Draw => Inv'
<1> SUFFICES ASSUME Inv, Draw
             PROVE  Inv'
  OBVIOUS
<1>1. /\ phase = "draw" /\ Len(drawn) < Wanted(Here)
      /\ UNCHANGED <<policy, env, phase, schedule, plan, reason>>
      /\ drawn \in Seq(Int) /\ GroupIndex \in DOMAIN policy.groups
  BY DEF Draw, Inv, TypeOK, DrawInv
<1>2. /\ GroupIndex' = GroupIndex /\ Here' = Here /\ Wanted(Here)' = Wanted(Here)
      /\ SamplerValid(Here, Wanted(Here), Strict)' = SamplerValid(Here, Wanted(Here), Strict)
      /\ Space(Here)' = Space(Here)
  <2>1. GroupIndex' = GroupIndex /\ Here' = Here /\ Strict' = Strict
    BY <1>1 DEF GroupIndex, Here, Strict
  <2>2. Wanted(Here)' = Wanted(Here)
    BY <1>1, <2>1 DEF Wanted, NumberGiven
  <2> QED
    BY <2>1, <2>2 DEF SamplerValid, Intervals, JitterValid, Space, Image, Distinct
<1>3. /\ drawn' \in Seq(Int) /\ Distinct(drawn') /\ Image(drawn') \subseteq Space(Here)
      /\ Here.kind \in RangeKinds => Slotted(drawn', Here.lo, Here.hi, Wanted(Here))
  <2>1. CASE TakeFixed
    <3>1. Here.values \in Seq(Int) /\ drawn' = Here.values /\ Here.kind = "fixed"
      BY <1>1, <2>1, HereIsGroup DEF Inv, TakeFixed
    <3>2. Distinct(Here.values) /\ Space(Here) = Image(Here.values)
      BY <1>1, <3>1 DEF Inv, DrawInv, SamplerValid, Space
    <3> QED
      BY <3>1, <3>2 DEF RangeKinds
  <2>2. CASE ~TakeFixed
    <3>1. PICK n \in Space(Here) \ Image(drawn) :
            /\ n \in Int /\ drawn' = Append(drawn, n)
            /\ Here.kind \in RangeKinds =>
                 Slotted(Append(drawn, n), Here.lo, Here.hi, Wanted(Here))
      BY <1>1, <2>2, RangeDraw, OtherDraws DEF Draw
    <3>2. Image(Append(drawn, n)) = Image(drawn) \union {n} /\ Distinct(Append(drawn, n))
      BY <1>1, <3>1, ImageOfAppend DEF Inv, DrawInv
    <3>3. Append(drawn, n) \in Seq(Int)
      BY <1>1, <3>1
    <3> QED
      BY <1>1, <3>1, <3>2, <3>3 DEF Inv, DrawInv
  <2> QED
    BY <2>1, <2>2
<1>4. DrawInv'
  BY <1>1, <1>2, <1>3 DEF Inv, DrawInv, Slotted, Increasing, Distinct, Image
<1>5. TypeOK' /\ ScheduleInv' /\ OnlyOverlapsCollide'
  BY <1>1, <1>2, <1>3 DEF Inv, TypeOK, ScheduleInv, OnlyOverlapsCollide
<1>6. SpacesInv'
  BY <1>1, <1>2 DEF Inv, SpacesInv, Space, Image
<1> QED
  BY <1>1, <1>4, <1>5, <1>6, ScheduleUnchanged DEF Inv

-----------------------------------------------------------------------------
(* The end of a group *)

\* A value refused as a repetition is in the spaces of two groups.
LEMMA RepeatOverlaps ==
  ASSUME Inv, phase = "draw", Repeats(Capped(drawn))
  PROVE  \E h, k \in DOMAIN policy.groups :
           h < k /\ Space(policy.groups[h]) \intersect Space(policy.groups[k]) # {}
<1>1. /\ drawn \in Seq(Int) /\ env \in Environment /\ Distinct(drawn)
      /\ Image(drawn) \subseteq Space(Here) /\ GroupIndex \in DOMAIN policy.groups
  BY DEF Inv, TypeOK, DrawInv
<1>2. Distinct(Capped(drawn)) /\ Image(Capped(drawn)) \subseteq Image(drawn)
  BY <1>1, CappedIsPrefix, PerfCountAssumption DEF Distinct, Image
<1>3. PICK n \in Image(Capped(drawn)) : n \in Planned
  BY <1>2 DEF Repeats
<1>4. PICK h \in DOMAIN policy.groups : h < GroupIndex /\ n \in Space(policy.groups[h])
  BY <1>3 DEF Planned, Inv, SpacesInv
<1>5. n \in Space(policy.groups[GroupIndex])
  BY <1>1, <1>2, <1>3 DEF Here
<1> QED
  BY <1>1, <1>4, <1>5

\* The plan grows by the capped values of this group.
LEMMA PlanGrows ==
  ASSUME Inv, phase = "draw", plan' = plan \o Rows(Capped(drawn))
  PROVE  LET v == Capped(drawn)
         IN  /\ plan' \in Seq(Row) /\ DOMAIN plan' = 1 .. Len(plan) + Len(v)
             /\ \A i \in DOMAIN plan : plan'[i] = plan[i] /\ i \in DOMAIN plan'
             /\ \A i \in DOMAIN plan' \ DOMAIN plan :
                  /\ i - Len(plan) \in DOMAIN v
                  /\ plan'[i].n = v[i - Len(plan)] /\ plan'[i].group = Here.id
                  /\ plan'[i].case = i - Len(plan) - 1 /\ plan'[i].slot = i - 1
                  /\ plan'[i].timeout = Here.timeout /\ plan'[i].scale = Here.scale
<1> DEFINE v == Capped(drawn)
           r == Rows(v)
<1>1. v \in Seq(Int) /\ Len(v) \in Nat /\ plan \in Seq(Row) /\ Len(plan) \in Nat
      /\ \A i \in 1 .. Len(v) : v[i] \in Int
  BY CappedIsPrefix, PerfCountAssumption, LenProperties DEF Inv, TypeOK
<1>2. Here.id \in STRING /\ Here.timeout \in Int /\ Here.scale \in Int
  BY HereIsGroup DEF Inv, DrawInv
<1>3. r = [i \in 1 .. Len(v) |->
             [slot |-> Len(plan) + i - 1, group |-> Here.id, case |-> i - 1, n |-> v[i],
              timeout |-> Here.timeout, scale |-> Here.scale]]
  BY DEF Rows
<1> HIDE DEF v, r
<1>4. \A i \in 1 .. Len(v) : r[i] \in Row
  BY <1>1, <1>2, <1>3 DEF Row
<1>5. r \in [1 .. Len(v) -> Row]
  BY <1>3, <1>4
<1>6. r \in Seq(Row) /\ Len(r) = Len(v)
  BY <1>1, <1>5
<1>7. plan' = plan \o r
  BY DEF r, v
<1>8. /\ plan' \in Seq(Row) /\ Len(plan') = Len(plan) + Len(v)
      /\ \A i \in 1 .. Len(plan) + Len(v) :
           plan'[i] = IF i <= Len(plan) THEN plan[i] ELSE r[i - Len(plan)]
  <2>1. /\ plan \o r \in Seq(Row) /\ Len(plan \o r) = Len(plan) + Len(r)
        /\ \A i \in 1 .. Len(plan) + Len(r) :
             (plan \o r)[i] = IF i <= Len(plan) THEN plan[i] ELSE r[i - Len(plan)]
    BY <1>1, <1>6, ConcatProperties
  <2> QED
    BY <1>6, <1>7, <2>1
<1>9. DOMAIN plan' = 1 .. Len(plan) + Len(v) /\ DOMAIN plan = 1 .. Len(plan)
      /\ DOMAIN v = 1 .. Len(v)
  BY <1>1, <1>8, LenProperties
<1>10. \A i \in DOMAIN plan : plan'[i] = plan[i] /\ i \in DOMAIN plan'
  BY <1>1, <1>8, <1>9
<1>11. ASSUME NEW i \in DOMAIN plan' \ DOMAIN plan
       PROVE  /\ i - Len(plan) \in DOMAIN v
              /\ plan'[i].n = v[i - Len(plan)] /\ plan'[i].group = Here.id
              /\ plan'[i].case = i - Len(plan) - 1 /\ plan'[i].slot = i - 1
              /\ plan'[i].timeout = Here.timeout /\ plan'[i].scale = Here.scale
  <2> DEFINE k == i - Len(plan)
  <2>1. k \in 1 .. Len(v) /\ plan'[i] = r[k]
    BY <1>1, <1>8, <1>9, <1>11
  <2>2. /\ r[k].n = v[k] /\ r[k].group = Here.id /\ r[k].case = k - 1
        /\ r[k].slot = Len(plan) + k - 1 /\ r[k].timeout = Here.timeout /\ r[k].scale = Here.scale
    BY <1>3, <2>1
  <2>3. Len(plan) + k - 1 = i - 1
    BY <1>1, <1>9, <1>11
  <2> QED
    BY <1>9, <2>1, <2>2, <2>3
<1> QED
  BY <1>8, <1>9, <1>10, <1>11 DEF v

LEMMA CloseAccepted ==
  ASSUME Inv, CloseGroup, ~CloseRefused
  PROVE  Inv'
<1> DEFINE v == Capped(drawn)
<1>1. /\ phase = "draw" /\ plan' = plan \o Rows(v) /\ schedule' = Append(schedule, drawn)
      /\ drawn' = <<>> /\ UNCHANGED <<policy, env, reason>> /\ reason = "none"
      /\ GroupIndex \in DOMAIN policy.groups
      /\ phase' = IF GroupIndex < Len(policy.groups) THEN "group"
                  ELSE IF policy.grouped THEN "check" ELSE "accepted"
  BY DEF CloseGroup, Goto, Inv, DrawInv, ScheduleInv
<1>2. /\ plan' \in Seq(Row) /\ DOMAIN plan' = 1 .. Len(plan) + Len(v)
      /\ \A i \in DOMAIN plan : plan'[i] = plan[i] /\ i \in DOMAIN plan'
      /\ \A i \in DOMAIN plan' \ DOMAIN plan :
           /\ i - Len(plan) \in DOMAIN v
           /\ plan'[i].n = v[i - Len(plan)] /\ plan'[i].group = Here.id
           /\ plan'[i].case = i - Len(plan) - 1
  BY <1>1, PlanGrows
<1>3. /\ v \in Seq(Int) /\ DOMAIN v \subseteq DOMAIN drawn /\ \A i \in DOMAIN v : v[i] = drawn[i]
      /\ drawn \in Seq(Int) /\ schedule \in Seq(Seq(Int)) /\ plan \in Seq(Row)
  BY CappedIsPrefix, PerfCountAssumption DEF Inv, TypeOK
<1>4. /\ Len(v) \in Nat /\ DOMAIN v = 1 .. Len(v)
      /\ Len(plan) \in Nat /\ DOMAIN plan = 1 .. Len(plan)
      /\ Len(schedule) \in Nat /\ DOMAIN schedule = 1 .. Len(schedule)
  BY <1>3, LenProperties
<1>5. /\ schedule' \in Seq(Seq(Int)) /\ Len(schedule') = Len(schedule) + 1
      /\ DOMAIN schedule' = 1 .. Len(schedule) + 1
      /\ \A h \in 1 .. Len(schedule) : schedule'[h] = schedule[h]
      /\ schedule'[Len(schedule) + 1] = drawn
  BY <1>1, <1>3, <1>4
<1>6. Capped(drawn) = v /\ \A x \in Seq(Int) : Capped(x)' = Capped(x)
  BY <1>1 DEF Capped, HasCap, NumberGiven
<1>7. Distinct(v) /\ Image(v) \intersect Planned = {}
  BY DEF CloseRefused, Repeats
<1> HIDE DEF v
<1>8. TypeOK'
  BY <1>1, <1>2, <1>5 DEF Inv, TypeOK
<1>9. DrawInv' /\ ScheduleInv' /\ OnlyOverlapsCollide'
  <2>1. policy.groups \in Seq(Group)
    BY PoliciesAssumption DEF Inv, TypeOK, Policy
  <2>2. GroupIndex' = GroupIndex + 1 /\ GroupIndex \in Nat
    BY <1>4, <1>5 DEF GroupIndex
  <2>3. phase' = "group" => GroupIndex' \in DOMAIN policy.groups
    <3>1. Len(policy.groups) \in Nat /\ DOMAIN policy.groups = 1 .. Len(policy.groups)
      BY <2>1, LenProperties
    <3> QED
      BY <1>1, <2>2, <3>1
  <2> QED
    BY <1>1, <2>3 DEF DrawInv, ScheduleInv, OnlyOverlapsCollide
<1>10. SpacesInv'
  <2> SUFFICES ASSUME NEW i \in DOMAIN plan'
               PROVE  \E h \in DOMAIN policy.groups :
                        h < GroupIndex + 1 /\ plan'[i].n \in Space(policy.groups[h])
    <3>1. GroupIndex' = GroupIndex + 1 /\ policy' = policy
      BY <1>1, <1>4, <1>5 DEF GroupIndex
    <3>2. \A h : Space(policy.groups[h])' = Space(policy.groups[h])
      BY <3>1 DEF Space, Image
    <3> QED
      BY <3>1, <3>2 DEF SpacesInv
  <2>1. CASE i \in DOMAIN plan
    <3>1. PICK h \in DOMAIN policy.groups : h < GroupIndex /\ plan[i].n \in Space(policy.groups[h])
      BY <2>1 DEF Inv, SpacesInv
    <3>2. GroupIndex \in Nat /\ h \in Nat
      <4>1. policy.groups \in Seq(Group)
        BY PoliciesAssumption DEF Inv, TypeOK, Policy
      <4> QED
        BY <1>4, <4>1, <3>1, LenProperties DEF GroupIndex
    <3>3. h < GroupIndex + 1
      BY <3>1, <3>2
    <3> QED
      BY <1>2, <2>1, <3>1, <3>3
  <2>2. CASE i \notin DOMAIN plan
    <3>1. plan'[i].n = drawn[i - Len(plan)] /\ i - Len(plan) \in DOMAIN drawn
      BY <1>2, <1>3, <2>2
    <3>2. plan'[i].n \in Space(policy.groups[GroupIndex])
      BY <1>1, <3>1 DEF Inv, DrawInv, Image, Here
    <3>3. GroupIndex < GroupIndex + 1
      BY <1>4 DEF GroupIndex
    <3> QED
      BY <1>1, <3>2, <3>3
  <2> QED
    BY <2>1, <2>2
<1>11. \A i, j \in DOMAIN plan' : plan'[i].n = plan'[j].n => i = j
  <2>1. \A i, j \in DOMAIN plan : plan'[i].n = plan'[j].n => i = j
    BY <1>2 DEF Inv, PlanIsSchedule
  <2>2. ASSUME NEW i \in DOMAIN plan, NEW j \in DOMAIN plan' \ DOMAIN plan
        PROVE  plan'[i].n # plan'[j].n
    <3>1. plan'[i].n \in Planned
      BY <1>2, <2>2 DEF Planned
    <3>2. plan'[j].n \in Image(v)
      BY <1>2, <2>2 DEF Image
    <3> QED
      BY <1>7, <3>1, <3>2
  <2>3. ASSUME NEW i \in DOMAIN plan' \ DOMAIN plan, NEW j \in DOMAIN plan' \ DOMAIN plan,
               plan'[i].n = plan'[j].n
        PROVE  i = j
    <3>1. i - Len(plan) = j - Len(plan)
      BY <1>2, <1>7, <2>3 DEF Distinct
    <3> QED
      BY <1>2, <1>4, <3>1
  <2> QED
    BY <2>1, <2>2, <2>3
<1>12. \A i \in DOMAIN plan' :
         \E h \in DOMAIN schedule' :
           /\ policy.groups[h].id = plan'[i].group
           /\ plan'[i].case + 1 \in DOMAIN Capped(schedule'[h])
           /\ plan'[i].n = schedule'[h][plan'[i].case + 1]
  <2> SUFFICES ASSUME NEW i \in DOMAIN plan'
               PROVE  \E h \in DOMAIN schedule' :
                        /\ policy.groups[h].id = plan'[i].group
                        /\ plan'[i].case + 1 \in DOMAIN Capped(schedule'[h])
                        /\ plan'[i].n = schedule'[h][plan'[i].case + 1]
    OBVIOUS
  <2>1. CASE i \in DOMAIN plan
    <3>1. PICK h \in DOMAIN schedule :
            /\ policy.groups[h].id = plan[i].group
            /\ plan[i].case + 1 \in DOMAIN Capped(schedule[h])
            /\ plan[i].n = schedule[h][plan[i].case + 1]
      BY <2>1 DEF Inv, PlanIsSchedule
    <3>2. h \in DOMAIN schedule' /\ schedule'[h] = schedule[h] /\ plan'[i] = plan[i]
      BY <1>2, <1>4, <1>5, <2>1
    <3> QED
      BY <3>1, <3>2
  <2>2. CASE i \notin DOMAIN plan
    <3> DEFINE h == GroupIndex
               k == i - Len(plan)
    <3>1. h \in DOMAIN schedule' /\ schedule'[h] = drawn
      BY <1>4, <1>5 DEF GroupIndex
    <3>2. k \in DOMAIN v /\ plan'[i].n = v[k] /\ plan'[i].group = Here.id /\ plan'[i].case = k - 1
      BY <1>2, <2>2
    <3>3. plan'[i].case + 1 = k
      BY <1>4, <3>2
    <3> HIDE DEF k
    <3> QED
      BY <1>3, <1>6, <3>1, <3>2, <3>3 DEF Here
  <2> QED
    BY <2>1, <2>2
<1>13. \A h \in DOMAIN schedule' : \A c \in DOMAIN Capped(schedule'[h]) :
         \E i \in DOMAIN plan' : plan'[i].group = policy.groups[h].id /\ plan'[i].case = c - 1
  <2> SUFFICES ASSUME NEW h \in DOMAIN schedule', NEW c \in DOMAIN Capped(schedule'[h])
               PROVE  \E i \in DOMAIN plan' :
                        plan'[i].group = policy.groups[h].id /\ plan'[i].case = c - 1
    OBVIOUS
  <2>1. CASE h \in DOMAIN schedule
    <3>1. schedule'[h] = schedule[h]
      BY <1>4, <1>5, <2>1
    <3>2. PICK i \in DOMAIN plan : plan[i].group = policy.groups[h].id /\ plan[i].case = c - 1
      BY <2>1, <3>1 DEF Inv, PlanIsSchedule
    <3> QED
      BY <1>2, <3>2
  <2>2. CASE h \notin DOMAIN schedule
    <3>1. h = GroupIndex /\ schedule'[h] = drawn
      BY <1>4, <1>5, <2>2 DEF GroupIndex
    <3>2. c \in 1 .. Len(v)
      BY <1>4, <1>6, <3>1
    <3> DEFINE i == Len(plan) + c
    <3>3. i \in DOMAIN plan' \ DOMAIN plan /\ i - Len(plan) = c
      BY <1>2, <1>4, <3>2
    <3>4. plan'[i].group = Here.id /\ plan'[i].case = c - 1
      BY <1>2, <3>3
    <3> QED
      BY <3>1, <3>3, <3>4 DEF Here
  <2> QED
    BY <2>1, <2>2
<1>14. PlanIsSchedule'
  <2>1. \A h \in DOMAIN schedule' : Capped(schedule[h])' = Capped(schedule'[h])
    BY <1>1 DEF Capped, HasCap, NumberGiven
  <2>2. policy' = policy
    BY <1>1
  <2>3. \A i \in DOMAIN plan' :
          \E h \in DOMAIN schedule' :
            /\ policy.groups[h].id = plan'[i].group
            /\ plan'[i].case + 1 \in DOMAIN (Capped(schedule[h])')
            /\ plan'[i].n = schedule'[h][plan'[i].case + 1]
    BY <1>12, <2>1
  <2>4. \A h \in DOMAIN schedule' : \A c \in DOMAIN (Capped(schedule[h])') :
          \E i \in DOMAIN plan' : plan'[i].group = policy.groups[h].id /\ plan'[i].case = c - 1
    BY <1>13, <2>1
  <2> QED
    BY <1>11, <2>2, <2>3, <2>4 DEF PlanIsSchedule
<1> QED
  BY <1>8, <1>9, <1>10, <1>14 DEF Inv

LEMMA CloseStep == Inv /\ CloseGroup => Inv'
<1> SUFFICES ASSUME Inv, CloseGroup
             PROVE  Inv'
  OBVIOUS
<1>1. CASE ~CloseRefused
  BY <1>1, CloseAccepted
<1>2. CASE CloseRefused
  <2>1. /\ phase = "draw" /\ phase' = "refused" /\ reason' = WhyClosed
        /\ UNCHANGED <<policy, env, drawn, schedule, plan>>
    BY <1>2 DEF CloseGroup, Refuse
  <2>2. ~(Here.kind \in RangeKinds /\ ~Increasing(drawn))
    BY <2>1 DEF Inv, DrawInv, Slotted
  <2>3. CASE LimitRefused
    <3>1. reason' = "limits"
      BY <2>1, <2>2, <2>3 DEF WhyClosed
    <3> QED
      BY <2>1, <3>1, MovesInv DEF Inv, TypeOK
  <2>4. CASE ~LimitRefused
    <3>1. reason' = "duplicate" /\ Repeats(Capped(drawn))
      BY <1>2, <2>1, <2>2, <2>4 DEF WhyClosed, CloseRefused
    <3>2. OnlyOverlapsCollide'
      BY <2>1, <3>1, RepeatOverlaps DEF OnlyOverlapsCollide, Space, Image
    <3>3. SpacesInv'
      BY <2>1 DEF Inv, SpacesInv, GroupIndex, Space, Image
    <3> QED
      BY <2>1, <3>1, <3>2, <3>3, ScheduleUnchanged DEF Inv, TypeOK, DrawInv, ScheduleInv
  <2> QED
    BY <2>3, <2>4
<1> QED
  BY <1>1, <1>2

LEMMA ValidateStep == Inv /\ Validate => Inv'
<1> SUFFICES ASSUME Inv, Validate
             PROVE  Inv'
  OBVIOUS
<1>1. /\ phase = "check" /\ UNCHANGED <<policy, env, schedule, plan, drawn>>
      /\ \/ phase' = "refused" /\ reason' \in {"policy", "plan"}
         \/ phase' = "accepted" /\ reason' = reason
  BY DEF Validate, Refuse, Goto
<1>2. phase = "check" => reason = "none"
  BY DEF Inv, TypeOK
<1> QED
  BY <1>1, <1>2, MovesInv DEF Inv, TypeOK

LEMMA StutterStep ==
  ASSUME Inv, UNCHANGED vars
  PROVE  Inv'
<1> USE DEF vars
<1>1. TypeOK' /\ ScheduleInv'
  BY DEF Inv, TypeOK, ScheduleInv, GroupIndex
<1>2. DrawInv'
  BY DEF Inv, DrawInv, GroupIndex, Here, Wanted, NumberGiven, Strict, SamplerValid, Intervals,
         JitterValid, Space, Image, Distinct, Slotted, Increasing
<1>3. SpacesInv'
  BY DEF Inv, SpacesInv, GroupIndex, Space, Image
<1>4. OnlyOverlapsCollide'
  <2>1. \A h : Space(policy.groups[h])' = Space(policy.groups[h])
    BY DEF Space, Image
  <2> QED
    BY <2>1 DEF Inv, OnlyOverlapsCollide
<1> QED
  BY <1>1, <1>2, <1>3, <1>4, ScheduleUnchanged DEF Inv

\* What is drawn has room and is new, and the plan is made of it.
THEOREM PlanInvariant == Spec => []Inv
<1>1. Inv /\ [Next]_vars => Inv'
  BY StartStep, EnterStep, DrawStep, CloseStep, ValidateStep, StutterStep DEF Next
<1> QED
  BY <1>1, InitInv, PTL DEF Spec

\* For every range, count and jitter: the sampler of a range never runs out of
\* room, so its closing check never fires.
THEOREM RangesHaveRoom == Spec => []SlotsHaveRoom
<1>1. Inv => SlotsHaveRoom
  <2> SUFFICES ASSUME Inv
               PROVE  SlotsHaveRoom
    OBVIOUS
  <2>1. phase = "draw" /\ Here.kind \in RangeKinds => Slotted(drawn, Here.lo, Here.hi, Wanted(Here))
    BY DEF Inv, DrawInv
  <2>2. reason # "slots"
    BY DEF Inv, ScheduleInv
  <2> QED
    BY <2>1, <2>2 DEF SlotsHaveRoom, Slotted
<1> QED
  BY <1>1, PlanInvariant, PTL

\* A repeated input is the policy's doing: two of its groups overlap.
THEOREM CollisionsAreOverlaps == Spec => []OnlyOverlapsCollide
<1>1. Inv => OnlyOverlapsCollide
  BY DEF Inv
<1> QED
  BY <1>1, PlanInvariant, PTL

\* Quick plans are prefixes of the full schedule, group by group, and no input
\* occurs twice in a plan.
THEOREM PlansAreSchedules == Spec => []PlanIsSchedule
<1>1. Inv => PlanIsSchedule
  BY DEF Inv
<1> QED
  BY <1>1, PlanInvariant, PTL
-----------------------------------------------------------------------------
(* The plan has the shape the scorer demands                               *)

Done == 1 .. Len(schedule)

\* What PlanShape demands, of the rows of the groups done.
Shaped(i) ==
  /\ plan[i].slot = i - 1
  /\ \E h \in Done : plan[i].group = policy.groups[h].id /\ RowShape(plan[i], policy.groups[h])

Ordered ==
  \A i, j \in DOMAIN plan : \A h, k \in Done :
    i < j /\ plan[i].group = policy.groups[h].id /\ plan[j].group = policy.groups[k].id
      => h < k \/ (h = k /\ plan[i].case < plan[j].case)

RangesRise ==
  \A i, j \in DOMAIN plan : \A h \in Done :
    (/\ i < j /\ policy.groups[h].kind \in RangeKinds
     /\ plan[i].group = policy.groups[h].id /\ plan[j].group = policy.groups[h].id)
      => plan[i].n < plan[j].n

Form ==
  /\ \A h, k \in Done : policy.groups[h].id = policy.groups[k].id => h = k
  /\ \A i \in DOMAIN plan : Shaped(i)
  /\ Ordered /\ CasesCountUp /\ RangesRise
  /\ \A h \in Done : GroupCovered(h)

\* The group being drawn has a name of its own and takes fixed inputs whole.
DrawForm ==
  phase = "draw" =>
    /\ policy.grouped => \A h \in Done : policy.groups[h].id # Here.id
    /\ Len(drawn) <= Wanted(Here)
    /\ Here.kind = "fixed" => drawn = <<>> \/ drawn = Here.values

FormInv ==
  /\ policy.grouped => Form
  /\ DrawForm
  /\ phase = "check" => policy.grouped /\ Len(schedule) = Len(policy.groups)
  /\ reason # "plan"

FitInv == Inv /\ FormInv

LEMMA FormUnchanged ==
  ASSUME Form, UNCHANGED <<policy, env, schedule, plan>>
  PROVE  Form'
<1>1. \A h : Wanted(policy.groups[h])' = Wanted(policy.groups[h])
  BY DEF Wanted, NumberGiven
<1>2. \A i, h : RowShape(plan[i], policy.groups[h])' = RowShape(plan[i], policy.groups[h])
  BY <1>1 DEF RowShape
<1>3. \A h : GroupCovered(h)' = GroupCovered(h)
  BY <1>1 DEF GroupCovered
<1>4. \A i : Shaped(i)' = Shaped(i)
  BY <1>2 DEF Shaped, Done
<1> QED
  BY <1>3, <1>4 DEF Form, Done, Ordered, CasesCountUp, RangesRise

\* A step that neither draws nor plans.
LEMMA MovesForm ==
  ASSUME FormInv, UNCHANGED <<policy, env, schedule, plan>>,
         phase' \notin {"draw", "check"}, reason' # "plan"
  PROVE  FormInv'
BY FormUnchanged DEF FormInv, DrawForm

\* Capping keeps at least one case, and all of them in an official run.
LEMMA CappedSize ==
  ASSUME NEW s \in Seq(Int), PerfCountAssumption, env \in Environment
  PROVE  /\ Len(s) >= 1 => Len(Capped(s)) >= 1
         /\ Len(Capped(s)) <= Len(s)
         /\ env.official => Capped(s) = s
<1>1. CASE HasCap /\ env.perfCount < Len(s)
  <2> DEFINE m == env.perfCount
  <2>1. m \in Int /\ m > 0 /\ m < Len(s) /\ ~env.official
    BY <1>1 DEF HasCap, NumberGiven, PerfCountAssumption, Environment
  <2>2. Capped(s) = SubSeq(s, 1, m)
    BY <1>1 DEF Capped
  <2> HIDE DEF m
  <2>3. Len(SubSeq(s, 1, m)) = m
    BY <2>1
  <2> QED
    BY <2>1, <2>2, <2>3
<1>2. CASE ~(HasCap /\ env.perfCount < Len(s))
  BY <1>2 DEF Capped
<1> QED
  BY <1>1, <1>2

\* A packed input names its scale.
LEMMA PackedScale ==
  ASSUME NEW q \in Nat, NEW n \in (q * SeedSpace) .. (q * SeedSpace + SeedSpace - 1)
  PROVE  n >= 0 /\ n \div SeedSpace = q
<1> DEFINE r == n - q * SeedSpace
<1>1. SeedSpace \in Nat \ {0} /\ q * SeedSpace \in Nat
  BY SizesAssumption
<1>2. r \in 0 .. SeedSpace - 1 /\ n = q * SeedSpace + r
  BY <1>1
<1> HIDE DEF r
<1>3. (q * SeedSpace + r) \div SeedSpace = q
  BY <1>1, <1>2
<1> QED
  BY <1>1, <1>2, <1>3

\* The rows of the group at hand have the shape the scorer demands.
LEMMA NewRowsShaped ==
  ASSUME Inv, DrawForm, phase = "draw", Len(drawn) = Wanted(Here), policy.grouped,
         NEW row, NEW c \in DOMAIN Capped(drawn),
         row.case = c - 1, row.n = Capped(drawn)[c],
         row.timeout = Here.timeout, row.scale = Here.scale
  PROVE  RowShape(row, Here)
<1>1. /\ drawn \in Seq(Int) /\ GroupIndex \in DOMAIN policy.groups
      /\ SamplerValid(Here, Wanted(Here), Strict) /\ Image(drawn) \subseteq Space(Here)
  BY DEF Inv, TypeOK, DrawInv
<1>2. /\ Here.lo \in Int /\ Here.hi \in Int /\ Here.scale \in Int /\ Here.values \in Seq(Int)
      /\ Wanted(Here) \in Int
  BY <1>1, HereIsGroup DEF Inv
<1>3. c \in DOMAIN drawn /\ row.n = drawn[c] /\ DOMAIN drawn = 1 .. Wanted(Here)
  BY <1>1, CappedIsPrefix, PerfCountAssumption, LenProperties DEF Inv, TypeOK
<1>4. row.n \in Space(Here) /\ row.n \in Int
  BY <1>1, <1>3 DEF Image
<1>5. row.case >= 0 /\ row.case < Wanted(Here) /\ row.case + 1 = c
  BY <1>2, <1>3
<1>6. CASE Here.kind = "fixed"
  <2>1. drawn # <<>> /\ Len(Here.values) = Wanted(Here)
    BY <1>3, <1>6 DEF Wanted
  <2>2. drawn = Here.values
    BY <1>6, <2>1 DEF DrawForm
  <2>3. row.n >= 0
    BY <1>1, <1>3, <1>6, <2>2 DEF SamplerValid, Image
  <2> QED
    BY <1>3, <1>5, <1>6, <2>1, <2>2, <2>3 DEF RowShape, RangeKinds
<1>7. CASE Here.kind = "packed"
  <2>1. Here.scale \in Nat
    BY <1>1, <1>2, <1>7 DEF SamplerValid
  <2>2. row.n \in (Here.scale * SeedSpace) .. (Here.scale * SeedSpace + SeedSpace - 1)
    BY <1>4, <1>7 DEF Space
  <2>3. row.n >= 0 /\ row.n \div SeedSpace = Here.scale
    BY <2>1, <2>2, PackedScale
  <2> QED
    BY <1>5, <1>7, <2>3 DEF RowShape, RangeKinds
<1>8. CASE Here.kind \in RangeKinds \union {"uniform_int"}
  <2>1. row.n \in Here.lo .. Here.hi /\ 0 <= Here.lo
    BY <1>1, <1>4, <1>8 DEF Space, SamplerValid, Intervals, RangeKinds
  <2>2. row.n >= 0 /\ Here.lo <= row.n /\ row.n <= Here.hi
    BY <1>2, <1>4, <2>1
  <2> QED
    BY <1>5, <1>8, <2>2 DEF RowShape, RangeKinds
<1> QED
  BY <1>1, <1>6, <1>7, <1>8 DEF SamplerValid, Kinds

\* The form of the plan after a group was closed.
LEMMA CloseForm ==
  ASSUME FitInv, CloseGroup, ~CloseRefused, policy.grouped
  PROVE  Form'
<1> DEFINE v == Capped(drawn)
           g == GroupIndex
<1>1. /\ phase = "draw" /\ Len(drawn) = Wanted(Here)
      /\ plan' = plan \o Rows(v) /\ schedule' = Append(schedule, drawn)
      /\ UNCHANGED <<policy, env, reason>>
      /\ g \in DOMAIN policy.groups
  BY DEF CloseGroup, Goto, FitInv, Inv, DrawInv
<1>2. /\ DOMAIN plan' = 1 .. Len(plan) + Len(v)
      /\ \A i \in DOMAIN plan : plan'[i] = plan[i] /\ i \in DOMAIN plan'
      /\ \A i \in DOMAIN plan' \ DOMAIN plan :
           /\ i - Len(plan) \in DOMAIN v
           /\ plan'[i].n = v[i - Len(plan)] /\ plan'[i].group = Here.id
           /\ plan'[i].case = i - Len(plan) - 1 /\ plan'[i].slot = i - 1
           /\ plan'[i].timeout = Here.timeout /\ plan'[i].scale = Here.scale
  BY <1>1, PlanGrows DEF FitInv
<1>3. /\ v \in Seq(Int) /\ DOMAIN v \subseteq DOMAIN drawn /\ \A i \in DOMAIN v : v[i] = drawn[i]
      /\ drawn \in Seq(Int) /\ schedule \in Seq(Seq(Int)) /\ plan \in Seq(Row)
      /\ env \in Environment
  BY CappedIsPrefix, PerfCountAssumption DEF FitInv, Inv, TypeOK
<1>4. /\ Len(v) \in Nat /\ DOMAIN v = 1 .. Len(v)
      /\ Len(plan) \in Nat /\ DOMAIN plan = 1 .. Len(plan)
      /\ Len(schedule) \in Nat /\ g = Len(schedule) + 1
  BY <1>3, LenProperties DEF GroupIndex
<1>5. /\ Done' = 1 .. g /\ Done = 1 .. g - 1 /\ g \notin Done
      /\ \A h \in Done' : h \in Done \/ h = g
  BY <1>1, <1>3, <1>4 DEF Done
<1>6. Here = policy.groups[g]
  BY DEF Here
<1>7. Wanted(Here) \in Int /\ Wanted(Here) >= 1 /\ Len(v) >= 1 /\ Len(v) <= Wanted(Here)
      /\ (env.official => Len(v) = Wanted(Here))
  <2>1. Wanted(Here) \in Int /\ Here.values \in Seq(Int)
    BY <1>1, HereIsGroup DEF FitInv, Inv
  <2>2. Wanted(Here) >= 1
    <3>1. Here.values # <<>> => Len(Here.values) >= 1
      BY <2>1
    <3>2. SamplerValid(Here, Wanted(Here), Strict)
      BY <1>1 DEF FitInv, Inv, DrawInv
    <3>3. Here.kind = "fixed" => Wanted(Here) = Len(Here.values) /\ Here.values # <<>>
      BY <3>2 DEF Wanted, SamplerValid
    <3> QED
      BY <3>1, <3>2, <3>3 DEF SamplerValid, Intervals, Kinds
  <2> QED
    BY <1>1, <1>3, <2>1, <2>2, CappedSize, PerfCountAssumption
<1>8. /\ Form /\ DrawForm
      /\ \A h \in Done : policy.groups[h].id # policy.groups[g].id
  BY <1>1, <1>6 DEF FitInv, FormInv, DrawForm
\* a row of an earlier group does not carry the name of this one
<1>9. ASSUME NEW i \in DOMAIN plan
      PROVE  plan[i].group # policy.groups[g].id
  BY <1>8, <1>9 DEF Form, Shaped
<1>10. \A h : Wanted(policy.groups[h])' = Wanted(policy.groups[h])
  BY <1>1 DEF Wanted, NumberGiven
<1>11. \A i : i \in DOMAIN plan' => i \in Int /\ (i \in DOMAIN plan <=> i <= Len(plan))
  BY <1>2, <1>4
<1>12. \A i, j \in DOMAIN plan' : i < j /\ j \in DOMAIN plan => i \in DOMAIN plan
  BY <1>2, <1>4
<1> HIDE DEF v, g
<1>13. \A h, k \in Done' : policy.groups[h].id = policy.groups[k].id => h = k
  BY <1>5, <1>8 DEF Form
<1>14. \A i \in DOMAIN plan' :
         /\ plan'[i].slot = i - 1
         /\ \E h \in Done' : plan'[i].group = policy.groups[h].id
                             /\ RowShape(plan'[i], policy.groups[h])
  <2> SUFFICES ASSUME NEW i \in DOMAIN plan'
               PROVE  /\ plan'[i].slot = i - 1
                      /\ \E h \in Done' : plan'[i].group = policy.groups[h].id
                                          /\ RowShape(plan'[i], policy.groups[h])
    OBVIOUS
  <2>1. CASE i \in DOMAIN plan
    <3>1. Shaped(i) /\ plan'[i] = plan[i]
      BY <1>2, <1>8, <2>1 DEF Form
    <3>2. Done \subseteq Done'
      BY <1>4, <1>5
    <3> QED
      BY <3>1, <3>2 DEF Shaped
  <2>2. CASE i \notin DOMAIN plan
    <3> DEFINE c == i - Len(plan)
    <3>1. /\ c \in DOMAIN v /\ plan'[i].n = v[c] /\ plan'[i].group = Here.id
          /\ plan'[i].case = c - 1 /\ plan'[i].slot = i - 1
          /\ plan'[i].timeout = Here.timeout /\ plan'[i].scale = Here.scale
      BY <1>2, <2>2
    <3> HIDE DEF c
    <3>2. RowShape(plan'[i], Here)
      BY <1>1, <1>8, <3>1, NewRowsShaped DEF FitInv, v
    <3>3. g \in Done'
      BY <1>4, <1>5
    <3> QED
      BY <1>6, <3>1, <3>2, <3>3
  <2> QED
    BY <2>1, <2>2
<1>15. \A i \in DOMAIN plan' : Shaped(i)'
  <2>1. ASSUME NEW i, NEW h, RowShape(plan'[i], policy.groups[h])
        PROVE  RowShape(plan[i], policy.groups[h])'
    BY <1>1, <1>10, <2>1 DEF RowShape
  <2> QED
    BY <1>1, <1>14, <2>1 DEF Shaped
<1>16. Ordered'
  <2> SUFFICES ASSUME NEW i \in DOMAIN plan', NEW j \in DOMAIN plan', NEW h \in Done', NEW k \in Done',
                      i < j, plan'[i].group = policy.groups[h].id, plan'[j].group = policy.groups[k].id
               PROVE  h < k \/ (h = k /\ plan'[i].case < plan'[j].case)
    BY <1>1 DEF Ordered
  <2>1. CASE j \in DOMAIN plan
    <3>1. i \in DOMAIN plan
      BY <1>12, <2>1
    <3>2. h # g /\ k # g
      BY <1>2, <1>9, <2>1, <3>1
    <3>3. h \in Done /\ k \in Done
      BY <1>5, <3>2
    <3> QED
      BY <1>2, <1>8, <2>1, <3>1, <3>3 DEF Form, Ordered
  <2>2. CASE j \notin DOMAIN plan
    <3>1. k = g
      BY <1>2, <1>5, <1>6, <1>8, <2>2
    <3>2. CASE i \in DOMAIN plan
      <4>1. h \in Done
        BY <1>2, <1>5, <1>9, <3>2
      <4> QED
        BY <1>4, <1>5, <3>1, <4>1
    <3>3. CASE i \notin DOMAIN plan
      <4>1. h = g
        BY <1>2, <1>5, <1>6, <1>8, <3>3
      <4>2. plan'[i].case = i - Len(plan) - 1 /\ plan'[j].case = j - Len(plan) - 1
        BY <1>2, <2>2, <3>3
      <4> QED
        BY <1>4, <1>11, <3>1, <4>1, <4>2
    <3> QED
      BY <3>2, <3>3
  <2> QED
    BY <2>1, <2>2
<1>17. CasesCountUp'
  <2> SUFFICES ASSUME NEW i \in DOMAIN plan', plan'[i].case # 0
               PROVE  /\ i > 1 /\ plan'[i - 1].group = plan'[i].group
                      /\ plan'[i - 1].case + 1 = plan'[i].case
    BY DEF CasesCountUp
  <2>1. CASE i \in DOMAIN plan
    <3>1. /\ plan'[i] = plan[i] /\ i > 1 /\ plan[i - 1].group = plan[i].group
          /\ plan[i - 1].case + 1 = plan[i].case
      BY <1>2, <1>8, <2>1 DEF Form, CasesCountUp
    <3>2. i - 1 \in DOMAIN plan
      BY <1>4, <2>1, <3>1
    <3> QED
      BY <1>2, <3>1, <3>2
  <2>2. CASE i \notin DOMAIN plan
    <3>1. plan'[i].case = i - Len(plan) - 1 /\ plan'[i].group = Here.id
      BY <1>2, <2>2
    <3>2. i - 1 \in DOMAIN plan' \ DOMAIN plan /\ i > 1
      BY <1>2, <1>4, <2>2, <3>1
    <3>3. plan'[i - 1].case = (i - 1) - Len(plan) - 1 /\ plan'[i - 1].group = Here.id
      BY <1>2, <3>2
    <3> QED
      BY <1>2, <1>4, <3>1, <3>2, <3>3
  <2> QED
    BY <2>1, <2>2
<1>18. RangesRise'
  <2> SUFFICES ASSUME NEW i \in DOMAIN plan', NEW j \in DOMAIN plan', NEW h \in Done',
                      i < j, policy.groups[h].kind \in RangeKinds,
                      plan'[i].group = policy.groups[h].id, plan'[j].group = policy.groups[h].id
               PROVE  plan'[i].n < plan'[j].n
    BY <1>1 DEF RangesRise
  <2>1. CASE j \in DOMAIN plan
    <3>1. i \in DOMAIN plan /\ h \in Done
      BY <1>2, <1>5, <1>9, <1>12, <2>1
    <3> QED
      BY <1>2, <1>8, <2>1, <3>1 DEF Form, RangesRise
  <2>2. CASE j \notin DOMAIN plan
    <3>1. h = g
      BY <1>2, <1>5, <1>6, <1>8, <2>2
    <3>2. i \notin DOMAIN plan
      BY <1>2, <1>9, <3>1
    <3>3. Increasing(drawn)
      BY <1>6, <3>1 DEF CloseRefused
    <3>4. /\ plan'[i].n = drawn[i - Len(plan)] /\ plan'[j].n = drawn[j - Len(plan)]
          /\ i - Len(plan) \in DOMAIN drawn /\ j - Len(plan) \in DOMAIN drawn
      BY <1>2, <1>3, <2>2, <3>2
    <3>5. i - Len(plan) < j - Len(plan)
      BY <1>4, <1>11
    <3> QED
      BY <3>3, <3>4, <3>5 DEF Increasing
  <2> QED
    BY <2>1, <2>2
<1>19. \A h \in Done' : GroupCovered(h)'
  <2> SUFFICES ASSUME NEW h \in Done'
               PROVE  \E i \in DOMAIN plan' :
                        /\ plan'[i].group = policy.groups[h].id
                        /\ env.official => plan'[i].case = Wanted(policy.groups[h]) - 1
    BY <1>1, <1>10 DEF GroupCovered
  <2>1. CASE h \in Done
    BY <1>2, <1>8, <2>1 DEF Form, GroupCovered
  <2>2. CASE h = g
    <3> DEFINE i == Len(plan) + Len(v)
    <3>1. i \in DOMAIN plan' \ DOMAIN plan /\ i - Len(plan) = Len(v)
      BY <1>2, <1>4, <1>7
    <3>2. plan'[i].group = Here.id /\ plan'[i].case = Len(v) - 1
      BY <1>2, <3>1
    <3> QED
      BY <1>6, <1>7, <2>2, <3>1, <3>2
  <2> QED
    BY <1>5, <2>1, <2>2
<1> QED
  BY <1>1, <1>13, <1>15, <1>16, <1>17, <1>18, <1>19 DEF Form

\* A plan that was resolved to its end has the scorer's shape, whatever the
\* published policy says of it.
LEMMA FormIsShape ==
  ASSUME FitInv, phase = "check", policy.groups # <<>>
  PROVE  PlanShape
<1>1. /\ Form /\ Len(schedule) = Len(policy.groups) /\ plan \in Seq(Row)
      /\ policy.groups \in Seq(Group)
  BY PoliciesAssumption DEF FitInv, FormInv, Inv, TypeOK, Policy
<1>2. DOMAIN policy.groups = Done /\ 1 \in Done
  BY <1>1, LenProperties DEF Done
<1>3. plan # <<>>
  BY <1>1, <1>2 DEF Form, GroupCovered
<1>4. \A i \in DOMAIN plan :
        /\ plan[i].slot = i - 1
        /\ OfGroup(plan[i]) # {}
        /\ \A h \in OfGroup(plan[i]) : RowShape(plan[i], policy.groups[h])
  <2> SUFFICES ASSUME NEW i \in DOMAIN plan
               PROVE  /\ plan[i].slot = i - 1
                      /\ OfGroup(plan[i]) # {}
                      /\ \A h \in OfGroup(plan[i]) : RowShape(plan[i], policy.groups[h])
    OBVIOUS
  <2>1. Shaped(i)
    BY <1>1 DEF Form
  <2>2. PICK k \in Done : plan[i].group = policy.groups[k].id /\ RowShape(plan[i], policy.groups[k])
    BY <2>1 DEF Shaped
  <2>3. \A h \in OfGroup(plan[i]) : h = k
    BY <1>1, <1>2, <2>2 DEF OfGroup, Form
  <2> QED
    BY <1>2, <2>1, <2>2, <2>3 DEF OfGroup, Shaped
<1>5. RowsInOrder
  BY <1>1, <1>2 DEF RowsInOrder, OfGroup, Form, Ordered
<1>6. RangeCasesIncrease
  BY <1>1, <1>2 DEF RangeCasesIncrease, OfGroup, Form, RangesRise
<1> QED
  BY <1>1, <1>2, <1>3, <1>4, <1>5, <1>6 DEF PlanShape, Form

LEMMA InitForm == Init => FormInv
BY DEF Init, FormInv, Form, DrawForm, Done, Ordered, CasesCountUp, RangesRise

LEMMA EnterForm == FitInv /\ EnterGroup => FormInv'
<1> SUFFICES ASSUME FitInv, EnterGroup
             PROVE  FormInv'
  OBVIOUS
<1> USE DEF EnterGroup, Refuse, Goto, FitInv
<1>1. CASE GroupRefused
  BY <1>1, MovesForm
<1>2. CASE ~GroupRefused
  <2>1. /\ phase' = "draw" /\ drawn' = <<>> /\ UNCHANGED <<policy, env, schedule, plan, reason>>
        /\ GroupIndex \in DOMAIN policy.groups /\ SamplerValid(Here, Wanted(Here), Strict)
    BY <1>2 DEF Inv, ScheduleInv, GroupRefused
  <2>2. GroupIndex' = GroupIndex /\ Here' = Here /\ Wanted(Here)' = Wanted(Here) /\ Done' = Done
    BY <2>1 DEF GroupIndex, Here, Wanted, NumberGiven, Done
  <2>3. 0 <= Wanted(Here)
    <3>1. Wanted(Here) \in Int /\ Here.values \in Seq(Int)
      BY <2>1, HereIsGroup DEF Inv
    <3>2. Here.kind = "fixed" => Wanted(Here) = Len(Here.values)
      BY DEF Wanted
    <3> QED
      BY <2>1, <3>1, <3>2 DEF SamplerValid, Intervals, Kinds
  <2>4. policy.grouped => \A h \in Done : policy.groups[h].id # Here.id
    BY <1>2 DEF GroupRefused, Done
  <2>5. DrawForm'
    BY <2>1, <2>2, <2>3, <2>4 DEF DrawForm
  <2> QED
    BY <2>1, <2>5, FormUnchanged DEF FormInv
<1> QED
  BY <1>1, <1>2

LEMMA DrawFormStep == FitInv /\ Draw => FormInv'
<1> SUFFICES ASSUME FitInv, Draw
             PROVE  FormInv'
  OBVIOUS
<1>1. /\ phase = "draw" /\ Len(drawn) < Wanted(Here)
      /\ UNCHANGED <<policy, env, phase, schedule, plan, reason>>
      /\ drawn \in Seq(Int) /\ GroupIndex \in DOMAIN policy.groups
  BY DEF Draw, FitInv, Inv, TypeOK, DrawInv
<1>2. GroupIndex' = GroupIndex /\ Here' = Here /\ Wanted(Here)' = Wanted(Here) /\ Done' = Done
  BY <1>1 DEF GroupIndex, Here, Wanted, NumberGiven, Done
<1>3. Wanted(Here) \in Int
  BY <1>1, HereIsGroup DEF FitInv, Inv
<1>4. Len(drawn') <= Wanted(Here) /\ (Here.kind = "fixed" => drawn' = Here.values)
  <2>1. CASE TakeFixed
    <3>1. drawn' = Here.values /\ Wanted(Here) = Len(Here.values)
      BY <2>1 DEF TakeFixed, Wanted
    <3> QED
      BY <1>3, <3>1
  <2>2. CASE ~TakeFixed
    <3>1. Here.kind # "fixed" /\ \E n \in Int : drawn' = Append(drawn, n)
      BY <1>1, <2>2, RangeDraw, OtherDraws DEF Draw, FitInv, DrawRange, DrawUniform, DrawPacked, RangeKinds
    <3>2. \A n \in Int : Len(Append(drawn, n)) = Len(drawn) + 1
      BY <1>1
    <3>3. Len(drawn) \in Nat
      BY <1>1
    <3> QED
      BY <1>1, <1>3, <3>1, <3>2, <3>3
  <2> QED
    BY <2>1, <2>2
<1>5. DrawForm'
  BY <1>1, <1>2, <1>4 DEF FitInv, FormInv, DrawForm
<1> QED
  BY <1>1, <1>5, FormUnchanged DEF FitInv, FormInv

LEMMA CloseFormStep == FitInv /\ CloseGroup => FormInv'
<1> SUFFICES ASSUME FitInv, CloseGroup
             PROVE  FormInv'
  OBVIOUS
<1>1. CASE CloseRefused
  <2>1. phase' = "refused" /\ reason' = WhyClosed /\ UNCHANGED <<policy, env, schedule, plan>>
    BY <1>1 DEF CloseGroup, Refuse
  <2>2. reason' # "plan"
    BY <2>1 DEF WhyClosed
  <2> QED
    BY <2>1, <2>2, MovesForm DEF FitInv
<1>2. CASE ~CloseRefused
  <2>1. /\ UNCHANGED <<policy, env, reason>> /\ schedule' = Append(schedule, drawn)
        /\ phase' = IF GroupIndex < Len(policy.groups) THEN "group"
                    ELSE IF policy.grouped THEN "check" ELSE "accepted"
        /\ phase = "draw" /\ GroupIndex \in DOMAIN policy.groups
    BY <1>2 DEF CloseGroup, Goto, FitInv, Inv, DrawInv
  <2>2. phase' = "check" => policy'.grouped /\ Len(schedule') = Len(policy'.groups)
    <3>1. policy.groups \in Seq(Group) /\ schedule \in Seq(Seq(Int)) /\ drawn \in Seq(Int)
      BY PoliciesAssumption DEF FitInv, Inv, TypeOK, Policy
    <3>2. Len(schedule') = GroupIndex /\ GroupIndex <= Len(policy.groups) /\ Len(policy.groups) \in Nat
      BY <2>1, <3>1, LenProperties DEF GroupIndex
    <3>3. GroupIndex \in Nat
      BY <3>1 DEF GroupIndex
    <3> QED
      BY <2>1, <3>2, <3>3
  <2>3. policy'.grouped => Form'
    BY <1>2, <2>1, CloseForm
  <2> QED
    BY <2>1, <2>2, <2>3 DEF FitInv, FormInv, DrawForm
<1> QED
  BY <1>1, <1>2

LEMMA ValidateForm == FitInv /\ Validate => FormInv'
<1> SUFFICES ASSUME FitInv, Validate
             PROVE  FormInv'
  OBVIOUS
<1>1. /\ phase = "check" /\ UNCHANGED <<policy, env, schedule, plan>>
      /\ phase' \in {"refused", "accepted"}
      /\ reason' = "plan" => reason = "plan" \/ (PolicyShape /\ ~PlanShape)
  <2> DEFINE good == PolicyShape
             fits == PlanShape
  <2>1. /\ phase = "check"
        /\ \/ ~good /\ Refuse("policy")
           \/ good /\ ~fits /\ Refuse("plan")
           \/ good /\ fits /\ Goto("accepted") /\ UNCHANGED <<drawn, schedule, plan>>
    BY DEF Validate
  <2> HIDE DEF good, fits
  <2>2. /\ UNCHANGED <<policy, env, schedule, plan>> /\ phase' \in {"refused", "accepted"}
        /\ reason' = "plan" => reason = "plan" \/ (good /\ ~fits)
    BY <2>1 DEF Refuse, Goto
  <2> QED
    BY <2>1, <2>2 DEF good, fits
<1>2. PolicyShape => PlanShape
  BY <1>1, FormIsShape DEF PolicyShape
<1> QED
  BY <1>1, <1>2, MovesForm DEF FitInv, FormInv

LEMMA OtherForms ==
  ASSUME FitInv, Start \/ UNCHANGED vars
  PROVE  FormInv'
<1>1. CASE Start
  BY <1>1, MovesForm DEF Start, Refuse, Goto, FitInv, FormInv
<1>2. CASE UNCHANGED vars
  <2>1. DrawForm'
    BY <1>2 DEF vars, FitInv, FormInv, DrawForm, Done, GroupIndex, Here, Wanted, NumberGiven
  <2> QED
    BY <1>2, <2>1, FormUnchanged DEF vars, FitInv, FormInv
<1> QED
  BY <1>1, <1>2

\* For every policy, environment and sequence of draws: a plan the judge has
\* derived from a policy the scorer's shape accepts passes the scorer's checks
\* of the plan, so no submission is judged on a plan the scorer then refuses.
THEOREM PlansFitPolicies == Spec => []PlanFitsPolicy
<1>1. Init => FitInv
  BY InitInv, InitForm DEF FitInv
<1>2. FitInv /\ [Next]_vars => FitInv'
  <2>1. FitInv /\ [Next]_vars => Inv'
    BY StartStep, EnterStep, DrawStep, CloseStep, ValidateStep, StutterStep DEF Next, FitInv
  <2>2. FitInv /\ [Next]_vars => FormInv'
    BY EnterForm, DrawFormStep, CloseFormStep, ValidateForm, OtherForms DEF Next
  <2> QED
    BY <2>1, <2>2 DEF FitInv
<1>3. FitInv => PlanFitsPolicy
  BY FormIsShape DEF PlanFitsPolicy, PolicyShape, FitInv, FormInv
<1> QED
  BY <1>1, <1>2, <1>3, PTL DEF Spec

=============================================================================
