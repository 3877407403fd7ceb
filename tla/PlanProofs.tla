------------------------------ MODULE PlanProofs ------------------------------
(***************************************************************************)
(* Proofs about the plan of a job, for every list of changes, all Skills    *)
(* and any number of passes: the passes over the plan, and the stages of    *)
(* a permission recovery that follow each other over several jobs.          *)
(***************************************************************************)
EXTENDS PlanPass, PermissionLadder, FiniteSetTheorems, TLAPS

-----------------------------------------------------------------------------
(* PlanPass.                                                                *)

(* The allowed changes of a list: each is one of the list that the Skill    *)
(* allows, and they are not more than the list.                             *)
LEMMA AllowedOfIsAllowed ==
    ASSUME NEW S, NEW c \in Seq(S), NEW s
    PROVE  /\ AllowedOf(c, s) \in Seq(S)
           /\ Len(AllowedOf(c, s)) <= Len(c)
           /\ \A k \in DOMAIN AllowedOf(c, s) : \E i \in DOMAIN c :
                AllowedOf(c, s)[k] = c[i] /\ c[i].action \in s.allowed
<1> DEFINE kept == {i \in DOMAIN c : c[i].action \in s.allowed}
           Upto(i) == {j \in kept : j <= i}
           Rank(i) == Cardinality(Upto(i))
           n == Cardinality(kept)
           rank == [i \in kept |-> Rank(i)]
<1>1. kept \subseteq 1 .. Len(c) /\ Len(c) \in Nat
  OBVIOUS
<1>2. IsFiniteSet(1 .. Len(c)) /\ Cardinality(1 .. Len(c)) = Len(c)
  BY <1>1, FS_Interval
<1>3. IsFiniteSet(kept) /\ n <= Len(c) /\ n \in Nat
  <2> HIDE DEF kept
  <2> QED  BY <1>1, <1>2, FS_Subset, FS_CardinalityType
<1>4. ASSUME NEW i \in kept
      PROVE  Rank(i) \in 1 .. n
  <2>1. i \in Upto(i)
    BY <1>1
  <2>2. Upto(i) \subseteq kept
    OBVIOUS
  <2>3. IsFiniteSet(Upto(i)) /\ Rank(i) <= n /\ Rank(i) \in Nat
    <3> HIDE DEF kept, Upto
    <3> QED  BY <1>3, <2>2, FS_Subset, FS_CardinalityType
  <2>4. Rank(i) # 0
    <3> HIDE DEF kept, Upto
    <3> QED  BY <2>1, <2>3, FS_EmptySet
  <2> HIDE DEF kept, Rank
  <2> QED  BY <1>3, <2>3, <2>4
<1>5. ASSUME NEW i \in kept, NEW j \in kept, i < j
      PROVE  Rank(i) # Rank(j)
  <2>1. Upto(i) \subseteq Upto(j) /\ j \in Upto(j) /\ j \notin Upto(i)
    BY <1>1, <1>5
  <2>2. Upto(j) \subseteq kept
    OBVIOUS
  <2> HIDE DEF kept, Upto
  <2>3. IsFiniteSet(Upto(j))
    BY <1>3, <2>2, FS_Subset
  <2> QED  BY <2>1, <2>3, FS_Subset
<1>6. rank \in Injection(kept, 1 .. n)
  <2>1. rank \in [kept -> 1 .. n]
    <3> HIDE DEF kept, n, Rank
    <3> QED  BY <1>4
  <2>2. ASSUME NEW i \in kept, NEW j \in kept, rank[i] = rank[j]
        PROVE  i = j
    <3>1. i \in Int /\ j \in Int
      BY <1>1
    <3> HIDE DEF kept, Rank
    <3>2. Rank(i) = Rank(j)
      BY <2>2
    <3> QED  BY <3>1, <3>2, <1>5
  <2> HIDE DEF kept, n, rank
  <2> QED  BY <2>1, <2>2 DEF Injection, IsInjective
<1>7. rank \in Surjection(kept, 1 .. n)
  <2> HIDE DEF kept, rank
  <2>1. IsFiniteSet(1 .. n) /\ Cardinality(1 .. n) = n
    BY <1>3, FS_Interval
  <2> QED  BY <1>3, <1>6, <2>1, FS_Injection
<1>8. ASSUME NEW k \in 1 .. n
      PROVE  \E i \in kept : Rank(i) = k
  <2>1. \E i \in kept : rank[i] = k
    <3> HIDE DEF kept, rank, n
    <3> QED  BY <1>7 DEF Surjection
  <2> HIDE DEF kept, Rank
  <2> QED  BY <2>1
<1> DEFINE Of(k) == CHOOSE i \in kept : Rank(i) = k
<1>9. ASSUME NEW k \in 1 .. n
      PROVE  Of(k) \in kept
  <2>1. PICK i : i \in kept /\ Rank(i) = k
    BY <1>8
  <2> HIDE DEF kept, Rank, n
  <2> QED  BY <2>1, Zenon
<1>10. AllowedOf(c, s) = [k \in 1 .. n |-> c[Of(k)]]
  BY DEF AllowedOf
<1>11. ASSUME NEW k \in 1 .. n
       PROVE  /\ Of(k) \in DOMAIN c /\ c[Of(k)].action \in s.allowed
              /\ c[Of(k)] \in S
  <2>1. Of(k) \in kept
    BY <1>9
  <2> HIDE DEF Of
  <2> QED  BY <2>1
<1> HIDE DEF kept, Of, n
<1>12. AllowedOf(c, s) \in [1 .. n -> S]
  BY <1>10, <1>11
<1>13. AllowedOf(c, s) \in Seq(S) /\ Len(AllowedOf(c, s)) = n /\ DOMAIN AllowedOf(c, s) = 1 .. n
  BY <1>12, <1>3
<1> QED  BY <1>3, <1>10, <1>11, <1>13

-----------------------------------------------------------------------------
(* The invariants.                                                          *)

\* The abort of a grey release.
AbortChange == [action |-> "abort", variant |-> 1]

\* The changes that can come up in an incident.
Known == Proposals \cup ChangesOf(initial) \cup {AbortChange}

\* The changes of a plan: at most two.
ChangeLists == {c \in Seq(Known) : Len(c) <= 2}

\* A plan.
Plans ==
    [changes : ChangeLists, skill : Skills \cup {NoSkill}, collected : SUBSET EvidenceIds,
     routedIn : 0 .. MaxPasses, refresh : BOOLEAN, invoked : BOOLEAN, owned : BOOLEAN,
     stage : {"none", "recovery", "hardening"}, rollback : BOOLEAN, exempt : BOOLEAN]

\* The places of a pass before its first change, and those of the loop.
Before == {"gate", "collect", "route", "review", "steps", "bind", "probe"}
(* The places where a change is put up or made.                             *)
Changing == {"ask", "write"}

(* The plans of the job and of the pass are plans.                          *)
PlansArePlans ==
    /\ initial \in Plans /\ plan \in Plans /\ replans \subseteq Plans
    /\ pass \in 1 .. MaxPasses

(* What a pass has gathered, tried and spent; its place, and where it is in *)
(* the list of its changes.  Only a pass that has ended leaves plans.       *)
PlacesAreTyped ==
    /\ tried \subseteq Known /\ spent \subseteq Skills /\ gathered \subseteq EvidenceIds
    /\ at \in Before \cup Changing \cup {"verify", "rollback", "again", "done"}
    /\ at = "done" <=> result # "none"
    /\ at # "done" => replans = {}
    /\ index \in 1 .. 2
    /\ at \in Before => index = 1
    /\ at \in Changing \cup {"verify"} => index \in DOMAIN plan.changes

(* The Skill of a plan was examined in this pass, and covers its changes.   *)
Covered(p) ==
    /\ p.skill \in Skills /\ p.routedIn = pass
    /\ p.skill.ready /\ ~p.skill.router /\ Missing(p.skill, p.collected) = {}
    /\ Actions(p) \subseteq p.skill.allowed
    /\ p.skill \notin spent \/ p.skill \in Executable

(* A grey release was tried in an earlier pass.                             *)
RolloutTried == \E c \in tried : c.action = "rollout"

(* From the review of the changes on, a plan that still has changes is      *)
(* covered or exempt, and the operator has seen them.  An exempt plan comes *)
(* of a release: the job's own, or one that was tried.                      *)
ChangesAreCovered ==
    /\ at # "done" => ChangesOf(plan) \subseteq started
    /\ at \in {"review", "steps", "bind"} \cup Changing =>
         plan.changes = <<>> \/ plan.exempt \/ Covered(plan)
    /\ plan.exempt => initial.exempt \/ RolloutTried
    /\ \A q \in replans : q.exempt =>
         initial.exempt \/ RolloutTried \/ "rollout" \in Actions(plan)

(* The inductive invariant of the passes.                                   *)
PassInv == PlansArePlans /\ PlacesAreTyped /\ ChangesAreCovered

-----------------------------------------------------------------------------
(* The plans that routing and the handlers make.                            *)

(* No change, and one change, are lists of changes.                         *)
LEMMA ShortLists ==
    /\ <<>> \in ChangeLists
    /\ \A c \in Known : <<c>> \in ChangeLists
    /\ \A c, d \in Known : <<c, d>> \in ChangeLists
<1> DEFINE K == Known
<1> HIDE DEF K
<1>1. <<>> \in Seq(K) /\ Len(<<>>) <= 2
  OBVIOUS
<1>2. \A c \in K : <<c>> \in Seq(K) /\ Len(<<c>>) <= 2
  OBVIOUS
<1>3. \A c, d \in K : <<c, d>> \in Seq(K) /\ Len(<<c, d>>) <= 2
  OBVIOUS
<1> QED  BY <1>1, <1>2, <1>3 DEF K, ChangeLists

(* A plan that was just made.                                               *)
LEMMA NewPlanIsPlan ==
    ASSUME NEW c \in ChangeLists
    PROVE  NewPlan(c) \in Plans /\ NewPlan(c).exempt = FALSE /\ NewPlan(c).changes = c
BY PassesAssumption DEF NewPlan, Plans

(* The plan of a handler is on top of the plan it is made for.              *)
LEMMA MaterializedIsPlan ==
    ASSUME NEW p \in Plans, NEW s \in Executable, NEW q \in Materialized(p, s)
    PROVE  /\ q \in Plans /\ q.exempt = p.exempt /\ q.skill = s
           /\ q.routedIn = p.routedIn /\ q.collected = p.collected
<1>1. PICK c \in {<<>>} \cup {<<x>> : x \in s.makes} :
        q = [p EXCEPT !.changes = c, !.owned = TRUE, !.skill = s,
                      !.stage = IF s.staged THEN "recovery" ELSE @]
  BY DEF Materialized
<1>2. s \in Skills /\ s.makes \subseteq Proposals
  BY SkillsAssumption DEF Executable
<1>3. c \in ChangeLists
  BY <1>2, ShortLists DEF Known
<1>4. (IF s.staged THEN "recovery" ELSE p.stage) \in {"none", "recovery", "hardening"}
  BY DEF Plans
<1> QED  BY <1>1, <1>2, <1>3, <1>4 DEF Plans

(* What is left of a plan when a Skill keeps the changes it allows.         *)
LEMMA KeptIsPlan ==
    ASSUME NEW p \in Plans, NEW s, NEW q, q = [p EXCEPT !.changes = AllowedOf(@, s)]
    PROVE  /\ q \in Plans
           /\ ChangesOf(q) \subseteq ChangesOf(p) /\ Actions(q) \subseteq s.allowed
           /\ q.exempt = p.exempt /\ q.skill = p.skill /\ q.invoked = p.invoked
           /\ q.routedIn = p.routedIn /\ q.collected = p.collected
<1> DEFINE c == p.changes
           d == AllowedOf(c, s)
<1>1. c \in Seq(Known) /\ Len(c) <= 2
  BY DEF Plans, ChangeLists
<1>2. /\ d \in Seq(Known) /\ Len(d) <= Len(c)
      /\ \A k \in DOMAIN d : \E i \in DOMAIN c : d[k] = c[i] /\ c[i].action \in s.allowed
  BY <1>1, AllowedOfIsAllowed
<1>3. q = [p EXCEPT !.changes = d]
  OBVIOUS
<1> HIDE DEF d
<1>4. Len(d) \in Nat /\ Len(c) \in Nat
  BY <1>1, <1>2
<1>5. q.changes = d
  BY <1>3 DEF Plans
<1> HIDE DEF c
<1>6. d \in ChangeLists
  BY <1>1, <1>2, <1>4 DEF ChangeLists
<1>61. q \in Plans
  BY <1>3, <1>6 DEF Plans
<1>7. ChangesOf(q) \subseteq ChangesOf(p)
  BY <1>2, <1>5 DEF ChangesOf, c
<1>8. Actions(q) \subseteq s.allowed
  BY <1>2, <1>5 DEF Actions
<1> QED  BY <1>3, <1>61, <1>7, <1>8 DEF Plans

(* The plan a Skill has taken: it is without changes, or the Skill covers   *)
(* them.  Unless a handler was asked, they are changes of the plan.         *)
LEMMA RoutedIsPlan ==
    ASSUME NEW p \in Plans, NEW ids \in SUBSET EvidenceIds, NEW s \in Matching,
           NEW sure \in BOOLEAN, NEW q \in RoutedTo(p, ids, s, sure), pass \in 1 .. MaxPasses
    PROVE  /\ q \in Plans /\ q.exempt = p.exempt
           /\ q.changes = <<>> \/ Covered(q)
           /\ q.invoked \/ ChangesOf(q) \subseteq ChangesOf(p)
<1> DEFINE routed == [p EXCEPT !.skill = s, !.collected = ids, !.routedIn = pass,
                               !.refresh = @ \/ Missing(s, ids) # {}]
           Kept(x) == [x EXCEPT !.changes = AllowedOf(@, s)]
<1>1. s \in Skills /\ (s \notin spent \/ s \in Executable)
  BY DEF Matching, Executable
<1>2. (p.refresh \/ Missing(s, ids) # {}) \in BOOLEAN
  BY DEF Plans
<1>21. pass \in 0 .. MaxPasses
  BY PassesAssumption
<1>3. routed \in Plans
  <2> DEFINE refresh == p.refresh \/ Missing(s, ids) # {}
  <2>1. routed = [p EXCEPT !.skill = s, !.collected = ids, !.routedIn = pass,
                           !.refresh = refresh]
    OBVIOUS
  <2>2. refresh \in BOOLEAN
    BY <1>2
  <2> HIDE DEF routed, refresh
  <2> QED  BY <1>1, <1>21, <2>1, <2>2 DEF Plans
<1>4. /\ routed.skill = s /\ routed.collected = ids /\ routed.routedIn = pass
      /\ routed.exempt = p.exempt /\ routed.changes = p.changes
  BY DEF Plans
<1>5. CASE ~Authorized(s, ids, sure)
  <2>1. q = [routed EXCEPT !.changes = <<>>]
    BY <1>5 DEF RoutedTo
  <2> HIDE DEF routed
  <2>2. q \in Plans /\ q.exempt = p.exempt /\ q.changes = <<>>
    BY <1>3, <1>4, <2>1, ShortLists DEF Plans
  <2>3. ChangesOf(q) = {}
    BY <2>2 DEF ChangesOf
  <2> QED  BY <2>2, <2>3
<1>6. CASE Authorized(s, ids, sure)
  <2>1. q = Kept(routed) \/ \E x \in Materialized(routed, s) :
          s \in Executable /\ q = Kept([x EXCEPT !.invoked = TRUE])
    <3> DEFINE M(x) == Materialized(routed, x)
               E == {s} \cap Executable
    <3>1. q \in {Kept(routed)} \cup {Kept([x EXCEPT !.invoked = TRUE]) :
                                         x \in UNION {M(x) : x \in E}}
      BY <1>6 DEF RoutedTo
    <3> HIDE DEF M, Kept, routed
    <3> QED  BY <3>1 DEF M
  <2>2. s.ready /\ ~s.router /\ Missing(s, ids) = {}
    BY <1>6 DEF Authorized
  <2> HIDE DEF routed
  <2>3. CASE q = Kept(routed)
    <3>1. /\ q \in Plans
          /\ ChangesOf(q) \subseteq ChangesOf(routed) /\ Actions(q) \subseteq s.allowed
          /\ q.exempt = routed.exempt /\ q.skill = routed.skill
          /\ q.routedIn = routed.routedIn /\ q.collected = routed.collected
      BY <1>3, <2>3, KeptIsPlan
    <3>2. ChangesOf(routed) = ChangesOf(p)
      BY <1>4 DEF ChangesOf
    <3>3. Covered(q)
      BY <1>1, <1>4, <2>2, <3>1 DEF Covered
    <3> QED  BY <1>4, <3>1, <3>2, <3>3
  <2>4. CASE \E x \in Materialized(routed, s) :
               s \in Executable /\ q = Kept([x EXCEPT !.invoked = TRUE])
    <3>1. PICK x \in Materialized(routed, s) :
               s \in Executable /\ q = Kept([x EXCEPT !.invoked = TRUE])
      BY <2>4
    <3>2. /\ x \in Plans /\ x.exempt = p.exempt /\ x.skill = s
          /\ x.routedIn = pass /\ x.collected = ids
      BY <1>3, <1>4, <3>1, MaterializedIsPlan
    <3> DEFINE y == [x EXCEPT !.invoked = TRUE]
    <3>3. /\ y \in Plans /\ y.exempt = p.exempt /\ y.skill = s
          /\ y.routedIn = pass /\ y.collected = ids /\ y.invoked = TRUE
      BY <3>2 DEF Plans
    <3>4. q = [y EXCEPT !.changes = AllowedOf(@, s)]
      BY <3>1
    <3> HIDE DEF y
    <3>5. /\ q \in Plans /\ Actions(q) \subseteq s.allowed
          /\ q.exempt = y.exempt /\ q.skill = y.skill /\ q.invoked = y.invoked
          /\ q.routedIn = y.routedIn /\ q.collected = y.collected
      BY <3>3, <3>4, KeptIsPlan
    <3>6. Covered(q)
      BY <1>1, <2>2, <3>3, <3>5 DEF Covered
    <3> QED  BY <3>3, <3>5, <3>6
  <2> QED  BY <2>1, <2>3, <2>4
<1> QED  BY <1>5, <1>6

(* The same of a plan after it was matched.                                 *)
LEMMA AttachedIsPlan ==
    ASSUME NEW p \in Plans, NEW ids \in SUBSET EvidenceIds, NEW q \in Attached(p, ids),
           pass \in 1 .. MaxPasses
    PROVE  /\ q \in Plans /\ q.exempt = p.exempt
           /\ q.changes = <<>> \/ q.exempt \/ Covered(q)
           /\ q.invoked \/ ChangesOf(q) \subseteq ChangesOf(p)
<1>1. CASE p.exempt
  <2>1. q = p
    BY <1>1 DEF Attached
  <2> QED  BY <1>1, <2>1
<1>2. CASE ~p.exempt /\ q = [p EXCEPT !.changes = <<>>]
  <2>1. q \in Plans /\ q.exempt = p.exempt /\ q.changes = <<>>
    BY <1>2, ShortLists DEF Plans
  <2>2. ChangesOf(q) = {}
    BY <2>1 DEF ChangesOf
  <2> QED  BY <2>1, <2>2
<1>3. CASE ~p.exempt /\ q # [p EXCEPT !.changes = <<>>]
  <2>1. PICK s \in Matching, sure \in BOOLEAN : q \in RoutedTo(p, ids, s, sure)
    BY <1>3 DEF Attached
  <2> QED  BY <2>1, RoutedIsPlan
<1> QED  BY <1>1, <1>2, <1>3

(* Plans that a pass leaves: they are exempt only if its own plan is.       *)
Leaves(found) == found \subseteq Plans /\ \A q \in found : q.exempt => plan.exempt

(* The plan of a handler, for the next pass.                                *)
LEMMA HandlersLeave ==
    ASSUME plan \in Plans, NEW s \in Executable, NEW q \in Materialized(plan, s)
    PROVE  Leaves({q})
BY MaterializedIsPlan DEF Leaves

(* What a pass finds for the next one.                                      *)
LEMMA ReplannedLeaves ==
    ASSUME plan \in Plans, pass \in 1 .. MaxPasses, NEW ids \in SUBSET EvidenceIds,
           NEW found \in Replanned(ids)
    PROVE  Leaves(found)
<1> DEFINE made == UNION {Materialized(plan, s) : s \in Executable}
           new == UNION {Attached(NewPlan(<<c>>), ids) : c \in Candidates}
<1>1. \/ found = {} \/ \E q \in made : found = {q}
      \/ \E q \in new : found = {q}
  BY DEF Replanned
<1>2. CASE found = {}
  BY <1>2 DEF Leaves
<1>3. ASSUME NEW q \in made, found = {q}
      PROVE  Leaves(found)
  BY <1>3, HandlersLeave
<1>4. ASSUME NEW q \in new, found = {q}
      PROVE  Leaves(found)
  <2>1. PICK c \in Candidates : q \in Attached(NewPlan(<<c>>), ids)
    OBVIOUS
  <2>2. <<c>> \in ChangeLists
    BY ShortLists DEF Candidates, Known
  <2>3. NewPlan(<<c>>) \in Plans /\ NewPlan(<<c>>).exempt = FALSE
    BY <2>2, NewPlanIsPlan
  <2>4. q \in Plans /\ q.exempt = NewPlan(<<c>>).exempt
    BY <2>1, <2>3, AttachedIsPlan
  <2> QED  BY <1>4, <2>3, <2>4 DEF Leaves
<1> HIDE DEF made, new
<1> QED  BY <1>1, <1>2, <1>3, <1>4

(* What a pass derives from its changes for the next one.                   *)
LEMMA DerivedLeaves ==
    ASSUME plan \in Plans, NEW found \in Derived
    PROVE  Leaves(found)
<1> DEFINE made == UNION {Materialized(plan, s) : s \in Executable}
           Of(action) == {<<c>> : c \in {x \in Proposals : x.action = action}}
           lists == CASE "patch" \in Actions(plan) -> Of("restart")
                      [] "patch" \notin Actions(plan) /\ "restart" \in Actions(plan) ->
                           Of("patch")
                      [] OTHER -> {<<>>}
<1>1. \/ found = {} \/ \E q \in made : found = {q}
      \/ \E c \in lists : found = {NewPlan(c)}
  BY DEF Derived
<1>2. lists \subseteq ChangeLists
  <2>1. Of("restart") \subseteq ChangeLists /\ Of("patch") \subseteq ChangeLists
    BY ShortLists DEF Known
  <2>2. lists \in {Of("restart"), Of("patch"), {<<>>}}
    <3> HIDE DEF Of
    <3> QED  OBVIOUS
  <2> HIDE DEF lists, Of
  <2> QED  BY <2>1, <2>2, ShortLists
<1>3. CASE found = {}
  BY <1>3 DEF Leaves
<1>4. ASSUME NEW q \in made, found = {q}
      PROVE  Leaves(found)
  BY <1>4, HandlersLeave
<1>5. ASSUME NEW c \in lists, found = {NewPlan(c)}
      PROVE  Leaves(found)
  <2> HIDE DEF lists
  <2> QED  BY <1>2, <1>5, NewPlanIsPlan DEF Leaves
<1> HIDE DEF made, lists
<1> QED  BY <1>1, <1>3, <1>4, <1>5

(* What of it is taken over after it was matched again.                     *)
LEMMA TakenOverLeaves ==
    ASSUME pass \in 1 .. MaxPasses, NEW ids \in SUBSET EvidenceIds,
           NEW found, Leaves(found), NEW left \in TakenOver(found, ids)
    PROVE  Leaves(left)
<1>1. CASE found = {}
  BY <1>1 DEF TakenOver, Leaves
<1>2. CASE found # {}
  <2>1. PICK q \in found :
          left \in (IF q.owned /\ q.skill \in Executable THEN {{q}}
                   ELSE {{r} : r \in Attached(q, ids)})
    BY <1>2 DEF TakenOver
  <2>2. q \in Plans /\ (q.exempt => plan.exempt)
    BY DEF Leaves
  <2>3. CASE left = {q}
    BY <2>2, <2>3 DEF Leaves
  <2>4. CASE left # {q}
    <3>1. PICK r \in Attached(q, ids) : left = {r}
      BY <2>1, <2>4
    <3>2. r \in Plans /\ r.exempt = q.exempt
      BY <2>2, <3>1, AttachedIsPlan
    <3> QED  BY <2>2, <3>1, <3>2 DEF Leaves
  <2> QED  BY <2>3, <2>4
<1> QED  BY <1>1, <1>2

(* The abort of a grey release is a plan, and exempt.                       *)
LEMMA AbortIsPlan ==
    ASSUME NEW p \in Plans
    PROVE  AbortOf(p) \in Plans
BY ShortLists DEF AbortOf, AbortChange, Plans, Known

(* A repair is a patch and a restart.                                       *)
LEMMA RepairsAre ==
    ASSUME NEW s, NEW r \in Repairs(s)
    PROVE  \E c, d : /\ c \in Permitted(s, "patch") /\ d \in Permitted(s, "restart")
                     /\ r = [NewPlan(<<c, d>>) EXCEPT !.skill = s]
BY SMTT(20) DEF Repairs

(* The plan of a handler is a change it makes.                              *)
LEMMA HandledAre ==
    ASSUME NEW s, NEW r \in Handled(s)
    PROVE  \E c : c \in s.makes /\
             r = [NewPlan(<<c>>) EXCEPT !.skill = s, !.owned = TRUE, !.invoked = TRUE,
                                        !.stage = IF s.staged THEN "recovery" ELSE "none"]
BY DEF Handled

(* What a job begins with is a plan.                                        *)
LEMMA FirstPlansArePlans ==
    ASSUME initial \in FirstPlans
    PROVE  initial \in Plans
<1> DEFINE rollout == [action |-> "rollout", variant |-> 1]
<1>1. \/ initial = NewPlan(<<>>) \/ initial = Release
      \/ \E s \in Owners : initial \in Repairs(s)
      \/ \E s \in Owners \cap Executable : initial \in Handled(s) \cup Hardenings(s)
  BY DEF FirstPlans
<1>2. ASSUME NEW c \in Seq(Proposals \cup {rollout}), Len(c) <= 2, initial.changes = c
      PROVE  c \in ChangeLists
  <2>1. \A i \in 1 .. Len(c) : c[i] \in Known
    BY <1>2 DEF Known, ChangesOf
  <2>2. c \in Seq(Known)
    <3> DEFINE K == Known
    <3>1. \A i \in 1 .. Len(c) : c[i] \in K
      BY <2>1
    <3> HIDE DEF K
    <3>2. c \in Seq(K)
      BY <3>1
    <3> QED  BY <3>2 DEF K
  <2> QED  BY <1>2, <2>2 DEF ChangeLists
<1>3. initial.changes \in ChangeLists
  <2> SUFFICES /\ initial.changes \in Seq(Proposals \cup {rollout})
               /\ Len(initial.changes) <= 2
    BY <1>2
  <2>1. /\ <<>> \in Seq(Proposals \cup {rollout}) /\ Len(<<>>) <= 2
        /\ \A c \in Proposals \cup {rollout} :
             <<c>> \in Seq(Proposals \cup {rollout}) /\ Len(<<c>>) <= 2
        /\ \A c, d \in Proposals \cup {rollout} :
             <<c, d>> \in Seq(Proposals \cup {rollout}) /\ Len(<<c, d>>) <= 2
    <3> DEFINE K == Proposals \cup {rollout}
    <3> HIDE DEF K
    <3>1. /\ <<>> \in Seq(K) /\ Len(<<>>) <= 2
          /\ \A c \in K : <<c>> \in Seq(K) /\ Len(<<c>>) <= 2
          /\ \A c, d \in K : <<c, d>> \in Seq(K) /\ Len(<<c, d>>) <= 2
      OBVIOUS
    <3> QED  BY <3>1 DEF K
  <2>2. \A s \in Executable : s.makes \subseteq Proposals
    BY SkillsAssumption DEF Executable
  <2>3. ASSUME NEW s \in Owners, initial \in Repairs(s)
        PROVE  \E c, d \in Proposals : initial.changes = <<c, d>>
    <3>1. PICK c, d : /\ c \in Permitted(s, "patch") /\ d \in Permitted(s, "restart")
                      /\ initial = [NewPlan(<<c, d>>) EXCEPT !.skill = s]
      BY <2>3, RepairsAre
    <3>2. initial.changes = <<c, d>>
      BY <3>1 DEF NewPlan
    <3> QED  BY <3>1, <3>2 DEF Permitted
  <2>4. ASSUME NEW s \in Executable, initial \in Handled(s)
        PROVE  \E c \in Proposals : initial.changes = <<c>>
    BY ZenonT(30), <2>2, <2>4 DEF Handled, NewPlan
  <2>5. ASSUME NEW s \in Executable, initial \in Hardenings(s)
        PROVE  \E c \in Proposals : initial.changes = <<c>>
    BY <2>5 DEF Hardenings, NewPlan, Permitted
  <2>6. \/ initial.changes = <<>>
        \/ \E c \in Proposals \cup {rollout} : initial.changes = <<c>>
        \/ \E c, d \in Proposals \cup {rollout} : initial.changes = <<c, d>>
    <3>1. CASE initial = NewPlan(<<>>) \/ initial = Release
      BY <3>1 DEF NewPlan, Release
    <3> QED  BY <1>1, <2>3, <2>4, <2>5, <3>1
  <2> HIDE DEF rollout
  <2> QED  BY <2>1, <2>6
<1>4. \A c : NewPlan(c) = [changes |-> c, skill |-> NoSkill, collected |-> {}, routedIn |-> 0,
                          refresh |-> FALSE, invoked |-> FALSE, owned |-> FALSE,
                          stage |-> "none", rollback |-> FALSE, exempt |-> FALSE]
  BY DEF NewPlan
<1>5. Owners \subseteq Skills /\ 0 \in 0 .. MaxPasses
  BY PassesAssumption DEF Owners
<1> HIDE DEF rollout
<1>6. CASE initial = NewPlan(<<>>) \/ initial = Release
  <2>1. CASE initial = NewPlan(<<>>)
    BY <1>3, <1>4, <1>5, <2>1 DEF Plans
  <2>2. CASE initial = Release
    <3>1. initial = [NewPlan(<<rollout>>) EXCEPT !.exempt = TRUE]
      BY <2>2 DEF Release, rollout
    <3> QED  BY <1>3, <1>4, <1>5, <3>1 DEF Plans
  <2> QED  BY <1>6, <2>1, <2>2
<1>7. ASSUME NEW s \in Owners, initial \in Repairs(s)
      PROVE  initial \in Plans
  <2>1. PICK c, d : /\ c \in Permitted(s, "patch") /\ d \in Permitted(s, "restart")
                    /\ initial = [NewPlan(<<c, d>>) EXCEPT !.skill = s]
    BY <1>7, RepairsAre
  <2> QED  BY <1>3, <1>4, <1>5, <2>1 DEF Plans
<1>8. ASSUME NEW s \in Owners, initial \in Handled(s)
      PROVE  initial \in Plans
  <2> DEFINE stage == IF s.staged THEN "recovery" ELSE "none"
  <2>1. PICK c : c \in s.makes /\
          initial = [NewPlan(<<c>>) EXCEPT !.skill = s, !.owned = TRUE, !.invoked = TRUE,
                                           !.stage = stage]
    BY <1>8, HandledAre
  <2>2. stage \in {"none", "recovery", "hardening"}
    OBVIOUS
  <2> HIDE DEF stage
  <2> QED  BY <1>3, <1>4, <1>5, <2>1, <2>2 DEF Plans
<1>9. ASSUME NEW s \in Owners, initial \in Hardenings(s)
      PROVE  initial \in Plans
  BY <1>3, <1>4, <1>5, <1>9 DEF Plans, Hardenings
<1> QED  BY <1>1, <1>6, <1>7, <1>8, <1>9

(* The next plan on top of the first one is a plan with its own changes.    *)
LEMMA ContinuedIsPlan ==
    ASSUME initial \in Plans, NEW next \in Plans
    PROVE  /\ Continued(next) \in Plans /\ Continued(next).changes = next.changes
           /\ Continued(next).exempt = (next.exempt \/ initial.exempt)
<1> DEFINE skill == IF next.skill = NoSkill THEN initial.skill ELSE next.skill
           stage == IF next.stage = "none" THEN initial.stage ELSE next.stage
           invoked == next.invoked \/ initial.invoked
           owned == next.owned \/ initial.owned
           rollback == next.rollback \/ initial.rollback
           exempt == next.exempt \/ initial.exempt
<1>1. Continued(next) = [next EXCEPT !.skill = skill, !.stage = stage, !.invoked = invoked,
                                     !.owned = owned, !.rollback = rollback, !.exempt = exempt]
  BY DEF Continued
<1>2. /\ skill \in Skills \cup {NoSkill} /\ stage \in {"none", "recovery", "hardening"}
      /\ invoked \in BOOLEAN /\ owned \in BOOLEAN /\ rollback \in BOOLEAN
      /\ exempt \in BOOLEAN
  BY DEF Plans
<1> HIDE DEF skill, stage, invoked, owned, rollback, exempt
<1>3. /\ Continued(next) \in Plans /\ Continued(next).changes = next.changes
      /\ Continued(next).exempt = exempt
  BY ZenonT(30), <1>1, <1>2 DEF Plans
<1> QED  BY <1>3 DEF exempt

-----------------------------------------------------------------------------
(* The invariants hold.                                                     *)

(* The kinds of plans depend on the first plan only.                        *)
LEMMA SameKinds ==
    ASSUME initial' = initial
    PROVE  Plans' = Plans /\ Known' = Known
BY DEF Plans, ChangeLists, Known, ChangesOf

(* A pass that ends leaves plans that are exempt only if they may be.       *)
LEMMA EndKeeps ==
    ASSUME PassInv, UNCHANGED <<plan, initial, started, spent, pass, index>>,
           tried \subseteq tried', tried' \subseteq Known, gathered' \subseteq EvidenceIds,
           at' = "done", result' # "none", replans' \subseteq Plans,
           \A q \in replans' : q.exempt => plan.exempt \/ "rollout" \in Actions(plan)
    PROVE  PassInv'
<1>1. PlansArePlans'
  BY SameKinds DEF PassInv, PlansArePlans
<1>2. PlacesAreTyped'
  BY SameKinds DEF PassInv, PlacesAreTyped, Before, Changing
<1>3. RolloutTried => RolloutTried'
  BY DEF RolloutTried
<1>4. ChangesAreCovered'
  BY <1>3 DEF PassInv, ChangesAreCovered, Changing, Actions
<1> QED  BY <1>1, <1>2, <1>4 DEF PassInv

(* A pass that goes on keeps its plan.                                      *)
LEMMA MoveKeeps ==
    ASSUME PassInv, UNCHANGED <<plan, initial, started, spent, pass, replans, result, tried>>,
           gathered' \subseteq EvidenceIds, at # "done", index' \in 1 .. 2,
           at' \in Before \cup Changing \cup {"verify", "rollback", "again"},
           at' \in Before => index' = 1,
           at' \in Changing \cup {"verify"} => index' \in DOMAIN plan.changes,
           at' \in {"review", "steps", "bind"} \cup Changing =>
             plan.changes = <<>> \/ plan.exempt \/ Covered(plan)
    PROVE  PassInv'
<1>1. PlansArePlans'
  BY SameKinds DEF PassInv, PlansArePlans
<1>2. PlacesAreTyped'
  BY SameKinds DEF PassInv, PlacesAreTyped, Before, Changing
<1>3. RolloutTried' <=> RolloutTried
  BY DEF RolloutTried
<1>4. Covered(plan)' <=> Covered(plan)
  BY DEF Covered, Actions, Executable
<1>5. ChangesOf(plan)' = ChangesOf(plan) /\ Actions(plan)' = Actions(plan)
  BY DEF ChangesOf, Actions
<1>6. at' # "done"
  BY DEF Before, Changing
<1>7. ChangesAreCovered'
  BY <1>3, <1>4, <1>5, <1>6 DEF PassInv, ChangesAreCovered, Changing
<1> QED  BY <1>1, <1>2, <1>7 DEF PassInv

(* What a pass leaves is for the next one.                                  *)
LEMMA LeftKeeps ==
    ASSUME PassInv, NEW found, Leaves(found), replans' = found,
           UNCHANGED <<plan, initial, started, spent, pass, index>>,
           tried \subseteq tried', tried' \subseteq Known, gathered' \subseteq EvidenceIds,
           at' = "done", result' # "none"
    PROVE  PassInv'
BY EndKeeps DEF Leaves

(* No plan is left.                                                         *)
LEMMA NothingLeaves == Leaves({})
BY DEF Leaves

(* The steps of a pass, up to its changes, keep the invariants.             *)
LEMMA GateKeeps ==
    ASSUME PassInv, Gate
    PROVE  PassInv'
<1>1. tried' \subseteq Known /\ gathered' \subseteq EvidenceIds /\ index = 1
  BY DEF Gate, Ended, PassInv, PlacesAreTyped, Before
<1>2. CASE at' = "done"
  BY <1>1, <1>2, LeftKeeps, NothingLeaves DEF Gate, Ended, PassEnds, Goes
<1>3. CASE at' # "done"
  BY <1>1, <1>3, MoveKeeps DEF Gate, Ended, PassEnds, Goes, Before, Changing
<1> QED  BY <1>2, <1>3

(* Evidence is collected and a plan is made of it.                          *)
LEMMA CollectKeeps ==
    ASSUME PassInv, Collect
    PROVE  PassInv'
<1>1. gathered \subseteq EvidenceIds /\ index = 1
  BY DEF Collect, PassInv, PlacesAreTyped, Before
<1>2. gathered' \subseteq EvidenceIds
  BY <1>1 DEF Collect
<1> QED  BY <1>1, <1>2, MoveKeeps DEF Collect, Goes, Quiet, Before, Changing

LEMMA RoutePlanKeeps ==
    ASSUME PassInv, RoutePlan
    PROVE  PassInv'
<1>1. /\ gathered \in SUBSET EvidenceIds /\ index = 1 /\ at = "route" /\ tried \subseteq Known
      /\ plan \in Plans /\ pass \in 1 .. MaxPasses /\ ChangesOf(plan) \subseteq started
      /\ plan.exempt => initial.exempt \/ RolloutTried
      /\ result = "none" /\ replans = {}
  BY DEF RoutePlan, PassInv, PlacesAreTyped, PlansArePlans, ChangesAreCovered, Before
<1>2. /\ plan' \in Plans /\ plan'.exempt = plan.exempt
      /\ plan'.changes = <<>> \/ plan'.exempt \/ Covered(plan')
      /\ plan'.invoked \/ ChangesOf(plan') \subseteq ChangesOf(plan)
  <2>1. CASE plan' \in Attached(plan, gathered)
    BY <1>1, <2>1, AttachedIsPlan
  <2>2. CASE plan' = [plan EXCEPT !.changes = <<>>]
    <3>1. plan' \in Plans /\ plan'.exempt = plan.exempt /\ plan'.changes = <<>>
      BY <1>1, <2>2, ShortLists DEF Plans
    <3>2. ChangesOf(plan') = {}
      BY <3>1 DEF ChangesOf
    <3> QED  BY <3>1, <3>2
  <2> QED  BY <2>1, <2>2 DEF RoutePlan
<1>3. UNCHANGED <<initial, started, index, gathered, tried, spent, pass>>
  BY DEF RoutePlan
<1>4. \/ at' = "done" /\ result' = "planned" /\ replans' = {plan'}
      \/ /\ at' \in {"review", "steps"} /\ UNCHANGED <<replans, result>>
         /\ ChangesOf(plan') \subseteq started
  <2>1. CASE ChangesOf(plan') # ChangesOf(plan) /\ plan'.invoked /\ at' # "steps"
    BY <1>1, <2>1 DEF RoutePlan, PassEnds, Goes
  <2>2. CASE ~(ChangesOf(plan') # ChangesOf(plan) /\ plan'.invoked) /\ at' # "steps"
    <3>1. ChangesOf(plan') \subseteq started
      BY <1>1, <1>2, <2>2
    <3>2. at' = "review" /\ UNCHANGED <<replans, result>>
      BY <2>2 DEF RoutePlan, PassEnds, Goes
    <3> QED  BY <3>1, <3>2
  <2>3. CASE at' = "steps"
    <3>1. plan' = [plan EXCEPT !.changes = <<>>] /\ UNCHANGED <<replans, result>>
      BY <2>3 DEF RoutePlan, PassEnds, Goes
    <3>2. plan'.changes = <<>>
      BY <1>1, <3>1 DEF Plans
    <3>3. ChangesOf(plan') = {}
      BY <3>2 DEF ChangesOf
    <3> QED  BY <2>3, <3>1, <3>3
  <2> QED  BY <2>1, <2>2, <2>3
<1>5. PlansArePlans'
  BY <1>2, <1>3, <1>4, SameKinds
     DEF PassInv, PlansArePlans
<1>6. PlacesAreTyped'
  BY <1>1, <1>3, <1>4, SameKinds DEF PassInv, PlacesAreTyped, Before, Changing
<1>7. RolloutTried' <=> RolloutTried
  BY <1>3 DEF RolloutTried
<1>8. Covered(plan)' <=> Covered(plan')
  BY <1>3 DEF Covered, Actions, Executable
<1>9. ChangesOf(plan)' = ChangesOf(plan')
  BY DEF ChangesOf
<1>10. \A q \in replans' : q.exempt => initial.exempt \/ RolloutTried \/ "rollout" \in Actions(plan)'
  <2>1. CASE replans' = {plan'}
    BY <1>1, <1>2, <2>1
  <2> QED  BY <1>1, <1>4, <2>1
<1>11. ChangesAreCovered'
  BY <1>1, <1>2, <1>3, <1>4, <1>7, <1>8, <1>9, <1>10 DEF ChangesAreCovered, Changing
<1> QED  BY <1>5, <1>6, <1>11 DEF PassInv

(* The plan is reviewed and its changes are taken in turn.                  *)
LEMMA ReviewKeeps ==
    ASSUME PassInv, Review
    PROVE  PassInv'
<1>1. /\ tried' \subseteq Known /\ gathered \in SUBSET EvidenceIds /\ gathered' = gathered
      /\ index = 1 /\ at = "review" /\ plan \in Plans /\ pass \in 1 .. MaxPasses
      /\ plan.changes = <<>> \/ plan.exempt \/ Covered(plan)
  BY DEF Review, Ended, PassInv, PlacesAreTyped, PlansArePlans, ChangesAreCovered, Before
<1>2. CASE at' = "steps"
  BY <1>1, <1>2, MoveKeeps DEF Review, Ended, PassEnds, Goes, Before, Changing
<1>3. CASE at' = "done"
  <2>1. PICK found \in Replanned(gathered) :
          PassEnds(IF found = {} THEN "diagnostic_completed" ELSE "planned", found)
    BY <1>3 DEF Review, Goes
  <2>2. Leaves(found)
    BY <1>1, ReplannedLeaves
  <2> QED  BY <1>1, <2>1, <2>2, LeftKeeps DEF Review, Ended, PassEnds
<1> QED  BY <1>2, <1>3 DEF Review, PassEnds, Goes

LEMMA StepsKeeps ==
    ASSUME PassInv, Steps
    PROVE  PassInv'
<1>1. /\ tried' \subseteq Known /\ gathered \in SUBSET EvidenceIds /\ tried' = tried
      /\ index = 1 /\ at = "steps" /\ plan \in Plans /\ pass \in 1 .. MaxPasses
      /\ plan.changes = <<>> \/ plan.exempt \/ Covered(plan)
  BY DEF Steps, PassInv, PlacesAreTyped, PlansArePlans, ChangesAreCovered, Before
<1>2. gathered' \in SUBSET EvidenceIds
  BY <1>1 DEF Steps
<1>3. CASE at' = "bind"
  BY <1>1, <1>2, <1>3, MoveKeeps DEF Steps, PassEnds, Goes, Before, Changing
<1>4. CASE at' = "done"
  <2>1. PICK q \in Attached([plan EXCEPT !.refresh = FALSE], gathered') :
          PassEnds("planned", {q})
    BY <1>4 DEF Steps, Goes
  <2>2. [plan EXCEPT !.refresh = FALSE] \in Plans
        /\ [plan EXCEPT !.refresh = FALSE].exempt = plan.exempt
    BY <1>1 DEF Plans
  <2>3. q \in Plans /\ q.exempt = plan.exempt
    BY <1>1, <1>2, <2>2, AttachedIsPlan
  <2>4. Leaves({q})
    BY <2>3 DEF Leaves
  <2> QED  BY <1>1, <1>2, <2>1, <2>4, LeftKeeps DEF Steps, PassEnds
<1> QED  BY <1>3, <1>4 DEF Steps, PassEnds, Goes

(* A change is bound, asked for and made.                                   *)
LEMMA BindKeeps ==
    ASSUME PassInv, Bind
    PROVE  PassInv'
<1>1. /\ tried' \subseteq Known /\ gathered' \subseteq EvidenceIds
      /\ index = 1 /\ at = "bind" /\ plan \in Plans
      /\ plan.changes = <<>> \/ plan.exempt \/ Covered(plan)
  BY DEF Bind, Ended, PassInv, PlacesAreTyped, PlansArePlans, ChangesAreCovered, Before
<1>2. CASE at' = "done"
  BY <1>1, <1>2, LeftKeeps, NothingLeaves DEF Bind, Ended, PassEnds, Goes
<1>3. CASE at' = "probe"
  BY <1>1, <1>3, MoveKeeps DEF Bind, Ended, PassEnds, Goes, Before, Changing
<1>4. CASE at' = "ask"
  <2>1. plan.changes # <<>> /\ UNCHANGED <<replans, result>>
    BY <1>4 DEF Bind, PassEnds, Goes
  <2>2. plan.changes \in Seq(Known)
    BY <1>1 DEF Plans, ChangeLists
  <2>3. 1 \in DOMAIN plan.changes
    BY <2>1, <2>2
  <2> QED  BY <1>1, <1>4, <2>1, <2>3, MoveKeeps DEF Bind, Ended, Before, Changing
<1> QED  BY <1>2, <1>3, <1>4 DEF Bind, PassEnds, Goes

(* What a write returned is probed.                                         *)
LEMMA ProbeHealthKeeps ==
    ASSUME PassInv, ProbeHealth
    PROVE  PassInv'
<1>1. /\ tried' \subseteq Known /\ gathered \in SUBSET EvidenceIds /\ gathered' = gathered
      /\ plan \in Plans /\ pass \in 1 .. MaxPasses
  BY DEF ProbeHealth, Ended, PassInv, PlacesAreTyped, PlansArePlans
<1>2. CASE PassEnds("completed", {})
  BY <1>1, <1>2, LeftKeeps, NothingLeaves DEF ProbeHealth, Ended, PassEnds
<1>3. CASE \E found \in Replanned(gathered) :
             PassEnds(IF found = {} THEN "diagnostic_completed" ELSE "planned", found)
  <2>1. PICK found \in Replanned(gathered) :
          PassEnds(IF found = {} THEN "diagnostic_completed" ELSE "planned", found)
    BY <1>3
  <2>2. Leaves(found)
    BY <1>1, ReplannedLeaves
  <2> QED  BY <1>1, <2>1, <2>2, LeftKeeps DEF ProbeHealth, Ended, PassEnds
<1> QED  BY <1>2, <1>3 DEF ProbeHealth

(* The steps of the changes, and those after them, keep the invariants.     *)
LEMMA AskKeeps ==
    ASSUME PassInv, Ask
    PROVE  PassInv'
<1>1. /\ tried' \subseteq Known /\ gathered' \subseteq EvidenceIds
      /\ index \in 1 .. 2 /\ at = "ask" /\ index \in DOMAIN plan.changes
      /\ plan.changes = <<>> \/ plan.exempt \/ Covered(plan)
  BY DEF Ask, PassInv, PlacesAreTyped, ChangesAreCovered, Changing
<1>2. CASE at' = "done"
  BY <1>1, <1>2, LeftKeeps, NothingLeaves DEF Ask, PassEnds, Goes
<1>3. CASE at' # "done"
  BY <1>1, <1>3, MoveKeeps DEF Ask, PassEnds, Goes, Before, Changing
<1> QED  BY <1>2, <1>3

LEMMA WriteReturnsKeeps ==
    ASSUME PassInv, WriteReturns
    PROVE  PassInv'
<1>1. /\ gathered' \subseteq EvidenceIds /\ plan \in Plans
      /\ index \in 1 .. 2 /\ at = "write" /\ index \in DOMAIN plan.changes
      /\ plan.changes = <<>> \/ plan.exempt \/ Covered(plan)
  BY DEF WriteReturns, PassInv, PlacesAreTyped, PlansArePlans, ChangesAreCovered, Changing
<1>2. CASE LastChange
  <2>1. at' = "verify" /\ index' = index
    BY <1>2 DEF WriteReturns, Goes
  <2> QED  BY <1>1, <2>1, MoveKeeps DEF WriteReturns, Quiet, Before, Changing
<1>3. CASE ~LastChange
  <2>1. at' = "ask" /\ index' = index + 1
    BY <1>3 DEF WriteReturns, Goes
  <2>2. plan.changes \in Seq(Known) /\ Len(plan.changes) <= 2
    BY <1>1 DEF Plans, ChangeLists
  <2>3. index' \in DOMAIN plan.changes /\ index' \in 1 .. 2
    BY <1>1, <1>3, <2>1, <2>2 DEF LastChange
  <2> QED  BY <1>1, <2>1, <2>3, MoveKeeps DEF WriteReturns, Quiet, Before, Changing
<1> QED  BY <1>2, <1>3

(* The pass is judged by what was verified.                                 *)
LEMMA VerifyKeeps ==
    ASSUME PassInv, Verify
    PROVE  PassInv'
<1>1. /\ tried' \subseteq Known /\ gathered' \subseteq EvidenceIds /\ plan \in Plans
      /\ index \in 1 .. 2 /\ at = "verify" /\ index \in DOMAIN plan.changes
  BY DEF Verify, PassInv, PlacesAreTyped, PlansArePlans
<1>2. CASE passVerified'
  BY <1>1, <1>2, LeftKeeps, NothingLeaves DEF Verify, PassEnds
<1>25. CASE result' = "raised"
  BY <1>1, <1>25, LeftKeeps, NothingLeaves DEF Verify, PassEnds, Goes, PassInv, PlacesAreTyped
<1>3. CASE ~passVerified' /\ Progressive /\ result' # "raised"
  <2>1. replans' = {AbortOf(plan)} /\ at' = "done" /\ result' = "planned"
    BY <1>3 DEF Verify, PassEnds
  <2>2. AbortOf(plan) \in Plans
    BY <1>1, AbortIsPlan
  <2>3. plan.changes \in Seq(Known)
    BY <1>1 DEF Plans, ChangeLists
  <2>4. "rollout" \in Actions(plan)
    <3>1. 1 \in DOMAIN plan.changes
      BY <1>1, <2>3
    <3> QED  BY <1>3, <3>1 DEF Progressive, Actions
  <2> QED  BY <1>1, <2>1, <2>2, <2>4, EndKeeps DEF Verify
<1>4. CASE ~passVerified' /\ ~Progressive /\ result' # "raised"
  <2>1. at' \in {"rollback", "again"} /\ UNCHANGED <<replans, result>>
    BY <1>4 DEF Verify, Goes, PassEnds
  <2> QED  BY <1>1, <2>1, MoveKeeps DEF Verify, Before, Changing
<1> QED  BY <1>2, <1>25, <1>3, <1>4

(* The rollback ends, and another pass may begin.                           *)
LEMMA RollbackEndsKeeps ==
    ASSUME PassInv, RollbackEnds
    PROVE  PassInv'
<1>1. /\ tried' \subseteq Known /\ gathered' \subseteq EvidenceIds
      /\ index \in 1 .. 2 /\ at = "rollback"
  BY DEF RollbackEnds, PassInv, PlacesAreTyped
<1>2. CASE at' = "done"
  BY <1>1, <1>2, LeftKeeps, NothingLeaves DEF RollbackEnds, PassEnds, Goes
<1>3. CASE at' # "done"
  BY <1>1, <1>3, MoveKeeps DEF RollbackEnds, PassEnds, Goes, Before, Changing
<1> QED  BY <1>2, <1>3

LEMMA AgainKeeps ==
    ASSUME PassInv, Again
    PROVE  PassInv'
<1>1. /\ tried \subseteq Known /\ plan \in Plans /\ pass \in 1 .. MaxPasses
  BY DEF PassInv, PlacesAreTyped, PlansArePlans
<1>2. ChangesOf(plan) \subseteq Known
  BY <1>1 DEF Plans, ChangeLists, ChangesOf
<1>3. /\ tried \subseteq tried' /\ tried' \subseteq Known /\ gathered' \in SUBSET EvidenceIds
      /\ UNCHANGED <<plan, initial, started, spent, pass, index>>
  BY <1>1, <1>2 DEF Again
<1>4. PICK found \in Replanned(gathered') \cup Derived :
        \E left \in TakenOver(found, gathered') :
          PassEnds(IF failed THEN "failed" ELSE "unresolved", left)
  BY DEF Again
<1>5. PICK left \in TakenOver(found, gathered') :
        PassEnds(IF failed THEN "failed" ELSE "unresolved", left)
  BY <1>4
<1>6. Leaves(found)
  BY <1>1, <1>3, ReplannedLeaves, DerivedLeaves
<1>7. Leaves(left)
  BY <1>1, <1>3, <1>6, TakenOverLeaves
<1> QED  BY <1>3, <1>5, <1>7, LeftKeeps DEF PassEnds

(* So do the operator's stop, the cancellation and the next pass.           *)
LEMMA SetStopKeeps ==
    ASSUME PassInv, SetStop
    PROVE  PassInv'
<1>1. Plans' = Plans /\ Known' = Known
  BY SameKinds DEF SetStop
<1>2. /\ UNCHANGED <<plan, initial, started, at, index, gathered, replans, tried, spent, pass,
                     result>>
  BY DEF SetStop
<1>3. PlansArePlans' /\ PlacesAreTyped'
  BY <1>1, <1>2 DEF PassInv, PlansArePlans, PlacesAreTyped
<1>4. Covered(plan)' <=> Covered(plan)
  BY <1>2 DEF Covered, Actions, Executable
<1>5. /\ ChangesOf(plan)' = ChangesOf(plan) /\ Actions(plan)' = Actions(plan)
      /\ RolloutTried' <=> RolloutTried
  BY <1>2 DEF ChangesOf, Actions, RolloutTried
<1>6. ChangesAreCovered'
  BY <1>2, <1>4, <1>5 DEF PassInv, ChangesAreCovered
<1> QED  BY <1>3, <1>6 DEF PassInv

(* The job is cancelled at any place.                                       *)
LEMMA PassCancelledKeeps ==
    ASSUME PassInv, PassCancelled
    PROVE  PassInv'
<1>1. tried' \subseteq Known /\ gathered' \subseteq EvidenceIds
  BY DEF PassCancelled, Ended, PassInv, PlacesAreTyped
<1> QED  BY <1>1, LeftKeeps, NothingLeaves DEF PassCancelled, Ended, PassEnds

LEMMA NextPassKeeps ==
    ASSUME PassInv, NextPass
    PROVE  PassInv'
<1>1. /\ tried \subseteq Known /\ spent \subseteq Skills /\ gathered \subseteq EvidenceIds
      /\ plan \in Plans /\ initial \in Plans /\ replans \subseteq Plans
      /\ pass \in 1 .. MaxPasses
  BY DEF PassInv, PlacesAreTyped, PlansArePlans
<1>2. PICK next \in replans : plan' = Continued(next)
  BY DEF NextPass
<1>3. /\ plan' \in Plans /\ plan'.exempt = (next.exempt \/ initial.exempt)
  BY <1>1, <1>2, ContinuedIsPlan
<1>4. /\ initial' = initial /\ replans' = {} /\ pass' = pass + 1 /\ pass < MaxPasses
      /\ at' = "gate" /\ index' = 1 /\ result' = "none" /\ gathered' = gathered
      /\ started' = ChangesOf(plan') /\ tried' = tried \cup ChangesOf(plan)
  BY DEF NextPass
<1>5. Plans' = Plans /\ Known' = Known
  BY <1>4, SameKinds
<1>6. pass' \in 1 .. MaxPasses
  BY <1>1, <1>4, PassesAssumption
<1>7. PlansArePlans'
  BY <1>1, <1>3, <1>4, <1>5, <1>6 DEF PlansArePlans
<1>8. ChangesOf(plan) \subseteq Known
  BY <1>1 DEF Plans, ChangeLists, ChangesOf
<1>9. plan.skill \in Skills \cup {NoSkill}
  BY <1>1 DEF Plans
<1>10. spent' \subseteq Skills
  BY <1>1, <1>9 DEF NextPass
<1>11. PlacesAreTyped'
  BY <1>1, <1>4, <1>5, <1>8, <1>10 DEF PlacesAreTyped, Before, Changing
<1>12. plan'.exempt => initial.exempt \/ RolloutTried'
  <2>1. next.exempt => initial.exempt \/ RolloutTried \/ "rollout" \in Actions(plan)
    BY DEF PassInv, ChangesAreCovered
  <2>2. RolloutTried \/ "rollout" \in Actions(plan) => RolloutTried'
    BY <1>4 DEF RolloutTried, Actions, ChangesOf
  <2> QED  BY <1>3, <2>1, <2>2
<1>13. ChangesOf(plan)' = ChangesOf(plan')
  BY DEF ChangesOf
<1>14. ChangesAreCovered'
  BY <1>4, <1>12, <1>13 DEF ChangesAreCovered, Changing
<1> QED  BY <1>7, <1>11, <1>14 DEF PassInv

(* The first plans satisfy the invariant.                                   *)
LEMMA PassInvInit ==
    ASSUME PassInit
    PROVE  PassInv
<1>1. initial \in Plans /\ plan = initial
  BY FirstPlansArePlans DEF PassInit
<1>2. PlansArePlans
  BY <1>1, PassesAssumption DEF PassInit, PlansArePlans
<1>3. PlacesAreTyped
  BY DEF PassInit, PlacesAreTyped, Before, Changing
<1>4. ChangesAreCovered
  BY <1>1 DEF PassInit, ChangesAreCovered, Changing
<1> QED  BY <1>2, <1>3, <1>4 DEF PassInv

(* Every step keeps the invariant.                                          *)
LEMMA PassInvStep ==
    ASSUME PassInv, [PassNext]_passVars
    PROVE  PassInv'
<1>1. CASE UNCHANGED passVars
  <2>1. UNCHANGED <<plan, initial, started, at, index, gathered, replans, tried, spent, pass,
                    result>>
    BY <1>1 DEF passVars
  <2>2. Plans' = Plans /\ Known' = Known
    BY <2>1, SameKinds
  <2>3. PlansArePlans' /\ PlacesAreTyped'
    BY <2>1, <2>2 DEF PassInv, PlansArePlans, PlacesAreTyped
  <2>4. Covered(plan)' <=> Covered(plan)
    BY <2>1 DEF Covered, Actions, Executable
  <2>5. /\ ChangesOf(plan)' = ChangesOf(plan) /\ Actions(plan)' = Actions(plan)
        /\ RolloutTried' <=> RolloutTried
    BY <2>1 DEF ChangesOf, Actions, RolloutTried
  <2>6. ChangesAreCovered'
    BY <2>1, <2>4, <2>5 DEF PassInv, ChangesAreCovered
  <2> QED  BY <2>3, <2>6 DEF PassInv
<1>2. CASE PassNext
  BY <1>2, GateKeeps, CollectKeeps, RoutePlanKeeps, ReviewKeeps, StepsKeeps, BindKeeps,
     AskKeeps, WriteReturnsKeeps, VerifyKeeps, RollbackEndsKeeps, ProbeHealthKeeps,
     AgainKeeps, SetStopKeeps, PassCancelledKeeps, NextPassKeeps DEF PassNext
<1> QED  BY <1>1, <1>2

(* Every state of the passes satisfies the invariants.                      *)
THEOREM PassInvariant == PassSpec => []PassInv
BY PassInvInit, PassInvStep, PTL DEF PassSpec

(* The state of the passes has its types.                                   *)
THEOREM PassTypeCorrect == PassSpec => []PassTypeOK
<1>1. PassInv => PassTypeOK
  <2> SUFFICES ASSUME PassInv
               PROVE  PassTypeOK
    OBVIOUS
  <2>1. ChangesOf(AbortOf(plan)) = {AbortChange}
    <3>1. plan \in Plans
      BY DEF PassInv, PlansArePlans
    <3>2. AbortOf(plan).changes = <<AbortChange>>
      BY <3>1 DEF AbortOf, AbortChange, Plans
    <3> QED  BY <3>2 DEF ChangesOf
  <2> QED  BY <2>1 DEF PassInv, PlansArePlans, PlacesAreTyped, Plans, Known, PassTypeOK
<1> QED  BY <1>1, PassInvariant, PTL

(* A change is submitted under a contract that was examined in the pass     *)
(* that submits it, and is one the operator has seen.                       *)
THEOREM ContractsHold == PassSpec => []SubmittedUnderContract
<1>1. PassInv => SubmittedUnderContract
  <2> SUFFICES ASSUME PassInv, at = "write"
               PROVE  LET owner == plan.skill
                          change == plan.changes[index]
                      IN /\ change \in started
                         /\ \/ plan.exempt /\ (initial.exempt \/ \E c \in tried : c.action = "rollout")
                            \/ /\ plan.routedIn = pass
                               /\ owner.ready /\ ~owner.router /\ Missing(owner, plan.collected) = {}
                               /\ change.action \in owner.allowed
                               /\ owner \notin spent \/ owner \in Executable
    BY DEF SubmittedUnderContract
  <2>1. /\ index \in DOMAIN plan.changes /\ ChangesOf(plan) \subseteq started
        /\ plan.changes = <<>> \/ plan.exempt \/ Covered(plan)
        /\ plan.exempt => initial.exempt \/ RolloutTried
        /\ plan.changes \in Seq(Known)
    BY DEF PassInv, PlansArePlans, PlacesAreTyped, ChangesAreCovered, Changing, Plans, ChangeLists
  <2>2. plan.changes # <<>>
    BY <2>1
  <2>3. plan.changes[index] \in started /\ plan.changes[index].action \in Actions(plan)
    BY <2>1 DEF ChangesOf, Actions
  <2> QED  BY <2>1, <2>2, <2>3 DEF Covered, RolloutTried
<1> QED  BY <1>1, PassInvariant, PTL

(* Nothing was submitted before the loop of the changes, and after a        *)
(* hardening that did not hold the way on is by its rollback.               *)
HardeningFollows ==
    /\ at \in Before => ~wrote
    /\ at = "again" => undone \/ ~(plan.stage = "hardening" /\ plan.rollback)
    /\ FailedHardeningIsUndone

(* A hardening that was submitted and did not hold is undone before the     *)
(* pass ends.                                                               *)
THEOREM HardeningsUndone == PassSpec => []FailedHardeningIsUndone
<1>1. PassInit => HardeningFollows
  BY DEF PassInit, HardeningFollows, FailedHardeningIsUndone
<1>2. HardeningFollows /\ [PassNext]_passVars => HardeningFollows'
  <2> SUFFICES ASSUME HardeningFollows, [PassNext]_passVars
               PROVE  HardeningFollows'
    OBVIOUS
  <2> USE DEF HardeningFollows, FailedHardeningIsUndone, Before, PassEnds, Goes, Ended, Quiet
  <2>1. CASE UNCHANGED passVars
    BY <2>1 DEF passVars, Progressive
  <2>2. CASE Gate
    BY <2>2 DEF Gate
  <2>3. CASE Collect
    BY <2>3 DEF Collect
  <2>4. CASE RoutePlan
    BY <2>4 DEF RoutePlan
  <2>5. CASE Review
    BY <2>5 DEF Review
  <2>6. CASE Steps
    BY <2>6 DEF Steps
  <2>7. CASE Bind
    BY <2>7 DEF Bind
  <2>8. CASE Ask
    BY <2>8 DEF Ask
  <2>9. CASE WriteReturns
    BY <2>9 DEF WriteReturns
  <2>10. CASE Verify
    BY <2>10 DEF Verify, RollbackDue, Progressive
  <2>11. CASE RollbackEnds
    BY <2>11 DEF RollbackEnds
  <2>12. CASE ProbeHealth
    BY <2>12 DEF ProbeHealth
  <2>13. CASE Again
    BY <2>13 DEF Again
  <2>14. CASE SetStop
    BY <2>14 DEF SetStop
  <2>15. CASE PassCancelled
    BY <2>15 DEF PassCancelled
  <2>16. CASE NextPass
    BY <2>16 DEF NextPass
  <2> QED  BY <2>1, <2>2, <2>3, <2>4, <2>5, <2>6, <2>7, <2>8, <2>9, <2>10, <2>11, <2>12, <2>13,
              <2>14, <2>15, <2>16 DEF PassNext
<1>3. HardeningFollows => FailedHardeningIsUndone
  BY DEF HardeningFollows
<1> QED  BY <1>1, <1>2, <1>3, PTL DEF PassSpec

-----------------------------------------------------------------------------
(* PermissionLadder.                                                        *)

(* The stages of the way down; the hardening comes after them. *)
Rungs == Stages \ {"nonroot_hardening"}

(* Everything that was accepted is in the history of the incident, the      *)
(* stage of the plan that is being verified apart: a plan may lose its own  *)
(* record to another Skill, the incident does not.                          *)
AcceptedIsRemembered ==
    rollbackTo = "none" =>
        accepted \subseteq
            history \cup (IF ladderAt \in {"verify", "done"} THEN {planStage} ELSE {})

(* Before the hardening nothing of it has been accepted, and the first plan *)
(* of the job is not one; with it only its own change is left.              *)
HardeningComesLast ==
    /\ rollbackTo \in {"none", "root"}
    /\ firstStage \in Stages \cup {"none"} /\ firstStages \subseteq Stages
    /\ rollbackTo = "none" =>
          "nonroot_hardening" \notin accepted /\ firstStage # "nonroot_hardening"
    /\ rollbackTo = "root" => ladderAt \in {"approve", "verify", "refused", "done"}
    /\ rollbackTo = "root" /\ ladderAt = "approve" => offered = "nonroot_hardening"

(* A change that is put up is the stage of its plan, or another Skill's; one *)
(* that is put up or failed was not accepted before.                        *)
OfferIsOfPlan ==
    /\ ladderAt \in {"approve", "verify", "refused", "blocked"} =>
          offered \in {"other", planStage}
    /\ ladderAt \in {"refused", "blocked"} /\ rollbackTo = "none" => offered \notin accepted

(* The inductive invariant of the stages.                                   *)
LadderInv ==
    /\ LadderTypeOK /\ accepted \subseteq Stages
    /\ AcceptedIsRemembered /\ HardeningComesLast /\ OfferIsOfPlan /\ EachStageOnce

-----------------------------------------------------------------------------
(* What the choice of a stage goes by.                                      *)

(* What is shown and what was tried are stages.                             *)
LEMMA ShownIsStages ==
    ASSUME NEW S, S \subseteq Stages
    PROVE  UNION {Shown(s) : s \in S} \subseteq Stages
BY DEF Shown, Stages

LEMMA AttemptedIsStages ==
    ASSUME LadderTypeOK, NEW w, NEW p, NEW live \in BOOLEAN
    PROVE  Attempted(w, p, live) \subseteq Stages /\ history \subseteq Attempted(w, p, live)
<1>1. UNION {Shown(s) : s \in lastChanges} \subseteq Stages
  BY ShownIsStages DEF LadderTypeOK
<1>2. planStages \subseteq Stages /\ history \subseteq Stages
  BY DEF LadderTypeOK
<1>3. {"nonroot_group"} \subseteq Stages /\ {"root"} \subseteq Stages
  BY DEF Stages
<1>4. (UNION {Shown(s) : s \in lastChanges}) \cup planStages \cup history
          \cup {"nonroot_group"} \cup {"root"} \subseteq Stages
  BY <1>1, <1>2, <1>3
<1> QED
  BY <1>4 DEF Attempted

(* _permission_recovery_followup proposes nothing that was attempted. *)
LEMMA NextStageIsNew ==
    ASSUME NEW w, NEW p, NEW live \in BOOLEAN, NEW forced \in BOOLEAN, NEW named,
           NEW mounted \in BOOLEAN
    PROVE  NextStage(w, p, live, forced, named, mounted)
               \in (Rungs \ Attempted(w, p, live)) \cup {"none"}
<1> DEFINE before == Attempted(w, p, live)
           uid == Identity(w, p, live)
           force == forced /\ "nonroot_group" \in before
           probes == ~force /\ "root" \notin before /\ uid # "uid"
                     /\ "identity_probe" \notin before /\ named = {"pod", "container"}
           groups == ~force /\ uid = "uid" /\ "nonroot_group" \notin before
           repairs == ~force /\ "init_owner" \notin before /\ uid = "uid"
                      /\ "nonroot_group" \in before /\ mounted
           stage == NextStage(w, p, live, forced, named, mounted)
<1> {"identity_probe", "nonroot_group", "init_owner", "root"} \subseteq Rungs
  BY DEF Rungs, Stages
<1>1. stage = CASE probes -> "identity_probe"
                [] groups -> "nonroot_group"
                [] repairs -> "init_owner"
                [] OTHER -> IF "root" \notin before /\ "container" \in named
                            THEN "root" ELSE "none"
  BY DEF NextStage
<1> HIDE DEF stage, before, uid
<1>2. stage \in (Rungs \ before) \cup {"none"}
  <2>1. CASE probes
    BY <1>1, <2>1
  <2>2. CASE groups
    BY <1>1, <2>2
  <2>3. CASE repairs
    BY <1>1, <2>3
  <2>4. CASE ~probes /\ ~groups /\ ~repairs
    BY <1>1, <2>4
  <2> QED
    BY <2>1, <2>2, <2>3, <2>4
<1> QED
  BY <1>2 DEF stage, before

-----------------------------------------------------------------------------
(* The plans.                                                               *)

(* Nothing was tried at first.                                              *)
LEMMA LadderInitInv == LadderInit => LadderInv
BY DEF LadderInit, LadderInv, LadderTypeOK, AcceptedIsRemembered, HardeningComesLast,
       OfferIsOfPlan, EachStageOnce, Stages

(* The next stage is one that was not tried.                                *)
LEMMA HandleKeepsInv ==
    ASSUME LadderInv, Handle
    PROVE  LadderInv'
<1>1. PICK w \in {liveContext, "unread"}, p \in {podContext, "unread"},
           live \in BOOLEAN, forced \in BOOLEAN, mounted \in BOOLEAN,
           named \in SUBSET {"pod", "container"} :
         /\ offered' = NextStage(w, p, live, forced, named, mounted)
         /\ planStages' = Attempted(w, p, live)
  BY DEF Handle
<1>2. offered' \in (Rungs \ Attempted(w, p, live)) \cup {"none"}
  BY <1>1, NextStageIsNew
<1>3. Attempted(w, p, live) \subseteq Stages /\ history \subseteq Attempted(w, p, live)
  BY AttemptedIsStages DEF LadderInv
<1>4. rollbackTo = "none"
  BY DEF Handle, LadderInv, LadderTypeOK, HardeningComesLast
<1>5. accepted \subseteq history
  BY <1>4 DEF Handle, LadderInv, AcceptedIsRemembered
<1>6. offered' \notin accepted
  BY <1>2, <1>3, <1>5 DEF LadderInv, Stages
<1>7. LadderTypeOK'
  BY <1>1, <1>2, <1>3 DEF Handle, LadderInv, LadderTypeOK, Rungs, Stages, LadderOnly, SameJob
<1>8. AcceptedIsRemembered' /\ HardeningComesLast' /\ OfferIsOfPlan'
  BY <1>4, <1>5 DEF Handle, LadderInv, AcceptedIsRemembered, HardeningComesLast, OfferIsOfPlan,
                    LadderOnly, SameJob
<1>9. EachStageOnce' /\ accepted' \subseteq Stages
  BY <1>6 DEF Handle, EachStageOnce, LadderOnly, LadderInv
<1> QED
  BY <1>7, <1>8, <1>9 DEF LadderInv

(* Another Skill, a recheck and the write keep the stage of the plan.       *)
LEMMA OtherSkillKeepsInv ==
    ASSUME LadderInv, OtherSkill
    PROVE  LadderInv'
<1>1. /\ rollbackTo = "none" /\ firstStage \in Stages \cup {"none"} /\ firstStages \subseteq Stages
      /\ firstStage # "nonroot_hardening"
  BY DEF OtherSkill, LadderInv, HardeningComesLast
<1>2. LadderTypeOK'
  BY <1>1 DEF OtherSkill, LadderInv, LadderTypeOK, Stages, LadderOnly, SameJob
<1> QED
  BY <1>1, <1>2 DEF OtherSkill, LadderInv, AcceptedIsRemembered, HardeningComesLast,
                    OfferIsOfPlan, EachStageOnce, LadderOnly, SameJob, Stages

LEMMA RecheckKeepsInv ==
    ASSUME LadderInv, Recheck
    PROVE  LadderInv'
<1>1. rollbackTo = "none"
  BY DEF Recheck, LadderInv, HardeningComesLast
<1> QED
  BY <1>1 DEF Recheck, LadderInv, LadderTypeOK, AcceptedIsRemembered, HardeningComesLast,
              OfferIsOfPlan, EachStageOnce, SameJob

(* What is put up again is what failed. *)
LEMMA RetryKeepsInv ==
    ASSUME LadderInv, Retry
    PROVE  LadderInv'
<1>1. rollbackTo = "none" /\ planStage # "nonroot_hardening"
  BY DEF Retry, LadderInv, LadderTypeOK, HardeningComesLast
<1> QED
  BY <1>1 DEF Retry, LadderInv, LadderTypeOK, AcceptedIsRemembered, HardeningComesLast,
              OfferIsOfPlan, EachStageOnce

-----------------------------------------------------------------------------
(* The execution.                                                           *)

LEMMA SendKeepsInv ==
    ASSUME LadderInv, Send_
    PROVE  LadderInv'
<1>1. Enforced \in Stages => Enforced = planStage
  BY DEF Enforced, LadderInv, OfferIsOfPlan, Send_, Stages
<1>2. \/ accepted' = accepted /\ ladderAt' = "refused"
      \/ accepted' = accepted \cup ({Enforced} \cap Stages) /\ ladderAt' = "verify"
  BY DEF Send_
<1>3. liveContext' \in Contexts
  BY DEF Send_, LadderInv, LadderTypeOK, ContextAfter, Contexts
<1>4. planStages' \subseteq Stages
  BY DEF Send_, LadderInv, LadderTypeOK
<1>5. /\ UNCHANGED <<podContext, offered, planStage, history, lastChanges, rollbackTo>>
      /\ UNCHANGED <<firstStage, firstStages>>
  BY DEF Send_, SameJob
<1>6. LadderTypeOK'
  BY <1>2, <1>3, <1>4, <1>5 DEF LadderInv, LadderTypeOK
<1>7. AcceptedIsRemembered'
  BY <1>1, <1>2, <1>5 DEF LadderInv, AcceptedIsRemembered, Send_
<1>8. HardeningComesLast'
  BY <1>1, <1>2, <1>5 DEF LadderInv, HardeningComesLast, LadderTypeOK
<1>9. OfferIsOfPlan' /\ EachStageOnce' /\ accepted' \subseteq Stages
  BY <1>2, <1>5 DEF LadderInv, OfferIsOfPlan, EachStageOnce, Send_
<1> QED
  BY <1>6, <1>7, <1>8, <1>9 DEF LadderInv

(* A stage that did not help, or could not be made, is remembered. *)
LEMMA StaysBrokenKeepsInv ==
    ASSUME LadderInv, StaysBroken \/ ChannelBlocked
    PROVE  LadderInv'
<1>1. planStage \in Stages \cup {"none"}
  BY DEF LadderInv, LadderTypeOK
<1>2. LadderTypeOK'
  BY <1>1 DEF StaysBroken, ChannelBlocked, Remembered, LadderInv, LadderTypeOK
<1>3. AcceptedIsRemembered'
  BY <1>1 DEF StaysBroken, ChannelBlocked, Remembered, LadderInv, AcceptedIsRemembered, Stages
<1> QED
  BY <1>2, <1>3 DEF StaysBroken, ChannelBlocked, LadderInv, HardeningComesLast, OfferIsOfPlan,
                    EachStageOnce, SameJob

(* Recovery, and the hardening after it, put up no other stage.             *)
LEMMA RecoversKeepsInv ==
    ASSUME LadderInv, Recovers
    PROVE  LadderInv'
<1>1. CASE ladderAt' = "done" /\ UNCHANGED <<offered, planStage, planStages, rollbackTo>>
           /\ SameJob
  BY <1>1 DEF Recovers, LadderInv, LadderTypeOK, AcceptedIsRemembered, HardeningComesLast,
              OfferIsOfPlan, EachStageOnce, SameJob
<1>2. CASE /\ offered' = "nonroot_hardening" /\ planStage' = "nonroot_hardening"
           /\ rollbackTo' = "root" /\ ladderAt' = "approve" /\ planStages' = {}
  BY <1>2 DEF Recovers, LadderInv, LadderTypeOK, AcceptedIsRemembered, HardeningComesLast,
              OfferIsOfPlan, EachStageOnce, Stages
<1> QED
  BY <1>1, <1>2 DEF Recovers

LEMMA HardeningKeepsInv ==
    ASSUME LadderInv, HardeningEnds
    PROVE  LadderInv'
<1>1. liveContext' \in Contexts
  BY DEF HardeningEnds, LadderInv, LadderTypeOK, HardeningComesLast, Contexts
<1> QED
  BY <1>1 DEF HardeningEnds, LadderInv, LadderTypeOK, AcceptedIsRemembered, HardeningComesLast,
              OfferIsOfPlan, EachStageOnce, SameJob

LEMMA ContextsKeepInv ==
    ASSUME LadderInv, PodFollows \/ EditContext \/ UNCHANGED ladderVars
    PROVE  LadderInv'
<1>1. liveContext' \in Contexts /\ podContext' \in Contexts
  BY DEF PodFollows, EditContext, ladderVars, LadderInv, LadderTypeOK
<1>2. ClusterMoves
  BY DEF PodFollows, EditContext, ladderVars, ClusterMoves
<1> QED
  BY <1>1, <1>2 DEF ClusterMoves, LadderInv, LadderTypeOK, AcceptedIsRemembered,
                    HardeningComesLast, OfferIsOfPlan, EachStageOnce

(* Every step keeps the invariant.                                          *)
LEMMA LadderStep == LadderInv /\ [LadderNext]_ladderVars => LadderInv'
BY HandleKeepsInv, OtherSkillKeepsInv, RecheckKeepsInv, RetryKeepsInv, SendKeepsInv, StaysBrokenKeepsInv,
   RecoversKeepsInv, HardeningKeepsInv, ContextsKeepInv
   DEF LadderNext

(* The inductive invariant of the ladder: the history of the incident has   *)
(* every stage that was accepted, whatever becomes of the plans.            *)
THEOREM LadderInvariant == LadderSpec => []LadderInv
BY LadderInitInv, LadderStep, PTL DEF LadderSpec

(* Plans, stages and contexts are well formed, and the plan of a hardening  *)
(* is the one with a rollback.                                              *)
THEOREM LadderTypeCorrect == LadderSpec => []LadderTypeOK
<1>1. LadderInv => LadderTypeOK
  BY DEF LadderInv
<1> QED
  BY <1>1, LadderInvariant, PTL

(* In an incident of any length no stage that the cluster accepted is put   *)
(* up again, neither by _permission_recovery_followup nor by a retry.       *)
THEOREM StagesOnce == LadderSpec => []EachStageOnce
<1>1. LadderInv => EachStageOnce
  BY DEF LadderInv
<1> QED
  BY <1>1, LadderInvariant, PTL
=============================================================================
