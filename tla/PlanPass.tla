------------------------------- MODULE PlanPass -------------------------------
(***************************************************************************)
(* The passes of _execute_ops_plan_once of backend/app/application.py over *)
(* one incident: release gate, evidence, routing to a Skill, review of the *)
(* changes against the evidence, diagnostic steps, binding and access      *)
(* check, approval and submission of each change, verification, rollback   *)
(* of a failed hardening, and the plans a pass leaves for the next one.    *)
(*                                                                         *)
(* A pass may be cancelled at any await.  What evidence shows, which Skill *)
(* matches best and with what confidence, and what a runbook or a model    *)
(* proposes is open.  OpsJob has the life of the job around the passes.    *)
(***************************************************************************)
EXTENDS Naturals, Sequences, FiniteSets

CONSTANTS
    Skills,        \* [name, ready, router, allowed, needs, any, makes, staged]: may
                   \* its changes be executed, is it routing_only, its allowed_actions,
                   \* evidence_required and groups of evidence_any_of, the changes its
                   \* handler can come up with, and whether those carry a
                   \* permission_recovery_stage
    NoSkill,
    EvidenceIds,   \* what _collected_skill_evidence can find
    Proposals,     \* changes: [action, variant]
    RunbookActions,\* the allowed actions of each runbook that evidence may prove
    MaxPasses      \* bound: passes

ASSUME SkillsAssumption ==
    /\ NoSkill \notin Skills
    /\ \A s \in Skills : /\ s.needs \subseteq EvidenceIds /\ s.any \subseteq SUBSET EvidenceIds
                         /\ s.makes \subseteq Proposals
ASSUME PassesAssumption == MaxPasses \in Nat \ {0} /\ RunbookActions # {}

VARIABLES
    plan,      \* the plan of this pass
    initial,   \* initial_plan of the job
    started,   \* the changes it came with, those the operator has seen
    at,        \* where the pass is
    index,     \* the change of the loop
    gathered,  \* the evidence of the pass
    failed,    \* some change failed or was blocked
    wrote,     \* some change was submitted
    replans,   \* plans found on the way
    tried,     \* _attempted_change_fingerprints
    spent,     \* _attempted_skill_ids
    stopping,  \* the cancel event
    pass, result,
    passVerified,  \* verification["recovered"]
    undone     \* the rollback_change was submitted

passVars == <<plan, initial, started, at, index, gathered, failed, wrote, replans, tried,
              spent, stopping, pass, result, passVerified, undone>>

Actions(p) == {p.changes[i].action : i \in DOMAIN p.changes}
ChangesOf(p) == {p.changes[i] : i \in DOMAIN p.changes}

\* invoked is skill_handler_invoked, owned skill_runtime, stage a
\* permission_recovery_stage, rollback a rollback_change, exempt
\* skill_execution_exempt.
NewPlan(changes) ==
    [changes |-> changes, skill |-> NoSkill, collected |-> {}, routedIn |-> 0,
     refresh |-> FALSE, invoked |-> FALSE, owned |-> FALSE, stage |-> "none",
     rollback |-> FALSE, exempt |-> FALSE]

-----------------------------------------------------------------------------
(* Routing.                                                                 *)

\* Skills with a handler.
Executable == {s \in Skills : s.makes # {}}

\* _materialize_executable_skill: the handler's plan on top of the plan.
Materialized(p, s) ==
    {[p EXCEPT !.changes = changes, !.owned = TRUE, !.skill = s,
               !.stage = IF s.staged THEN "recovery" ELSE @] :
        changes \in {<<>>} \cup {<<c>> : c \in s.makes}}

\* _collected_skill_evidence against the contract of the Skill: what it
\* requires, and the groups of which none was found (an empty group asks for
\* nothing).
Missing(s, ids) == (s.needs \ ids) \cup UNION {group \in s.any : group \cap ids = {}}

\* Mutant: the contract is not looked at.
AuthorizedWithoutEvidence(s, ids, sure) == s.ready /\ sure /\ ~s.router

Authorized(s, ids, sure) == s.ready /\ Missing(s, ids) = {} /\ sure /\ ~s.router

\* The changes the Skill allows, in their order (SelectSeq, in a form that the
\* provers can reason about).
AllowedOf(changes, s) ==
    LET kept == {i \in DOMAIN changes : changes[i].action \in s.allowed}
        Rank(i) == Cardinality({j \in kept : j <= i})
    IN [k \in 1 .. Cardinality(kept) |-> changes[CHOOSE i \in kept : Rank(i) = k]]

\* The best match takes the plan: it keeps the changes it allows, or has its
\* handler make them anew; without authority it keeps none, and a gap in its
\* evidence becomes a step.
RoutedTo(p, ids, s, sure) ==
    LET routed == [p EXCEPT !.skill = s, !.collected = ids, !.routedIn = pass,
                            !.refresh = @ \/ Missing(s, ids) # {}]
        Kept(q) == [q EXCEPT !.changes = AllowedOf(@, s)]
    IN IF ~Authorized(s, ids, sure) THEN {[routed EXCEPT !.changes = <<>>]}
       ELSE {Kept(routed)} \cup {Kept([q EXCEPT !.invoked = TRUE]) :
                                 q \in UNION {Materialized(routed, x) : x \in {s} \cap Executable}}

\* Skills that failed in this incident do not match again, unless they can
\* continue: those with a handler.
Matching == {s \in Skills : s \notin spent} \cup Executable

Attached(p, ids) ==
    IF p.exempt THEN {p}
    ELSE {[p EXCEPT !.changes = <<>>]}
         \cup UNION {RoutedTo(p, ids, s, sure) : s \in Matching, sure \in BOOLEAN}

\* _normalize_planner_change: what may be proposed is in the catalog.
Candidates == {c \in Proposals : c \notin tried \cup ChangesOf(plan)}

\* _evidence_based_replan: the handler of a proven permission or storage
\* cause, or one new change that some Skill takes; nothing when the
\* router or the model gives up.
Replanned(ids) ==
    {{}}
    \cup {{q} : q \in UNION {Materialized(plan, s) : s \in Executable}}
    \cup {{q} : q \in {r \in UNION {Attached(NewPlan(<<c>>), ids) : c \in Candidates} :
                          r.changes # <<>>}}

-----------------------------------------------------------------------------
(* A pass up to its changes.                                                *)

PassEnds(status, alternatives) ==
    /\ result' = status /\ replans' = alternatives /\ at' = "done"
Ended == UNCHANGED <<plan, initial, started, index, gathered, failed, wrote, tried, spent,
                     stopping, pass, passVerified, undone>>
Goes(place) == at' = place
Quiet == UNCHANGED <<initial, started, stopping, pass, result, spent, passVerified, undone>>

Gate ==
    /\ at = "gate"
    /\ \/ stopping /\ PassEnds("cancelled", {}) /\ Ended
       \/ ~stopping /\ PassEnds("blocked", {}) /\ Ended
       \/ ~stopping /\ Goes("collect") /\ Ended /\ UNCHANGED <<replans, result>>

\* The evidence of an earlier pass is used again while it is recent.
Collect ==
    /\ at = "collect"
    /\ \E ids \in SUBSET EvidenceIds : gathered' \in {ids, ids \cup gathered}
    /\ Goes("route")
    /\ UNCHANGED <<plan, index, failed, wrote, replans, tried>> /\ Quiet

\* A plan with other changes than the operator has seen is not executed but
\* put up as a new one; without evidence nothing is changed.
RoutePlan ==
    /\ at = "route"
    /\ \/ /\ plan' \in Attached(plan, gathered)
          /\ IF ChangesOf(plan') # ChangesOf(plan) /\ plan'.invoked
             THEN PassEnds("planned", {plan'})
             ELSE Goes("review") /\ UNCHANGED <<replans, result>>
       \/ /\ gathered = {}
          /\ plan' = [plan EXCEPT !.changes = <<>>]
          /\ Goes("steps") /\ UNCHANGED <<replans, result>>
    /\ UNCHANGED <<initial, started, index, gathered, failed, wrote, tried, spent, stopping,
                   pass, passVerified, undone>>

\* _preflight_evidence_conflict: actions that the proven runbook does not
\* have turn the pass into a plan for the next one.
Review ==
    /\ at = "review"
    /\ \/ Goes("steps") /\ UNCHANGED <<replans, result>>
       \/ /\ plan.changes # <<>>
          /\ \E proven \in RunbookActions : ~(Actions(plan) \subseteq proven)
          /\ \E found \in Replanned(gathered) :
               PassEnds(IF found = {} THEN "diagnostic_completed" ELSE "planned", found)
    /\ Ended

\* The steps only read.  The step that fills a gap in the evidence of the
\* Skill routes once more, with what it finds for the next pass.
Steps ==
    /\ at = "steps" /\ ~stopping
    /\ \/ Goes("bind") /\ UNCHANGED <<gathered, replans, result>>
       \/ /\ plan.refresh
          /\ \E ids \in SUBSET EvidenceIds : gathered' = gathered \cup ids
          /\ \E q \in Attached([plan EXCEPT !.refresh = FALSE], gathered') :
               IF plan.changes = <<>> /\ q.changes # <<>>
               THEN PassEnds("planned", {q})
               ELSE Goes("bind") /\ UNCHANGED <<replans, result>>
    /\ UNCHANGED <<plan, initial, started, index, failed, wrote, tried, spent, stopping, pass,
                   passVerified, undone>>

\* The root contract, one cluster for all changes, and the access review.
Bind ==
    /\ at = "bind"
    /\ \/ plan.changes # <<>> /\ PassEnds("blocked", {})
       \/ Goes(IF plan.changes = <<>> THEN "probe" ELSE "ask")
          /\ UNCHANGED <<replans, result>>
    /\ Ended

-----------------------------------------------------------------------------
(* The changes.                                                             *)

\* Mutant: off by one.
PastLastChange == index > Len(plan.changes)

LastChange == index = Len(plan.changes)

Ask ==
    /\ at = "ask"
    /\ \/ ~stopping /\ Goes("write") /\ wrote' = TRUE
          /\ UNCHANGED <<replans, result>>
       \/ PassEnds("cancelled", {}) /\ UNCHANGED wrote
    /\ UNCHANGED <<plan, initial, started, index, gathered, failed, tried, spent, stopping,
                   pass, passVerified, undone>>

\* After a failure the loop goes on.
WriteReturns ==
    /\ at = "write"
    /\ failed' \in {failed, TRUE}
    /\ IF LastChange THEN Goes("verify") /\ UNCHANGED index
       ELSE Goes("ask") /\ index' = index + 1
    /\ UNCHANGED <<plan, gathered, wrote, replans, tried>> /\ Quiet

\* Mutant: a change that failed is not rolled back.
RollbackOfAccepted == plan.stage = "hardening" /\ plan.rollback /\ ~stopping /\ ~failed

\* A hardening that did not hold has a rollback.
RollbackDue == plan.stage = "hardening" /\ plan.rollback /\ ~stopping

Progressive == plan.changes[1].action = "rollout" /\ ~failed
AbortOf(p) == [p EXCEPT !.changes = <<[action |-> "abort", variant |-> 1]>>, !.exempt = TRUE]

\* Recovered; a grey release that is not is left with its abort; else the
\* rollback of a hardening, or the search for another plan.  An exception out
\* of the verification ends the job before any of these.
Verify ==
    /\ at = "verify" /\ ~stopping
    /\ passVerified' \in BOOLEAN
    /\ IF passVerified' THEN PassEnds(IF failed THEN "failed" ELSE "completed", {})
       ELSE \/ PassEnds("raised", {})
            \/ Progressive /\ PassEnds("planned", {AbortOf(plan)})
            \/ /\ ~Progressive
               /\ Goes(IF RollbackDue THEN "rollback" ELSE "again")
               /\ UNCHANGED <<replans, result>>
    /\ UNCHANGED <<plan, initial, started, index, gathered, failed, wrote, tried, spent,
                   stopping, pass, undone>>

\* The rollback is submitted without being asked for again and without a
\* deadline; an error of its call ends the job.
RollbackEnds ==
    /\ at = "rollback"
    /\ undone' = TRUE /\ passVerified' \in BOOLEAN
    /\ \/ passVerified' /\ PassEnds("completed", {})
       \/ ~passVerified' /\ PassEnds("raised", {})
       \/ ~passVerified' /\ Goes("again") /\ UNCHANGED <<replans, result>>
    /\ UNCHANGED <<plan, initial, started, index, gathered, failed, wrote, tried, spent,
                   stopping, pass>>

\* Nothing to change: the target may be healthy, else a plan is sought.
ProbeHealth ==
    /\ at = "probe" /\ ~stopping
    /\ \/ PassEnds("completed", {})
       \/ \E found \in Replanned(gathered) :
            PassEnds(IF found = {} THEN "diagnostic_completed" ELSE "planned", found)
    /\ Ended

\* _derive_alternative_plans: a restart after a patch, a patch after a
\* restart, else more evidence; a handler's plan for a storage cause.
Derived ==
    {{}} \cup {{q} : q \in UNION {Materialized(plan, s) : s \in Executable}}
    \cup {{NewPlan(changes)} : changes \in
            CASE "patch" \in Actions(plan) ->
                   {<<c>> : c \in {x \in Proposals : x.action = "restart"}}
              [] "patch" \notin Actions(plan) /\ "restart" \in Actions(plan) ->
                   {<<c>> : c \in {x \in Proposals : x.action = "patch"}}
              [] OTHER -> {<<>>}}

\* What is taken over for the next pass is routed on the evidence after the
\* failure, unless a handler owns it.
TakenOver(found, ids) ==
    IF found = {} THEN {{}}
    ELSE UNION {IF q.owned /\ q.skill \in Executable THEN {{q}}
                ELSE {{r} : r \in Attached(q, ids)} : q \in found}

\* The job takes the plan of the runbooks or the derived one.
Again ==
    /\ at = "again" /\ ~stopping
    /\ tried' = tried \cup ChangesOf(plan)
    /\ gathered' \in SUBSET EvidenceIds
    /\ \E found \in Replanned(gathered') \cup Derived : \E left \in TakenOver(found, gathered') :
         PassEnds(IF failed THEN "failed" ELSE "unresolved", left)
    /\ UNCHANGED <<plan, initial, started, index, failed, wrote, spent, stopping, pass,
                   passVerified, undone>>

-----------------------------------------------------------------------------
(* The job around the pass.                                                 *)

SetStop == ~stopping /\ at # "done" /\ stopping' = TRUE
           /\ UNCHANGED <<plan, initial, started, at, index, gathered, failed, wrote, replans,
                          tried, spent, pass, result, passVerified, undone>>

\* task.cancel: an exception at the await the pass is in.
PassCancelled == stopping /\ at # "done" /\ PassEnds("cancelled", {}) /\ Ended

\* The next plan on top of the job's first one: what the next does not have
\* is the first one's.
Continued(next) ==
    [next EXCEPT
        !.skill = IF @ = NoSkill THEN initial.skill ELSE @,
        !.stage = IF @ = "none" THEN initial.stage ELSE @,
        !.invoked = @ \/ initial.invoked, !.owned = @ \/ initial.owned,
        !.rollback = @ \/ initial.rollback, !.exempt = @ \/ initial.exempt]

\* _run_ops_job goes on with a plan it was left, unless it is done.
NextPass ==
    /\ at = "done" /\ pass < MaxPasses /\ ~stopping
    /\ result \notin {"completed", "cancelled", "raised"}
    /\ \E next \in replans : plan' = Continued(next)
    /\ spent' = IF wrote THEN spent \cup ({plan.skill} \ {NoSkill}) ELSE spent
    /\ pass' = pass + 1 /\ at' = "gate" /\ index' = 1 /\ replans' = {}
    /\ started' = ChangesOf(plan') /\ failed' = FALSE /\ wrote' = FALSE
    /\ tried' = tried \cup ChangesOf(plan)
    /\ result' = "none" /\ passVerified' = FALSE /\ undone' = FALSE
    /\ UNCHANGED <<initial, gathered, stopping>>

\* The changes of one action that a Skill may make, and the Skills that may
\* own the changes a job starts with.
Permitted(s, action) == {c \in Proposals : c.action = action /\ action \in s.allowed}
Owners == {s \in Skills : s.ready /\ ~s.router}

Repairs(s) ==
    {[NewPlan(<<c, d>>) EXCEPT !.skill = s] :
        c \in Permitted(s, "patch"), d \in Permitted(s, "restart")}
Handled(s) ==
    {[NewPlan(<<c>>) EXCEPT !.skill = s, !.owned = TRUE, !.invoked = TRUE,
                            !.stage = IF s.staged THEN "recovery" ELSE "none"] : c \in s.makes}
Hardenings(s) ==
    {[NewPlan(<<c>>) EXCEPT !.skill = s, !.owned = TRUE, !.stage = "hardening",
                            !.rollback = TRUE] : c \in Permitted(s, "harden")}
Release == [NewPlan(<<[action |-> "rollout", variant |-> 1]>>) EXCEPT !.exempt = TRUE]

\* What a job can start with: a diagnosis, a release, a repair, the hardening
\* that was proposed after a recovery as root.
FirstPlans ==
    {NewPlan(<<>>), Release}
    \cup (UNION {Repairs(s) : s \in Owners})
    \cup (UNION {Handled(s) \cup Hardenings(s) : s \in Owners \cap Executable})

PassInit ==
    /\ initial \in FirstPlans /\ plan = initial
    /\ started = ChangesOf(plan) /\ at = "gate" /\ index = 1
    /\ gathered = {} /\ failed = FALSE /\ wrote = FALSE
    /\ replans = {} /\ tried = {} /\ spent = {} /\ stopping = FALSE /\ pass = 1
    /\ result = "none" /\ passVerified = FALSE /\ undone = FALSE

PassNext ==
    \/ Gate \/ Collect \/ RoutePlan \/ Review \/ Steps \/ Bind
    \/ Ask \/ WriteReturns \/ Verify \/ RollbackEnds \/ ProbeHealth \/ Again
    \/ SetStop \/ PassCancelled \/ NextPass

PassSpec == PassInit /\ [][PassNext]_passVars
-----------------------------------------------------------------------------
PassTypeOK ==
    /\ plan.skill \in Skills \cup {NoSkill} /\ plan.collected \subseteq EvidenceIds
    /\ plan.routedIn \in 0..MaxPasses /\ plan.stage \in {"none", "recovery", "hardening"}
    /\ index \in 1..2 /\ tried \subseteq Proposals \cup ChangesOf(initial) \cup ChangesOf(AbortOf(plan))
    /\ spent \subseteq Skills /\ gathered \subseteq EvidenceIds
    /\ at = "done" <=> result # "none"

(* A change is submitted under a contract that was examined in the pass     *)
(* that submits it: the Skill that owns it may be executed, allows the      *)
(* action, has the evidence it asks for and has not failed before; and the  *)
(* change is one the operator was shown when the pass began.  Only jobs     *)
(* that began as a release go without a Skill, and those in which a grey    *)
(* release was attempted: its abort, and what replaces the abort when it    *)
(* does not help, which inherits the exemption.                             *)
SubmittedUnderContract ==
    at = "write" =>
        LET owner == plan.skill
            change == plan.changes[index]
        IN /\ change \in started
           /\ \/ plan.exempt /\ (initial.exempt \/ \E c \in tried : c.action = "rollout")
              \/ /\ plan.routedIn = pass
                 /\ owner.ready /\ ~owner.router /\ Missing(owner, plan.collected) = {}
                 /\ change.action \in owner.allowed
                 /\ owner \notin spent \/ owner \in Executable

(* A hardening that was submitted and did not hold is undone before the     *)
(* pass ends, unless the operator stopped it or an exception of a check of  *)
(* the recovery ended the job; a grey release of a later pass, which        *)
(* inherits the rollback, is left with its abort instead.                   *)
FailedHardeningIsUndone ==
    (/\ at = "done" /\ result \notin {"cancelled", "raised"} /\ wrote /\ ~passVerified
     /\ plan.stage = "hardening" /\ plan.rollback /\ ~Progressive)
    => undone

(* Every approval is for the plan at hand: the rollback that is submitted   *)
(* without being asked for is the one of a hardening approved in this pass. *)
RollbackWasShown == at = "rollback" => "harden" \in Actions(plan)
=============================================================================
