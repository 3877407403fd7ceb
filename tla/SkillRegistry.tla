---------------------------- MODULE SkillRegistry ----------------------------
(***************************************************************************)
(* The Skills of backend/app/services/ops_skill_registry.py, their         *)
(* packages on disk (agent_skill_packages.py), what becomes of an incident *)
(* handled with one of them, and the ranking that history enters.          *)
(*                                                                         *)
(* Every method holds the registry's lock from its first line to its last. *)
(* A Skill is what decides whether it is used: whose policy it carries,    *)
(* whether it is enabled, ready to execute and marked as built in.  Scores *)
(* are in ten-thousandths.                                                 *)
(***************************************************************************)
EXTENDS Integers, Sequences, FiniteSets, FiniteSetsExt, SequencesExt

CONSTANTS
    Shipped,       \* ids of DEFAULT_OPERATOR_SKILLS
    Learnables,    \* ids _capture_candidate_skill derives from recoveries
    Customs,       \* ids operators choose
    NoSkill,       \* no Skill, no package
    Legacy,        \* the Skills of ops-skills.json, by id
    Archives,      \* packages one can import: id, lifecycle, unknown actions
    Traits,        \* by id: risk, handler, evidence contract and role
    Signals,       \* the queries that match is asked
    Asked,         \* by query: semantic scores, hypotheses, evidence and what was tried
    Incidents,     \* independent incidents
    ReceiptLimit,  \* incident receipts that are kept (1000)
    MaxSkillSteps, \* bound: requests, recoveries and restarts
    MaxSkillFaults \* bound: writes that fail or are cut short

SkillIds == Shipped \cup Learnables \cup Customs
Policies == {"shipped", "operator", "learned", "legacy", "archive", "bare"}
Skills == [policy : Policies, enabled : BOOLEAN, ready : BOOLEAN, builtin : BOOLEAN]

ASSUME SkillsAssumption ==
    /\ NoSkill \notin Skills
    /\ Legacy \in [SkillIds -> Skills \cup {NoSkill}]
    /\ Shipped \cap Learnables = {} /\ \A c \in Learnables : Legacy[c] = NoSkill
    /\ Archives \subseteq [id : SkillIds, enabled : BOOLEAN, ready : BOOLEAN,
                           builtin : BOOLEAN, acts : BOOLEAN, foreign : BOOLEAN]
    /\ ReceiptLimit \in Nat \ {0} /\ MaxSkillSteps \in Nat /\ MaxSkillFaults \in Nat
ASSUME RankingAssumption ==
    /\ \A s \in Signals : /\ Asked[s].semantic \in [SkillIds -> Nat]
                          /\ \A id \in SkillIds : Asked[s].semantic[id] <= 10000
                          /\ Asked[s].alignment \in [SkillIds -> Nat] /\ Asked[s].lists \in Seq(Nat)
    /\ \A id \in SkillIds : IsFiniteSet(Traits[id].requires) /\ IsFiniteSet(Traits[id].anyOf)

VARIABLES
    skills,      \* _skills
    packages,    \* <root>/<id>/SKILL.md with references/ops-policy.yaml
    writable,    \* _writable
    tallies,     \* _usage: the counters match reads, and incident_receipts
    usageFile,   \* _usage.json
    running,     \* Skills being executed for an incident
    tried,       \* earlier passes, in the history of the incident's job
    boots,       \* processes so far
    behind,      \* ids whose last write failed, or that a start could not read
    published,   \* candidates an operator has enabled
    skillSteps, skillFaults

skillVars == <<skills, packages, writable, tallies, usageFile, running, tried,
               boots, behind, published, skillSteps, skillFaults>>
registryVars == <<skills, packages, writable, behind, published>>
historyVars == <<tallies, usageFile, running, tried>>

Skill(policy, enabled, ready, builtin) ==
    [policy |-> policy, enabled |-> enabled, ready |-> ready, builtin |-> builtin]

-----------------------------------------------------------------------------
(* Packages.                                                                *)

\* read_package without ops-policy.yaml: enabled by default, and not ready.
\* Mutant: readiness read without asking whether there is a policy.
BareIsReady(id) == Skill("bare", TRUE, TRUE, FALSE)
Bare(id) == Skill("bare", TRUE, FALSE, FALSE)

\* write_package cut short after SKILL.md: the policy is still the old one.
HalfWritten(disk, id) == IF disk[id] = NoSkill THEN Bare(id) ELSE disk[id]

\* _persist of one Skill.  After a failure nothing is written any more.
Persist(id) ==
    \/ /\ writable
       /\ packages' = [packages EXCEPT ![id] = skills'[id]]
       /\ behind' = behind \ {id}
       /\ UNCHANGED <<writable, skillFaults>>
    \/ /\ writable /\ skillFaults < MaxSkillFaults
       /\ skillFaults' = skillFaults + 1
       /\ writable' = FALSE
       /\ \E left \in {packages[id], HalfWritten(packages, id), skills'[id]} :
             packages' = [packages EXCEPT ![id] = left]
       /\ behind' = behind \cup {id}
    \/ /\ ~writable
       /\ behind' = behind \cup {id}
       /\ UNCHANGED <<packages, writable, skillFaults>>

\* merge_builtin_policy: of a record with a built-in id only whether it is
\* enabled outlives the image.
\* Mutant: the shipped policy is enabled whatever was stored.
MergedAsShipped(id, r) ==
    IF id \in Shipped THEN Skill("shipped", TRUE, TRUE, TRUE) ELSE r
Merged(id, r) ==
    IF id \in Shipped THEN Skill("shipped", r.enabled, TRUE, TRUE) ELSE r

\* _load: the shipped Skills, over them the legacy file, over it the packages
\* that could be read.
Loaded(seen) ==
    [id \in SkillIds |->
        IF seen[id] # NoSkill THEN Merged(id, seen[id])
        ELSE IF Legacy[id] # NoSkill THEN Merged(id, Legacy[id])
        ELSE IF id \in Shipped THEN Skill("shipped", TRUE, TRUE, TRUE)
        ELSE NoSkill]

\* What a start writes: what has no package, and an id that is built in whose
\* package, or legacy record where none could be read, has another policy.
Outdated(id, r) == r # NoSkill /\ r # Merged(id, r)
Due(disk, seen) ==
    {id \in SkillIds :
        /\ Loaded(seen)[id] # NoSkill
        /\ \/ disk[id] = NoSkill
           \/ Outdated(id, IF seen[id] # NoSkill THEN seen[id] ELSE Legacy[id])}
Rewritten(disk, seen, written) ==
    [id \in SkillIds |-> IF id \in written THEN Loaded(seen)[id] ELSE disk[id]]

\* A start.  A package that cannot be read is skipped and stays as it is; the
\* write that fails is the last one.
BootReading(disk, unread) ==
    LET seen == [id \in SkillIds |-> IF id \in unread THEN NoSkill ELSE disk[id]]
        due == Due(disk, seen)
    IN
    /\ skills' = Loaded(seen)
    /\ boots' = boots + 1
    /\ running' = {}
    /\ tallies' = usageFile /\ UNCHANGED <<usageFile, tried>>
    /\ unread # {} => skillFaults < MaxSkillFaults
    /\ \/ /\ packages' = Rewritten(disk, seen, due) /\ writable' = TRUE
          /\ behind' = unread
          /\ skillFaults' = skillFaults + (IF unread = {} THEN 0 ELSE 1)
       \/ /\ skillFaults < MaxSkillFaults /\ skillFaults' = skillFaults + 1
          /\ writable' = FALSE
          /\ \E torn \in due : \E written \in SUBSET (due \ {torn}) :
                /\ \E left \in {disk[torn], HalfWritten(disk, torn), Loaded(seen)[torn]} :
                      packages' = [Rewritten(disk, seen, written) EXCEPT ![torn] = left]
                /\ behind' = unread \cup {torn}
Boot(disk) ==
    \E unread \in SUBSET {id \in SkillIds : disk[id] # NoSkill} : BootReading(disk, unread)

-----------------------------------------------------------------------------
(* Operations of the registry.                                              *)

Stepping == skillSteps < MaxSkillSteps /\ skillSteps' = skillSteps + 1

\* upsert by upsert_ops_skill: the definition has no built-in flag, and is
\* ready because it names an action.
Upsert(id, enabled) ==
    /\ Stepping
    /\ skills' = [skills EXCEPT ![id] = Skill("operator", enabled, TRUE, FALSE)]
    /\ Persist(id)
    /\ published' = IF enabled THEN published \cup {id} ELSE published
    /\ UNCHANGED <<historyVars, boots>>

\* _capture_candidate_skill: a verified recovery, as a Skill to be published.
\* Mutant: the Skill that was there decides whether it is enabled.
LearnEnabled(id) ==
    /\ Stepping /\ id \in Learnables
    /\ skills' = [skills EXCEPT ![id] =
                    Skill("learned", skills[id] # NoSkill /\ skills[id].enabled, TRUE, FALSE)]
    /\ Persist(id)
    /\ UNCHANGED <<historyVars, boots, published>>
Learn(id) ==
    /\ Stepping /\ id \in Learnables
    /\ skills' = [skills EXCEPT ![id] = Skill("learned", FALSE, TRUE, FALSE)]
    /\ Persist(id)
    /\ UNCHANGED <<historyVars, boots, published>>

\* The process dies in the write_package of an upsert.
CutShort(id) ==
    /\ Stepping /\ writable /\ skillFaults < MaxSkillFaults
    /\ Boot([packages EXCEPT ![id] = HalfWritten(packages, id)])
    /\ UNCHANGED published

\* import_packages: the archive's own policy on disk, and in memory the
\* verdict of the action catalogue on it.
Import(a) ==
    /\ Stepping
    /\ packages' = [packages EXCEPT ![a.id] = Skill("archive", a.enabled, a.ready, a.builtin)]
    /\ skills' = [skills EXCEPT ![a.id] =
                    Skill("archive", a.enabled, a.acts /\ ~a.foreign, FALSE)]
    /\ behind' = behind \ {a.id}
    /\ published' = IF a.enabled THEN published \cup {a.id} ELSE published
    /\ UNCHANGED <<historyVars, boots, writable, skillFaults>>

\* import_archive fails after it has replaced this package, or after it has
\* removed the old one; the registry keeps the Skill it had.
ImportFails(a) ==
    /\ Stepping /\ skillFaults < MaxSkillFaults /\ skillFaults' = skillFaults + 1
    /\ \E left \in {Skill("archive", a.enabled, a.ready, a.builtin), NoSkill} :
          packages' = [packages EXCEPT ![a.id] = left]
    /\ behind' = behind \cup {a.id}
    /\ published' = IF a.enabled THEN published \cup {a.id} ELSE published
    /\ UNCHANGED <<skills, historyVars, boots, writable>>

\* delete: a built-in Skill is disabled, any other one is removed.
\* Mutant: a built-in Skill is disabled in memory only.
DisableUnsaved(id) ==
    /\ Stepping /\ skills[id] # NoSkill /\ skills[id].builtin
    /\ skills' = [skills EXCEPT ![id].enabled = FALSE]
    /\ UNCHANGED <<packages, writable, behind, skillFaults, published, historyVars, boots>>
Disable(id) ==
    /\ Stepping /\ skills[id] # NoSkill /\ skills[id].builtin
    /\ skills' = [skills EXCEPT ![id].enabled = FALSE]
    /\ Persist(id)
    /\ UNCHANGED <<published, historyVars, boots>>

Discard(id) ==
    /\ Stepping /\ skills[id] # NoSkill /\ ~skills[id].builtin
    /\ skills' = [skills EXCEPT ![id] = NoSkill]
    /\ \/ packages' = [packages EXCEPT ![id] = NoSkill] /\ UNCHANGED skillFaults
       \/ skillFaults < MaxSkillFaults /\ skillFaults' = skillFaults + 1 /\ UNCHANGED packages
    /\ UNCHANGED <<writable, behind, published, historyVars, boots>>

\* export_package writes the package that is missing, writable or not.
Export(id) ==
    /\ Stepping /\ skills[id] # NoSkill /\ packages[id] = NoSkill
    /\ packages' = [packages EXCEPT ![id] = skills[id]]
    /\ behind' = behind \ {id}
    /\ UNCHANGED <<skills, writable, published, historyVars, boots, skillFaults>>

Restart == Stepping /\ Boot(packages) /\ UNCHANGED published

-----------------------------------------------------------------------------
(* What became of incidents.                                                *)

NoTally == [executed |-> 0, succeeded |-> 0, failed |-> 0, handled |-> 0,
            resolved |-> 0, receipts |-> <<>>]

\* _persist_usage writes all of it.  A write that fails is forgotten.
SaveUsage ==
    \/ writable /\ usageFile' = tallies' /\ UNCHANGED skillFaults
    \/ ~writable /\ UNCHANGED <<usageFile, skillFaults>>
    \/ /\ writable /\ skillFaults < MaxSkillFaults /\ skillFaults' = skillFaults + 1
       /\ UNCHANGED usageFile

\* record_incident: a receipt for each incident, and the latest ones only.
OutcomeOf(t, incident) ==
    IF \E n \in 1 .. Len(t.receipts) : t.receipts[n].incident = incident
    THEN (CHOOSE r \in ToSet(t.receipts) : r.incident = incident).outcome
    ELSE "none"

Kept(receipts) ==
    SubSeq(receipts, IF Len(receipts) > ReceiptLimit THEN 2 ELSE 1, Len(receipts))
Receipted(receipts, incident, outcome) ==
    LET at == {n \in 1 .. Len(receipts) : receipts[n].incident = incident} IN
    IF at # {} THEN [n \in 1 .. Len(receipts) |->
                        IF n \in at THEN [incident |-> incident, outcome |-> outcome]
                        ELSE receipts[n]]
    ELSE Kept(Append(receipts, [incident |-> incident, outcome |-> outcome]))

\* Mutant: only the first stage of an incident counts it as handled.
CountedWhenHandled(t, incident, outcome) ==
    LET before == OutcomeOf(t, incident) IN
    IF before \in {outcome, "resolved"} THEN t
    ELSE [t EXCEPT !.handled = @ + (IF outcome = "handled" THEN 1 ELSE 0),
                   !.resolved = @ + (IF outcome = "resolved" THEN 1 ELSE 0),
                   !.receipts = Receipted(@, incident, outcome)]
Counted(t, incident, outcome) ==
    LET before == OutcomeOf(t, incident) IN
    IF before \in {outcome, "resolved"} THEN t
    ELSE [t EXCEPT !.handled = @ + (IF before = "none" THEN 1 ELSE 0),
                   !.resolved = @ + (IF outcome = "resolved" THEN 1 ELSE 0),
                   !.receipts = Receipted(@, incident, outcome)]

\* continuation_capable: of a built-in Skill with a handler.
Continues(id) == skills[id] # NoSkill /\ skills[id].builtin /\ Traits[id].continues

\* The first change of a pass that names the Skill.
Execute(id, incident) ==
    /\ Stepping /\ skills[id] # NoSkill /\ skills[id].enabled /\ skills[id].ready
    /\ \A r \in running : r.incident # incident
    /\ running' = running \cup {[skill |-> id, incident |-> incident]}
    /\ tallies' = [tallies EXCEPT ![id].executed = @ + 1]
    /\ SaveUsage
    /\ UNCHANGED <<registryVars, boots, tried>>

\* The pass ends: handled, and failed where it did not recover.
EndedPass(t, r, recovered) ==
    LET handled == Counted(t, r.incident, "handled") IN
    IF recovered \/ Continues(r.skill) THEN handled ELSE [handled EXCEPT !.failed = @ + 1]

\* A recovery succeeds unless its hardening failed, and resolves the incident
\* for the Skills of earlier passes as well.
Recovered(t, r, id, hardened) ==
    LET judged == IF id # r.skill THEN t
                  ELSE IF hardened THEN [t EXCEPT !.succeeded = @ + 1]
                  ELSE [t EXCEPT !.failed = @ + 1]
    IN IF [r EXCEPT !.skill = id] \in tried \cup {r}
       THEN Counted(judged, r.incident, "resolved") ELSE judged

EndPass(r, recovered, hardened) ==
    /\ r \in running
    /\ running' = running \ {r}
    /\ tried' = tried \cup {r}
    /\ tallies' = [id \in SkillIds |->
          LET t == IF id = r.skill THEN EndedPass(tallies[id], r, recovered) ELSE tallies[id]
          IN IF recovered THEN Recovered(t, r, id, hardened) ELSE t]
    /\ SaveUsage
    /\ UNCHANGED <<registryVars, boots, skillSteps>>

-----------------------------------------------------------------------------
(* match.                                                                   *)

Least(S) == CHOOSE x \in S : \A y \in S : x <= y
Capped(x, most) == IF x <= most THEN x ELSE most
Above0(x) == IF x < 0 THEN 0 ELSE x

\* The first list of hypotheses that has any, eight of them at most.
Hypotheses ==
    [s \in Signals |->
        LET filled == {n \in 1 .. Len(Asked[s].lists) : Asked[s].lists[n] > 0} IN
        IF filled # {} THEN Capped(Asked[s].lists[Least(filled)], 8)
        ELSE IF Asked[s].rootCause THEN 1 ELSE 0]

\* Skills tried earlier in the fault chain, unless they brought the recovery.
Attempted ==
    [s \in Signals |-> Asked[s].attempted \cup
        {a.skill : a \in {a \in Asked[s].prior : a.outcome \notin {"recovered", "succeeded"}}}]

\* What each section of the evidence is worth, coarsely; execution asks again.
Worth ==
    [logs |-> {"current_logs"}, restarts |-> {"previous_logs"}, events |-> {"events"},
     security |-> {"pod_security_context"}, containers |-> {"last_state"},
     workload |-> {"workload_spec", "recent_changes"}, storage |-> {"storage_chain"},
     services |-> {"service_endpoints"}, node |-> {"node_conditions", "node_capacity"},
     topology |-> {"topology_model", "dependency_topology"}]
Collected(s) == Asked[s].named \cup UNION {Worth[e] : e \in Asked[s].sections}

\* How likely the Skill is to succeed: by incidents where it has handled any.
Posterior(t) ==
    IF t.handled > 0 THEN ((t.resolved + 1) * 10000) \div (t.handled + 2)
    ELSE IF t.executed > 0 THEN ((t.succeeded + 1) * 10000) \div (t.executed + 2)
    ELSE 5000

Reliability(t) ==
    LET failures == IF t.handled > 0 THEN ((t.handled - t.resolved) * 10000) \div t.handled
                    ELSE (t.failed * 10000) \div t.executed
        scaled == (Posterior(t) * (100000 - 35 * (failures \div 10))) \div 100000
    IN IF t.executed = 0 THEN 7000
       ELSE IF scaled < 1000 THEN 1000 ELSE Capped(scaled, 10000)

\* evidence_required one by one, and each group of evidence_any_of.
Checks(id) == {{e} : e \in Traits[id].requires} \cup Traits[id].anyOf
Absences(id, s) == {g \in Checks(id) : g \cap Collected(s) = {}}
Readiness ==
    [s \in Signals |-> [id \in SkillIds |->
        IF Checks(id) = {} THEN 10000
        ELSE ((Cardinality(Checks(id)) - Cardinality(Absences(id, s))) * 10000)
                 \div Cardinality(Checks(id))]]

\* More than one hypothesis makes missing evidence worth collecting.
Gain ==
    [s \in Signals |-> [id \in SkillIds |->
        ((10000 - Readiness[s][id]) * Capped(Above0(Hypotheses[s] - 1), 3)) \div 3]]

Prior(id, s) ==
    IF id = Asked[s].primary THEN 10000 ELSE IF id \in Asked[s].secondary THEN 5800 ELSE 0
Aligned ==
    [s \in Signals |-> [id \in SkillIds |->
        Capped((IF Hypotheses[s] > 0 THEN Asked[s].alignment[id] \div 2 ELSE 0)
                   + Prior(id, s) \div 2, 10000)]]

Weights ==
    [s \in Signals |->
        IF Hypotheses[s] > 0
        THEN [semantic |-> 22, aligned |-> 28, ready |-> 18, success |-> 10, safe |-> 8,
              recent |-> 10]
        ELSE [semantic |-> 38, aligned |-> 0, ready |-> 20, success |-> 14, safe |-> 10,
              recent |-> 14]]

RiskScore(id) ==
    IF Traits[id].risk = "low" THEN 10000
    ELSE IF Traits[id].risk = "medium" THEN 7200 ELSE 4500

\* All that a score is made of, but for history and role.
Fit ==
    [s \in Signals |-> [id \in SkillIds |->
        LET w == Weights[s] IN
        Asked[s].semantic[id] * w.semantic + Aligned[s][id] * w.aligned + Readiness[s][id] * w.ready
            + RiskScore(id) * w.safe + Gain[s][id] * 4]]

RolePenalty ==
    [s \in Signals |-> [id \in SkillIds |->
        (IF Asked[s].concrete /\ ~Asked[s].inspecting /\ Traits[id].role = "inspection"
         THEN 1800 ELSE 0)
        + (IF Traits[id].role = "supporting" /\ Prior(id, s) < 5000 THEN 1200 ELSE 0)]]

RawScore(id, s) ==
    Above0((Fit[s][id] + Posterior(tallies[id]) * Weights[s].success
            + Reliability(tallies[id]) * Weights[s].recent) \div 100
           - RolePenalty[s][id])

\* A Skill that failed in this fault chain, unless it has a next stage.
\* Mutant: the penalty weighs as little as the risk of the Skill.
LightPenalty(id, s) == IF id \in Attempted[s] /\ ~Continues(id) THEN 800 ELSE 0
FailurePenalty(id, s) == IF id \in Attempted[s] /\ ~Continues(id) THEN 3000 ELSE 0

\* Whether the live evidence carries the Skill, whatever its history.
Confidence ==
    [s \in Signals |-> [id \in SkillIds |->
        Capped((IF Hypotheses[s] > 0
                THEN Asked[s].semantic[id] * 35 + Aligned[s][id] * 35 + Readiness[s][id] * 30
                ELSE Asked[s].semantic[id] * 60 + Readiness[s][id] * 40) \div 100, 9900)]]

Score(id, s) ==
    Capped((Above0(RawScore(id, s) - FailurePenalty(id, s)) * 65 + Confidence[s][id] * 35)
               \div 100, 9900)

\* The Skills that are ranked; ties are broken by what exploring is worth, the
\* role and the id.
Matched(s) ==
    {id \in SkillIds : /\ skills[id] # NoSkill /\ skills[id].enabled
                       /\ Asked[s].semantic[id] > 0 \/ Aligned[s][id] > 0}

-----------------------------------------------------------------------------
SkillsInit ==
    /\ skills = Loaded([id \in SkillIds |-> NoSkill])
    /\ packages = skills
    /\ writable = TRUE
    /\ tallies = [id \in SkillIds |-> NoTally] /\ usageFile = tallies
    /\ running = {} /\ tried = {} /\ boots = 1 /\ behind = {} /\ published = {}
    /\ skillSteps = 0 /\ skillFaults = 0

RegistryNext ==
    \/ \E id \in SkillIds, enabled \in BOOLEAN : Upsert(id, enabled)
    \/ \E id \in SkillIds :
          Learn(id) \/ CutShort(id) \/ Disable(id) \/ Discard(id) \/ Export(id)
    \/ \E a \in Archives : Import(a) \/ ImportFails(a)

HistoryNext ==
    \/ \E id \in SkillIds, incident \in Incidents : Execute(id, incident)
    \/ \E r \in running, recovered, hardened \in BOOLEAN :
          EndPass(r, recovered, hardened)

SkillsNext == RegistryNext \/ HistoryNext \/ Restart
SkillsSpec == SkillsInit /\ [][SkillsNext]_skillVars

-----------------------------------------------------------------------------
Tallies == [executed : Nat, succeeded : Nat, failed : Nat, handled : Nat,
            resolved : Nat,
            receipts : Seq([incident : Incidents, outcome : {"handled", "resolved"}])]

(* Type correctness.                                                        *)
SkillsTypeOK ==
    /\ skills \in [SkillIds -> Skills \cup {NoSkill}]
    /\ packages \in [SkillIds -> Skills \cup {NoSkill}]
    /\ writable \in BOOLEAN
    /\ tallies \in [SkillIds -> Tallies] /\ usageFile \in [SkillIds -> Tallies]
    /\ \A id \in SkillIds : Len(tallies[id].receipts) <= ReceiptLimit
    /\ running \subseteq [skill : SkillIds, incident : Incidents]
    /\ tried \subseteq [skill : SkillIds, incident : Incidents]
    /\ boots \in Nat /\ behind \subseteq SkillIds /\ published \subseteq SkillIds
    /\ skillSteps \in 0 .. MaxSkillSteps /\ skillFaults \in 0 .. MaxSkillFaults

(* What a recovery has taught is not used before an operator has published *)
(* it: no order of recoveries, failed writes, torn packages, exports and   *)
(* restarts leaves a learned Skill enabled and ready on its own.           *)
LearnedNeedsOperator ==
    \A id \in Learnables :
        skills[id] # NoSkill /\ skills[id].enabled /\ skills[id].ready => id \in published

(* A restart leaves every Skill as enabled or disabled as it was: legacy   *)
(* records, shipped policies and packages are laid over each other so that *)
(* the last decision on it wins, also after a write that was cut short.    *)
(* Apart are the ids whose last write failed and those whose package       *)
(* cannot be read: for these a start goes back to the legacy record or to  *)
(* what is shipped, and enables a built-in Skill that was disabled.        *)
RestartKeepsEnabled ==
    [][boots' # boots =>
          \A id \in SkillIds \ (behind \cup behind') :
              skills[id] # NoSkill =>
                  skills'[id] # NoSkill /\ skills'[id].enabled = skills[id].enabled]_skillVars

(* A Skill is used only by decision: none that was learned before an        *)
(* operator has published it, and after a restart those that were enabled,  *)
(* unless the disk failed them.                                             *)
EnablingIsDecided == []LearnedNeedsOperator /\ RestartKeepsEnabled

(* A Skill never has more incidents resolved than handled, through the     *)
(* retries of one incident, receipts that were dropped, and a usage file   *)
(* that a restart finds behind.                                            *)
OutcomesAddUp == \A id \in SkillIds : tallies[id].resolved <= tallies[id].handled

SameFit(x, y, s) ==
    /\ Asked[s].semantic[x] = Asked[s].semantic[y] /\ Aligned[s][x] = Aligned[s][y]
    /\ Readiness[s][x] = Readiness[s][y] /\ Gain[s][x] = Gain[s][y]
    /\ RolePenalty[s][x] <= RolePenalty[s][y] /\ RiskScore(y) <= RiskScore(x)

\* By query, who was tried, and who was not and fits as well.
Rivals ==
    {[query |-> p[1], failed |-> p[2], fresh |-> p[3]] :
        p \in {p \in Signals \X SkillIds \X SkillIds :
                  /\ p[2] \in Attempted[p[1]] /\ p[3] \notin Attempted[p[1]]
                  /\ SameFit(p[3], p[2], p[1])}}

(* However good its history, a Skill that has failed in this fault chain   *)
(* and has no next stage scores less than one that was not tried, fits as  *)
(* well and is no riskier.  At most it ties with it, when that one was put *)
(* back so far for its role that no score is left.                         *)
FailedSkillYields ==
    \A p \in Rivals :
        LET s == p.query  x == p.failed  y == p.fresh IN
        ~Continues(x) /\ x \in Matched(s) /\ y \in Matched(s)
            => \/ Score(x, s) < Score(y, s)
               \/ RolePenalty[s][y] > 0 /\ Score(x, s) = Score(y, s)

(* What became of incidents adds up, and what failed yields.                *)
HistoryIsSound == OutcomesAddUp /\ FailedSkillYields
=============================================================================
