----------------------------- MODULE Inspections -----------------------------
(***************************************************************************)
(* Inspections of backend/app/application.py and the previews of what they *)
(* found.  An inspection lists Pods, reads the events of the suspicious    *)
(* ones, makes findings with a plan each, lets a model route them to       *)
(* Skills, and becomes LAST_INSPECTION_PAYLOAD.  A preview takes a finding *)
(* from there, collects its evidence and is planned anew.  Pods, Skills    *)
(* and other inspections go on in between.                                 *)
(*                                                                         *)
(* A Pod is what its status and its events say, as a set of the texts the  *)
(* code looks for; which runbook the remediation engine proves and what a  *)
(* model proposes are open.                                                *)
(***************************************************************************)
EXTENDS Integers, FiniteSets

CONSTANTS
    Pods,
    Workloads,
    Via,            \* by Pod: "rancher", "kubeconfig" or "local"
    NameOf,         \* by Pod: its name, unique in its namespace only
    OwnerOf,        \* by Pod: the Workload it belongs to
    Place,          \* by Pod: its place in a listing
    Conditions,     \* by Pod: the states it can be in
    Flaws,          \* by Workload: what a production inspection would find
    Deployments,    \* sets of scopes one can ask an inspection for
    Experts,        \* Skills, with the types of change they allow
    Allows,
    Inspectors,     \* inspections under way at the same time
    Viewers,        \* previews under way at the same time
    None,           \* no Pod, no Skill, no name
    EventLimit,     \* INSPECTION_MAX_EVENT_FETCHES_PER_CLUSTER
    MaxInspections, MaxPreviews, MaxPodMoves, MaxToggles   \* bounds

Texts == {"pull", "auth", "mount", "net", "crash", "oom", "probe", "perm"}
Types == {"patch", "restart", "recreate", "other"}
PodStates == [texts : SUBSET Texts, events : SUBSET Texts, pending : BOOLEAN,
              ready : BOOLEAN, restarting : BOOLEAN, done : BOOLEAN]

ASSUME InspectionsAssumption ==
    /\ Via \in [Pods -> {"rancher", "kubeconfig", "local"}]
    /\ OwnerOf \in [Pods -> Workloads] /\ Place \in [Pods -> Nat]
    /\ \A p \in Pods : Conditions[p] \subseteq PodStates /\ Conditions[p] # {}
    /\ Allows \in [Experts -> SUBSET Types]
    /\ Pods \cap Workloads = {} /\ None \notin Pods \cup Workloads \cup Experts
    /\ EventLimit \in Nat

VARIABLES
    pods,        \* the cluster
    scopes,      \* what this deployment can inspect
    usable,      \* enabled Skills
    insp,        \* inspections under way
    last,        \* findings of LAST_INSPECTION_PAYLOAD
    previews,    \* previews under way or answered
    inspections, asked, podMoves, toggles

inspectionVars == <<pods, scopes, usable, insp, last, previews,
                    inspections, asked, podMoves, toggles>>

Change(type, target) == [type |-> type, target |-> target]

-----------------------------------------------------------------------------
(* Findings.                                                                *)

\* _classify_pod_issue: the most specific text decides, then the state.
\* Mutant: events, once there are any, stand for the status.
ClassifiedByEvents(pod, events) ==
    LET texts == IF events = {} THEN pod.texts ELSE events IN
    IF pod.done THEN "none"
    ELSE CASE "pull" \in texts -> "image_pull"
           [] "mount" \in texts -> "storage_config"
           [] "net" \in texts -> "network"
           [] texts \cap {"crash", "oom"} # {} -> "crashloop"
           [] OTHER -> "none"
Classified(pod, events) ==
    LET texts == pod.texts \cup events IN
    IF pod.done THEN "none"
    ELSE CASE "pull" \in texts -> "image_pull"
           [] "mount" \in texts -> "storage_config"
           [] "net" \in texts -> "network"
           [] texts \cap {"crash", "oom"} # {} -> "crashloop"
           [] pod.pending -> "scheduling"
           [] ~pod.ready -> "not_ready"
           [] pod.restarting -> "crashloop"
           [] OTHER -> "none"

\* The Pods a listing shows as suspicious; events are read for the first ones.
Suspects(i) == {p \in DOMAIN insp[i].listing : Classified(insp[i].listing[p], {}) # "none"}
First(S) == {p \in S : Cardinality({q \in S : Place[q] < Place[p]}) < EventLimit}
Readable(i) ==
    First({p \in Suspects(i) : Via[p] = "rancher"}) \cup {p \in Suspects(i) : Via[p] = "local"}

\* Through Rancher the events are kept by the name of the Pod alone: those of
\* the last one of that name stay.
EventsFor(i, p) ==
    LET namesakes == {q \in Readable(i) : Via[q] = Via[p] /\ NameOf[q] = NameOf[p]} IN
    IF Via[p] = "local" THEN insp[i].events[p]
    ELSE UNION {insp[i].events[q] :
                   q \in {q \in namesakes : \A r \in namesakes : Place[r] <= Place[q]}}

\* The template of _ops_plan_from_finding: a restart only where nothing else is
\* known of a crash, and nothing for a fault of permissions.
Template(category, texts, workload) ==
    CASE category = "crashloop" /\ texts \cap {"oom", "probe"} # {} -> {Change("patch", workload)}
      [] category \in {"storage_config", "crashloop"} /\ "perm" \in texts -> {}
      [] category = "image_pull" /\ "auth" \in texts -> {Change("patch", workload)}
      [] category = "not_ready" /\ "probe" \in texts -> {Change("patch", workload)}
      [] category = "crashloop" -> {Change("restart", workload)}
      [] category = "capacity" -> {Change("patch", workload)}
      [] OTHER -> {}

\* What the engine proves goes before the template, faults of permissions apart.
Planned(f, proven) ==
    IF proven # {} /\ ~(f.category \in {"storage_config", "crashloop"} /\ "perm" \in f.texts)
    THEN proven ELSE f.changes

\* build_remediation_plan stays with the target it is given.
Runbooks == {"none", "patch", "recreate", "other"}
Proven(runbook, workload, pod) ==
    CASE runbook = "patch" -> {Change("patch", workload)}
      [] runbook = "recreate" /\ pod # None -> {Change("recreate", pod)}
      [] runbook = "other" -> {Change("other", None)}
      [] OTHER -> {}

Finding(subject, pod, workload, category, texts, changes) ==
    [subject |-> subject, pod |-> pod, workload |-> workload, category |-> category,
     texts |-> texts, changes |-> changes, hinted |-> {}]

PodFinding(i, p) ==
    LET pod == insp[i].listing[p]
        category == Classified(pod, EventsFor(i, p))
        texts == pod.texts \cup EventsFor(i, p)
    IN Finding(p, p, OwnerOf[p], category, texts, Template(category, texts, OwnerOf[p]))

\* The local inspection adds a Workload whose Pods have no clearer trouble.
Primary == {"crashloop", "image_pull", "network", "storage_config", "scheduling"}
Weak(i) ==
    {w \in Workloads :
        LET mine == {p \in DOMAIN insp[i].listing : Via[p] = "local" /\ OwnerOf[p] = w} IN
        /\ \E p \in mine : ~insp[i].listing[p].ready \/ insp[i].listing[p].restarting
        /\ \A p \in mine \cap Suspects(i) : PodFinding(i, p).category \notin Primary}
CapacityFinding(w) ==
    Finding(w, None, w, "capacity", {}, Template("capacity", {}, w))

\* _workload_production_risk_findings: a single replica may be exempt, from
\* being told though not from the patch.
Risks(w) == Flaws[w] \ (IF "exempt" \in Flaws[w] THEN {"exempt", "single"} ELSE {})
Hardening(w) ==
    IF Flaws[w] \cap {"resources", "escalation", "single"} # {} THEN {Change("patch", w)} ELSE {}
RiskFinding(w) == Finding(w, None, w, "production_risk", {}, Hardening(w))

-----------------------------------------------------------------------------
(* Skills decide what of a plan is left.                                    *)

Standings == {"unproven", "allows", "executes"}

\* _attach_operator_skills_to_plan: s is the best match among what is enabled.
\* A Skill that executes brings its own change of the target.
Attached(changes, s, verdict, workload) ==
    IF s = None \/ verdict = "unproven" THEN {}
    ELSE IF verdict = "executes" THEN {Change("patch", workload)}
    ELSE {c \in changes : c.type \in Allows[s]}

\* Mutant: what the router preferred is taken for enabled.
MatchableOrHinted(hinted) == usable \cup hinted \cup {None}
Matchable(hinted) == usable \cup {None}

Attach(f, changes, s, verdict) ==
    [f EXCEPT !.changes = Attached(changes, s, verdict, f.workload)]

-----------------------------------------------------------------------------
(* run_ai_inspection.                                                       *)

Idle == [stage |-> "idle", scope |-> {}, production |-> FALSE,
         listing |-> [p \in {} |-> None], events |-> [p \in {} |-> None], findings |-> {}]

\* The request and the listing it makes.
Begin(i, scope, production) ==
    /\ insp[i].stage = "idle" /\ inspections < MaxInspections
    /\ inspections' = inspections + 1
    /\ insp' = [insp EXCEPT ![i] =
          [Idle EXCEPT !.stage = "scanning", !.scope = scope, !.production = production,
                       !.listing = [p \in {p \in Pods : Via[p] \in scope} |-> pods[p]]]]
    /\ UNCHANGED <<pods, scopes, usable, last, previews, asked, podMoves, toggles>>

\* The text of a failed read through Rancher is an event of its own.
FetchEvents(i, p) ==
    /\ insp[i].stage = "scanning" /\ p \in Readable(i) \ DOMAIN insp[i].events
    /\ \E found \in {pods[p].events, {}} \cup (IF Via[p] = "rancher" THEN {{"net"}} ELSE {}) :
          insp' = [insp EXCEPT ![i].events =
              [q \in DOMAIN @ \cup {p} |-> IF q = p THEN found ELSE @[q]]]
    /\ UNCHANGED <<pods, scopes, usable, last, previews, inspections, asked, podMoves, toggles>>

\* Findings, each with its plan and the Skill that fits it now.
Assess(i) ==
    /\ insp[i].stage = "scanning" /\ Readable(i) \subseteq DOMAIN insp[i].events
    /\ LET found == {PodFinding(i, p) : p \in Suspects(i)}
                    \cup {CapacityFinding(w) : w \in Weak(i)}
                    \cup (IF insp[i].production
                          THEN {RiskFinding(w) : w \in
                                   {w \in {OwnerOf[p] : p \in DOMAIN insp[i].listing} : Risks(w) # {}}}
                          ELSE {})
       IN \E s \in Matchable({}), verdict \in Standings, runbook \in Runbooks :
             insp' = [insp EXCEPT
                 ![i].stage = "routing",
                 ![i].findings =
                     {Attach(f, Planned(f, Proven(runbook, f.workload, f.pod)), s, verdict) :
                         f \in found}]
    /\ UNCHANGED <<pods, scopes, usable, last, previews, inspections, asked, podMoves, toggles>>

\* The router has answered, with Skills of the catalogue it was shown, or the
\* deterministic matches stand; then the payload is there for all.
Publish(i, hinted) ==
    /\ insp[i].stage = "routing"
    /\ insp' = [insp EXCEPT ![i] = Idle]
    /\ IF hinted = {} THEN last' = insp[i].findings
       ELSE \E s \in Matchable(hinted), verdict \in Standings :
               last' = {[Attach(f, f.changes, s, verdict) EXCEPT !.hinted = hinted] :
                           f \in insp[i].findings}
    /\ UNCHANGED <<pods, scopes, usable, previews, inspections, asked, podMoves, toggles>>

-----------------------------------------------------------------------------
(* preview_ai_inspection_finding.                                           *)

Ask(v, f) ==
    /\ previews[v].stage # "collecting" /\ asked < MaxPreviews /\ f \in last
    /\ asked' = asked + 1
    /\ previews' = [previews EXCEPT ![v] =
          [stage |-> "collecting", subject |-> f.subject, finding |-> f,
           changes |-> {}, skill |-> None]]
    /\ UNCHANGED <<pods, scopes, usable, insp, last, inspections, podMoves, toggles>>

\* A change of the Workload or of a Pod is bound to the finding's, and rejected
\* when it names another one.
\* Mutant: a Pod to recreate is taken as it is named.
BoundButForPods(c, f, pod) ==
    CASE c.type \in {"patch", "restart"} ->
             IF c.target \in {None, f.workload} THEN {Change(c.type, f.workload)} ELSE {}
      [] OTHER -> {c}
Bound(c, f, pod) ==
    CASE c.type \in {"patch", "restart"} ->
             IF c.target \in {None, f.workload} THEN {Change(c.type, f.workload)} ELSE {}
      [] c.type = "recreate" -> IF c.target \in {None, pod} THEN {Change("recreate", pod)} ELSE {}
      [] OTHER -> {c}

\* The evidence is there, or not, and names a Pod of the Workload; the new plan
\* is the model's, of any target, or the engine's.
Proposals(f, pod) ==
    {{Change(type, target)} : type \in Types, target \in Workloads \cup Pods \cup {None}}
    \cup {Proven(runbook, f.workload, pod) : runbook \in Runbooks}

Answer(v) ==
    /\ previews[v].stage = "collecting"
    /\ LET f == previews[v].finding IN
       \E seen \in {p \in Pods : OwnerOf[p] = f.workload} \cup {None} :
          LET pod == IF f.pod # None THEN f.pod ELSE seen IN
          \E proposal \in Proposals(f, IF seen # None THEN seen ELSE f.pod),
             s \in Matchable(f.hinted), verdict \in Standings :
                previews' = [previews EXCEPT ![v] =
                    [stage |-> "answered", subject |-> None, finding |-> None, skill |-> s,
                     changes |-> Attached(UNION {Bound(c, f, pod) : c \in proposal},
                                          s, verdict, f.workload)]]
    /\ UNCHANGED <<pods, scopes, usable, insp, last, inspections, asked, podMoves, toggles>>

-----------------------------------------------------------------------------
(* The cluster and the operator.                                            *)

PodMoves(p) ==
    /\ podMoves < MaxPodMoves /\ podMoves' = podMoves + 1
    /\ pods' \in {[pods EXCEPT ![p] = state] : state \in Conditions[p] \ {pods[p]}}
    /\ UNCHANGED <<scopes, usable, insp, last, previews, inspections, asked, toggles>>

Toggle(s) ==
    /\ toggles < MaxToggles /\ toggles' = toggles + 1
    /\ usable' = IF s \in usable THEN usable \ {s} ELSE usable \cup {s}
    /\ UNCHANGED <<pods, scopes, insp, last, previews, inspections, asked, podMoves>>

InspectionsInit ==
    /\ pods \in {c \in [Pods -> UNION {Conditions[p] : p \in Pods}] :
                    \A p \in Pods : c[p] \in Conditions[p]}
    /\ scopes \in Deployments
    /\ usable = Experts
    /\ insp = [i \in Inspectors |-> Idle]
    /\ last = {}
    /\ previews = [v \in Viewers |-> [stage |-> "idle", subject |-> None,
                                      finding |-> None, changes |-> {}, skill |-> None]]
    /\ inspections = 0 /\ asked = 0 /\ podMoves = 0 /\ toggles = 0

InspectionsNext ==
    \/ \E i \in Inspectors :
          \/ \E scope \in scopes, production \in BOOLEAN : Begin(i, scope, production)
          \/ \E p \in Pods : FetchEvents(i, p)
          \/ Assess(i)
          \/ \E hinted \in SUBSET Experts : Publish(i, hinted)
    \/ \E v \in Viewers : (\E f \in last : Ask(v, f)) \/ Answer(v)
    \/ \E p \in Pods : PodMoves(p)
    \/ \E s \in Experts : Toggle(s)

InspectionsSpec == InspectionsInit /\ [][InspectionsNext]_inspectionVars

-----------------------------------------------------------------------------
Changes == [type : Types, target : Workloads \cup Pods \cup {None}]
Categories == Primary \cup {"not_ready", "capacity", "production_risk"}

(* Type correctness.                                                        *)
InspectionsTypeOK ==
    /\ pods \in [Pods -> PodStates] /\ scopes \in Deployments /\ usable \subseteq Experts
    /\ \A i \in Inspectors :
          /\ insp[i].stage \in {"idle", "scanning", "routing"}
          /\ DOMAIN insp[i].events \subseteq DOMAIN insp[i].listing
    /\ \A f \in last : /\ f.category \in Categories /\ f.changes \subseteq Changes
                       /\ f.subject \in Pods \cup Workloads /\ f.workload \in Workloads
    /\ \A v \in Viewers : /\ previews[v].stage \in {"idle", "collecting", "answered"}
                          /\ previews[v].changes \subseteq Changes

(* A Pod that looks suspicious when it is listed is reported with the       *)
(* payload, as what it is or worse, whether its events can be read, cannot, *)
(* are those of a namesake, or are beyond the limit.                        *)
SuspectsAreReported ==
    [][\A i \in Inspectors :
          insp[i].stage = "routing" /\ insp'[i].stage = "idle" =>
              \A p \in Suspects(i) :
                  \E f \in last' : f.pod = p /\ f.category # "none"]_inspectionVars

Target(subject) == IF subject \in Pods THEN OwnerOf[subject] ELSE subject

(* What a preview would change in a Workload or a Pod is the finding's it   *)
(* was asked for, whatever the model names, and a Skill stands behind it    *)
(* that is enabled when the answer is given, not only when the finding was  *)
(* routed to it.                                                            *)
PreviewsAreBound ==
    [][\A v \in Viewers :
          previews[v].stage = "collecting" /\ previews'[v].stage = "answered" =>
              /\ previews'[v].changes # {} => previews'[v].skill \in usable
              /\ \A c \in previews'[v].changes :
                    /\ c.type \in {"patch", "restart"} => c.target = Target(previews[v].subject)
                    /\ c.type = "recreate" /\ c.target # None =>
                          /\ OwnerOf[c.target] = Target(previews[v].subject)
                          /\ previews[v].subject \in Pods => c.target = previews[v].subject]_inspectionVars

(* Nothing that was seen is left out of the report, and nothing else than   *)
(* what it found is changed.                                                *)
InspectionsAreSound == SuspectsAreReported /\ PreviewsAreBound
=============================================================================
