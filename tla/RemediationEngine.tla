-------------------------- MODULE RemediationEngine --------------------------
(***************************************************************************)
(* score_root_causes and build_remediation_plan of                         *)
(* agents/remediation_engine.py: what the texts of an incident speak for,  *)
(* and the changes the best runbook leads to.                              *)
(*                                                                         *)
(* Evidence is, by its source, the set of terms found there: status is of  *)
(* every Pod that was listed, own of the one that was looked into, and     *)
(* read is what the deep diagnostics repeat of the others and add.  Of the *)
(* terms of a runbook those are kept that tell runbooks apart, or that two *)
(* of them share.  Claims and volumes are left out, and with them the      *)
(* creation of missing ones.  Scores are in ten-thousandths.               *)
(***************************************************************************)
EXTENDS Integers, FiniteSets

\* What the deployment has approved: images, a pull secret, templates.
CONSTANT Configured

ASSUME EngineAssumption ==
    Configured \subseteq {"replacement", "previous", "pull_secret", "config_template"}

\* In the order of their ids, which breaks a tie.
RunbookIds == <<"certificate_expiry", "config_missing", "cpu_saturation", "crash_unknown",
                "dns_cni", "image_architecture", "image_auth", "network_service",
                "node_pressure", "oom", "probe", "rollout_regression",
                "scheduling_capacity", "storage_mount", "storage_permission">>
RunbookTerms ==
    [certificate_expiry |-> {"x509"},
     config_missing |-> {"configmap", "not found"},
     cpu_saturation |-> {"high cpu"},
     crash_unknown |-> {"crashloopbackoff", "crashloop", "back-off restarting"},
     dns_cni |-> {"i/o timeout", "coredns"},
     image_architecture |-> {"exec format error"},
     image_auth |-> {"imagepullbackoff", "errimagepull"},
     network_service |-> {"connection refused", "no endpoints"},
     node_pressure |-> {"memorypressure", "notready"},
     oom |-> {"oomkilled", "exit code 137"},
     probe |-> {"liveness", "connection refused"},
     rollout_regression |-> {"progressdeadlineexceeded"},
     scheduling_capacity |-> {"failedscheduling", "insufficient memory"},
     storage_mount |-> {"unbound pvc", "failedmount"},
     storage_permission |-> {"permission denied", "cannot open database"}]
Terms == (UNION {RunbookTerms[r] : r \in DOMAIN RunbookTerms}) \cup {"mount_path", "logs unavailable"}
EvidenceSources == {"alert", "diagnosis", "status", "events", "logs"}

Weight == [alert |-> 7000, diagnosis |-> 9000, status |-> 12500,
           events |-> 14500, logs |-> 18000]

\* Further terms of one source count for less, and from the sixth on for little.
Contribution(source, hits) ==
    IF hits = 0 THEN 0
    ELSE (Weight[source] * (IF hits > 5 THEN 220 ELSE 100 + 28 * (hits - 1))) \div 100

Found(e, source) == IF source = "logs" THEN e.logs \cup e.read ELSE e[source]
Hits(e, source, r) == Cardinality(RunbookTerms[r] \cap Found(e, source))
EvidenceScore(e, r) ==
    Contribution("alert", Hits(e, "alert", r))
    + Contribution("diagnosis", Hits(e, "diagnosis", r))
    + Contribution("status", Hits(e, "status", r))
    + Contribution("events", Hits(e, "events", r))
    + Contribution("logs", Hits(e, "logs", r))

Decisive(e) == e.alert \cup e.diagnosis \cup e.status \cup e.events \cup e.logs
Proves(e, fact) ==
    CASE fact = "binding" -> "unbound pvc" \in Decisive(e)
      [] fact = "oom" -> Decisive(e) \cap {"oomkilled", "exit code 137"} # {}
      [] fact = "architecture" -> "exec format error" \in Decisive(e)
      [] fact = "permission" -> \/ "permission denied" \in Decisive(e)
                                \/ {"cannot open database", "mount_path"} \subseteq Decisive(e)
      [] fact = "no_logs" -> "logs unavailable" \in Decisive(e)

\* What is proven speaks for its runbook, and against the one of an unexplained
\* crash, which never falls below nothing.
Less(score, by) == IF score > by THEN score - by ELSE 0
RunbookScore(e, r) ==
    LET raw == EvidenceScore(e, r)
        noOom == IF Proves(e, "oom") THEN Less(raw, 14000) ELSE raw
        noArch == IF Proves(e, "architecture") THEN Less(noOom, 12000) ELSE noOom
        noPermission == IF Proves(e, "permission") THEN Less(noArch, 12000) ELSE noArch
    IN CASE r = "storage_mount" /\ Proves(e, "binding") -> raw + 32000
         [] r = "oom" /\ Proves(e, "oom") -> raw + 28000
         [] r = "image_architecture" /\ Proves(e, "architecture") -> raw + 28000
         [] r = "storage_permission" /\ Proves(e, "permission") -> raw + 26000
         [] r = "crash_unknown" ->
                noPermission + (IF Proves(e, "no_logs") /\ ~Proves(e, "binding") THEN 14000 ELSE 0)
         [] OTHER -> raw

Speaks(e, r) ==
    \/ \E source \in EvidenceSources : Hits(e, source, r) > 0
    \/ r = "crash_unknown" /\ \/ Proves(e, "no_logs") /\ ~Proves(e, "binding")
                              \/ \E fact \in {"oom", "architecture", "permission"} : Proves(e, fact)
    \/ r = "storage_permission" /\ Proves(e, "permission")

\* The place in the ranking: the higher score, then the earlier id.
RankOf(r) == CHOOSE i \in DOMAIN RunbookIds : RunbookIds[i] = r
PrimaryOf(e) ==
    LET ranked == {r \in DOMAIN RunbookTerms : Speaks(e, r)} IN
    IF ranked = {} THEN "unknown"
    ELSE CHOOSE r \in ranked :
            \A q \in ranked \ {r} :
                \/ RunbookScore(e, r) > RunbookScore(e, q)
                \/ RunbookScore(e, r) = RunbookScore(e, q) /\ RankOf(r) < RankOf(q)

\* A confidence of 0.62, 0.72 and 0.55, rounded to three places.
Likely == 21375
Strong == 25920
Fair == 18487

-----------------------------------------------------------------------------
(* The plan.                                                                *)

\* The target is a Workload, a Pod's name, or both; "" where there is none.  A
\* Pod that was seen has a container and a node.
WorkloadSteps == {"restart", "patch_workload", "patch_workload_volume", "scale_out",
                  "rollback_workload"}
Step(type, at) ==
    [type |-> type, namespace |-> at.namespace,
     workload |-> IF type \in WorkloadSteps \cup {"recreate_pod"} THEN at.workload ELSE "",
     pod |-> IF type = "recreate_pod" THEN at.pod ELSE ""]

\* A rebuild cures no fault of the template.
TemplateBlocked(e) ==
    (e.own \cup e.events \cup e.logs)
        \cap {"imagepullbackoff", "errimagepull", "configmap", "unbound pvc", "failedmount"} # {}
RecreateForLogs(e, r) ==
    /\ r = "crash_unknown" /\ Found(e, "logs") \cap {"logs unavailable", "not found"} # {}
    /\ ~TemplateBlocked(e)

\* A change of the template needs a container to patch.
Repairs(e, r, at) ==
    LET patchable == at.workload # "" /\ RunbookScore(e, r) >= Likely
        contained == patchable /\ at.seen
    IN CASE r \in {"oom", "probe"} /\ contained -> {Step("patch_workload", at)}
         [] r = "image_auth" /\ contained /\ "replacement" \in Configured ->
                {Step("rollback_workload", at)}
         [] r = "image_auth" /\ contained /\ "pull_secret" \in Configured ->
                {Step("patch_workload", at), Step("patch_service_account", at)}
         [] r = "image_architecture" /\ contained
                /\ Configured \cap {"replacement", "previous"} # {} -> {Step("rollback_workload", at)}
         [] r = "rollout_regression" /\ contained /\ "previous" \in Configured ->
                {Step("rollback_workload", at)}
         [] r = "config_missing" /\ patchable /\ "config_template" \in Configured
                /\ "configmap" \in Decisive(e) \cup e.read -> {Step("create_configmap", at)}
         [] r = "cpu_saturation" /\ patchable -> {Step("scale_out", at)}
         [] r = "node_pressure" /\ RunbookScore(e, r) >= Strong /\ at.seen ->
                {Step("cordon_node", at)}
         [] OTHER -> {}

\* Without a repair the Pod itself may be rebuilt.
EnginePlan(e, at) ==
    LET r == PrimaryOf(e) IN
    CASE r = "unknown" -> {}
      [] Repairs(e, r, at) # {} -> Repairs(e, r, at)
      [] /\ at.pod # ""
         /\ \/ r \in {"crash_unknown", "dns_cni"} /\ RunbookScore(e, r) >= Strong
            \/ RecreateForLogs(e, r) /\ RunbookScore(e, r) >= Fair -> {Step("recreate_pod", at)}
      [] OTHER -> {}
=============================================================================
