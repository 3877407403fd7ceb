------------------------------ MODULE MCPlatform ------------------------------
(***************************************************************************)
(* The parts of the platform that share no state, in one instance: part    *)
(* says which of them a behaviour is about, and the others keep the state  *)
(* they start in.                                                          *)
(***************************************************************************)
EXTENDS HarnessEvents, ReleaseGovernance, HarnessPackages, SkillRegistry, Inspections,
        ChatDiagnosis, ClusterRegistry

VARIABLE part

platformVars == <<part, eventVars, releaseVars, packageVars, skillVars, inspectionVars,
                  chatVars, clusterVars>>
AnyPackage == CHOOSE id \in PackageIds : TRUE

\* Two clusters are registered with the first of two tokens.
MCKubeconfigs == [server : {"s"}, token : {"t1", "t2"}]
MCRows == [c \in ClusterIds |-> Row([server |-> "s", token |-> "t1"], "connected")]

Parts == {"events", "releases", "packages", "skills", "history", "inspections", "chat",
          "clusters"}

PlatformInit ==
    /\ part \in Parts
    /\ EventsInit /\ ReleaseInit /\ PackagesInit /\ SkillsInit /\ InspectionsInit
    /\ ChatInit /\ ClustersInit
    /\ part # "packages" => /\ activeProfile = "production"
                            /\ \A name \in Profiles :
                                  profileFiles[name].disabled = {AnyPackage}
    /\ part # "inspections" => /\ scopes = CHOOSE d \in Deployments : TRUE
                               /\ \A p \in Pods : pods[p] = CHOOSE c \in Conditions[p] : TRUE
    /\ rows = MCRows /\ accepted = Kubeconfigs

\* Skills are changed in one part and used in another.
SkillsPart ==
    \/ part = "skills" /\ RegistryNext
    \/ part = "history" /\ HistoryNext
    \/ part \in {"skills", "history"} /\ Restart

\* The part moves that this behaviour is about.
Of(own) == part \in own /\ UNCHANGED part
PlatformNext ==
    \/ /\ Of({"events"}) /\ EventsNext
       /\ UNCHANGED <<releaseVars, packageVars, skillVars, inspectionVars, chatVars, clusterVars>>
    \/ /\ Of({"releases"}) /\ ReleaseNext
       /\ UNCHANGED <<eventVars, packageVars, skillVars, inspectionVars, chatVars, clusterVars>>
    \/ /\ Of({"packages"}) /\ PackagesNext
       /\ UNCHANGED <<eventVars, releaseVars, skillVars, inspectionVars, chatVars, clusterVars>>
    \/ /\ Of({"skills", "history"}) /\ SkillsPart
       /\ UNCHANGED <<eventVars, releaseVars, packageVars, inspectionVars, chatVars, clusterVars>>
    \/ /\ Of({"inspections"}) /\ InspectionsNext
       /\ UNCHANGED <<eventVars, releaseVars, packageVars, skillVars, chatVars, clusterVars>>
    \/ /\ Of({"chat"}) /\ ChatNext
       /\ UNCHANGED <<eventVars, releaseVars, packageVars, skillVars, inspectionVars, clusterVars>>
    \/ /\ Of({"clusters"}) /\ ClustersNext
       /\ UNCHANGED <<eventVars, releaseVars, packageVars, skillVars, inspectionVars, chatVars>>

PlatformSpec == PlatformInit /\ [][PlatformNext]_platformVars
ChatAlone == PlatformInit /\ part = "chat" /\ [][PlatformNext]_platformVars

(* Type correctness of the parts.                                           *)
PlatformTypeOK ==
    /\ part = "events" => EventsTypeOK
    /\ part = "releases" => ReleaseTypeOK
    /\ part = "packages" => PackagesTypeOK
    /\ part \in {"skills", "history"} => SkillsTypeOK
    /\ part = "inspections" => InspectionsTypeOK
    /\ part = "chat" => ChatTypeOK
    /\ part = "clusters" => ClustersTypeOK

(* ActiveIsSupported of HarnessPackages, evaluated where packages move.     *)
ActivePluginsAreSupported == part = "packages" => ActiveIsSupported

-----------------------------------------------------------------------------
(* One failed request of a thousand uses up a budget of one in a thousand.  *)
OneObjective == {[total |-> 1000, failed |-> 1, downtime |-> 0]}

(* Four of the built-in plugins: the chain router, approval gate, guard and *)
(* an agent whose services only external packages offer.                    *)
Guarded == {[event |-> "tools/pre-execute", mode |-> "waterfall", tools |-> TRUE]}
Watching(mode) == {[event |-> "recovery/check", mode |-> mode, tools |-> FALSE]}

Manifest(id, provides, requires, least) ==
    [id |-> id, external |-> id > 10, provides |-> provides,
     requires |-> {[service |-> s, least |-> least] : s \in requires},
     version |-> IF id > 10 THEN id - 10 ELSE 1, scope |-> "global", priority |-> 0,
     events |-> {}, requests |-> {}, trusted |-> id > 10, remote |-> FALSE,
     hostAllowed |-> FALSE]

MCBuiltins ==
    {Manifest(1, {"router"}, {}, 0),
     [Manifest(2, {"approval"}, {"router"}, 0) EXCEPT !.priority = 1000, !.events = Guarded],
     [Manifest(3, {"guard"}, {"approval"}, 0) EXCEPT !.priority = 900, !.events = Guarded],
     Manifest(4, {"agent.database"}, {"inventory", "evidence"}, 0)}

MCExternals ==
    {[Manifest(11, {"inventory"}, {}, 0) EXCEPT
         !.events = Watching("observe"), !.requests = {"inventory:read"}],
     [Manifest(11, {"inventory", "router"}, {}, 0) EXCEPT !.events = Watching("waterfall")],
     [Manifest(12, {"evidence"}, {"inventory"}, 1) EXCEPT
         !.events = Watching("observe") \cup Guarded, !.requests = {"service:provide"}],
     [Manifest(12, {"evidence"}, {"inventory"}, 1) EXCEPT
         !.scope = "cluster", !.requests = {"ops:execute"}],
     [Manifest(13, {"report", "inventory"}, {"agent.database"}, 1) EXCEPT
         !.scope = "cluster", !.events = Watching("observe"), !.requests = {"network:egress"}],
     [Manifest(13, {"report"}, {"evidence"}, 2) EXCEPT
         !.events = Watching("waterfall"), !.requests = {"network:egress"},
         !.remote = TRUE, !.hostAllowed = TRUE]}

\* A built-in Skill with stages, one from before there were packages, and the
\* one that a recovery leads to.
MCLegacy ==
    [id \in SkillIds |-> IF id = "disk-full" THEN Skill("legacy", TRUE, TRUE, FALSE) ELSE NoSkill]
MCTraits ==
    [id \in SkillIds |->
        [risk |-> IF id = "candidate" THEN "low" ELSE "medium",
         continues |-> id = "crashloop", requires |-> {"events", "current_logs"},
         anyOf |-> {{"previous_logs", "last_state"}},
         role |-> IF id = "candidate" THEN "supporting" ELSE "primary"]]

MCArchives ==
    {[id |-> "disk-full", enabled |-> TRUE, ready |-> TRUE, builtin |-> TRUE,
      acts |-> TRUE, foreign |-> TRUE],
     [id |-> "crashloop", enabled |-> FALSE, ready |-> TRUE, builtin |-> FALSE,
      acts |-> TRUE, foreign |-> FALSE],
     [id |-> "candidate", enabled |-> TRUE, ready |-> FALSE, builtin |-> FALSE,
      acts |-> FALSE, foreign |-> FALSE]}

\* The same incident without a hypothesis and with several, the model in favour
\* of the Skill that has failed.
Signal(failed, lists, hint) ==
    [lists |-> lists, rootCause |-> FALSE, primary |-> hint,
     secondary |-> {"candidate"}, attempted |-> {},
     prior |-> {[skill |-> failed, outcome |-> "failed"],
                [skill |-> "candidate", outcome |-> "recovered"]},
     named |-> {}, sections |-> {"events", "containers"},
     semantic |-> [id \in SkillIds |-> 6000],
     alignment |-> [id \in SkillIds |-> 5000],
     concrete |-> TRUE, inspecting |-> FALSE]
MCAsked ==
    <<Signal("crashloop", <<>>, ""), Signal("crashloop", <<0, 2>>, ""),
      Signal("disk-full", <<>>, ""), Signal("disk-full", <<0, 2>>, ""),
      Signal("disk-full", <<9>>, "disk-full")>>
MCSignals == 1 .. Len(MCAsked)

\* Two Pods of one name behind Rancher, one of a kubeconfig cluster and one of
\* the cluster the platform runs in.
MCVia == [p \in Pods |-> CASE p \in {"ra", "rb"} -> "rancher" [] p = "ka" -> "kubeconfig" [] OTHER -> "local"]
MCNameOf == [p \in Pods |-> IF p \in {"ra", "rb"} THEN "db-0" ELSE p]
MCOwnerOf == [p \in Pods |-> CASE p = "rb" -> "cache" [] OTHER -> "api"]
MCPlace == [p \in Pods |-> CASE p = "ra" -> 1 [] p = "rb" -> 2 [] OTHER -> 3]

Pod(texts, events, ready) ==
    [texts |-> texts, events |-> events, pending |-> FALSE, ready |-> ready,
     restarting |-> "crash" \in texts, done |-> FALSE]
MCConditions ==
    [p \in Pods |->
        CASE p = "ra" -> {Pod({"crash"}, {"probe"}, FALSE), Pod({}, {}, TRUE)}
          [] p = "rb" -> {Pod({}, {"auth", "pull"}, FALSE)}
          [] p = "ka" -> {Pod({"crash", "perm"}, {}, FALSE)}
          [] OTHER -> {Pod({"crash"}, {"mount", "probe"}, FALSE)}]
MCFlaws == [w \in Workloads |-> IF w = "api" THEN {"resources", "tag"} ELSE {"single", "exempt"}]
MCDeployments ==
    {{{"rancher", "kubeconfig"}}, {{"local"}}}
MCAllows == [s \in Experts |-> {"patch", "recreate", "other"}]

\* A Workload and one whose name it begins in the local cluster; the same
\* Workload in two namespaces of a managed cluster, and behind Rancher.
Seat(place, namespace, workload, name) ==
    [cluster |-> place, namespace |-> namespace, workload |-> workload, name |-> name]
MCSits ==
    [p \in ChatPods |->
        CASE p = "la" -> Seat("local", "prod", "api", "api-1")
          [] p = "lg" -> Seat("local", "prod", "api-gateway", "api-gateway-1")
          [] p = "ma" -> Seat("m", "prod", "api", "api-2")
          [] p = "ms" -> Seat("m", "staging", "api", "api-3")
          [] OTHER -> Seat("r", "prod", "api", "api-4")]
Saying(status, logs) == [status |-> status, events |-> {}, logs |-> logs]
MCSays ==
    [p \in ChatPods |->
        CASE p = "la" -> Saying({"oomkilled"}, {})
          [] p = "lg" -> Saying({"crashloop"}, {"logs unavailable"})
          [] p = "ms" -> Saying({"crashloopbackoff"}, {"permission denied"})
          [] OTHER -> Saying({}, {"connection refused"})]
MCWords == STRING
MCPrefixed == [p \in ChatPods |-> IF p = "lg" THEN {"api"} ELSE {}]
MCUrgency == [p \in ChatPods |->
    CASE p = "la" -> 3 [] p = "lg" -> 4 [] p = "ma" -> 1 [] p = "ms" -> 5 [] OTHER -> 2]
MCAccess == [c \in {"m", "r"} |-> IF c = "m" THEN "kubeconfig" ELSE "rancher"]

Question(place, workload, pod, says) ==
    [cluster |-> place, namespace |-> "prod", workload |-> workload, pod |-> pod,
     says |-> says, severe |-> pod = ""]
MCQuestions ==
    {Question("local", "api", "", {}), Question("local", "db", "", {"high cpu"}),
     Question("local", "api", "api-1", {}), Question("local", "", "", {}),
     Question("m", "api", "", {}), Question("m", "", "api-2", {}), Question("m", "", "", {}),
     Question("r", "api", "api-0", {}), Question("all", "", "", {})}

Proposed(type, workload, pod) ==
    [type |-> type, namespace |-> "prod", workload |-> workload, pod |-> pod]
Saw(cause, terms, changes) == [cause |-> cause, terms |-> terms, changes |-> changes]
MCChatAnswers ==
    {Saw("known", {"exit code 137"}, {}), Saw("missing", {}, {}),
     Saw("known", {}, {Proposed("patch_workload", "db", ""), Proposed("restart", "", ""),
                       Proposed("recreate_pod", "", "api-gateway-1"), Proposed("drop_database", "", ""),
                       Proposed("create_configmap", "db", "")})}
MCGrants == {Catalog, PodSteps}
MCTasks == {[changes |-> {Proposed("restart", "api", "")}, dryRun |-> FALSE]}
=============================================================================
