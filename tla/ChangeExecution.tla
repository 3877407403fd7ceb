---------------------------- MODULE ChangeExecution ----------------------------
(***************************************************************************)
(* One approved change on its way to a cluster: _execute_change of         *)
(* backend/app/application.py with the reads before and after the write,   *)
(* and the replacement of an immutable Pod or Job by                       *)
(* cluster_registry.py and mcp_servers/k8s_mcp_server.py.                  *)
(*                                                                         *)
(* Every cluster may hold an object of the kind, namespace and name the    *)
(* change names.  A reply of a cluster, a read and a removal from the      *)
(* cluster registry are steps of their own, between which other writers    *)
(* work on the objects; the executor's caller may stop waiting at any      *)
(* point, and a thread then still ends what it does.                       *)
(***************************************************************************)
EXTENDS Integers, Sequences, SequencesExt, FiniteSets, Functions

CONSTANTS
    LocalCluster,      \* the cluster the platform runs in, served over MCP
    KubeconfigClusters,\* ids of clusters with an uploaded kubeconfig
    RancherClusters,   \* ids of clusters behind Rancher
    RancherEnabled,    \* _rancher_enabled()
    ChangeTypes,       \* the types of change of an instance
    MaxEdits,          \* bound: steps of other writers
    MaxUid             \* bound: objects ever created

WorkloadChangeTypes == {"restart", "patch_workload", "patch_workload_volume",
    "patch_workload_runtime_security", "patch", "scale_out", "rollback_workload"}
DynamicTypes == {"apply_manifest", "patch_resource", "delete_resource"}
ManifestTypes == {"create_pvc", "create_pv", "create_configmap"}
ExecTypes == {"exec_pod", "exec_node"}
OtherTypes == {"create_workload", "patch_service", "patch_pdb", "recreate_pod",
    "evict_pod", "patch_hpa", "expand_pvc", "cordon_node", "uncordon_node",
    "patch_service_account", "replace_immutable_workload", "run_shell",
    "infra_run_approved_action"}

Clusters == {LocalCluster} \cup KubeconfigClusters \cup RancherClusters

ASSUME ChangeClustersAssumption ==
    /\ LocalCluster \notin KubeconfigClusters \cup RancherClusters
    /\ KubeconfigClusters \cap RancherClusters = {}
    /\ RancherEnabled \in BOOLEAN
    /\ IsFiniteSet(KubeconfigClusters) /\ IsFiniteSet(RancherClusters)
ASSUME ChangeBoundsAssumption ==
    MaxEdits \in Nat /\ MaxUid \in Nat /\ Cardinality(Clusters) <= MaxUid
ASSUME ChangeTypesAssumption ==
    ChangeTypes \subseteq WorkloadChangeTypes \cup DynamicTypes \cup ManifestTypes
        \cup ExecTypes \cup OtherTypes

VARIABLES
    registered, \* the ids CLUSTER_REGISTRY lists
    objects,    \* the object of the change's name in each cluster
    change,     \* the change with the fields of its plan
    stage,      \* where _execute_change is
    transport,  \* execution_transport, decided once at the start
    before,     \* mutation_before
    touched,    \* requests to write that clusters received: [cluster, verb]
    outcome,    \* the status that was returned
    waiting,    \* the caller still waits for the outcome
    lastUid, edits,
    patched     \* history: uids that took the approved values since the read

changeVars == <<registered, objects, change, stage, transport, before, touched,
                outcome, waiting, lastUid, edits, patched>>

NoObject == [uid |-> 0, rv |-> 0, generation |-> 0, value |-> "none"]
NoReading == [cluster |-> LocalCluster, uid |-> 0, rv |-> 0, generation |-> 0,
              applied |-> FALSE]
\* Whether the fields the approved patch declares hold its values, those of
\* before, or something else.
FieldValues == {"old", "approved", "other"}

-----------------------------------------------------------------------------
(* Which cluster a change reaches.                                          *)

\* _ops_cluster_transport
TransportOf(cluster, source, ids) ==
    CASE cluster \in ids -> "kubeconfig"
      [] cluster \notin ids /\ cluster = LocalCluster -> "local"
      [] cluster \notin ids \cup {LocalCluster} /\ source = "kubeconfig" ->
             "managed_unavailable"
      [] cluster \notin ids \cup {LocalCluster} /\ source # "kubeconfig"
         /\ (source = "rancher" \/ RancherEnabled) -> "rancher"
      [] OTHER -> "local"

\* _resolve_ops_execution_binding: the clusters a plan can be bound to.
Bound(cluster, source) ==
    \/ cluster \in KubeconfigClusters \cup {LocalCluster}
    \/ cluster \in RancherClusters /\ (source = "rancher" \/ RancherEnabled)

\* The branches of _execute_change, in their order.
RouteOf(type, via) ==
    CASE type = "run_shell" -> "host"
      [] type \in ExecTypes ->
             IF via \in {"kubeconfig", "rancher"} THEN via ELSE "refused"
      [] type = "infra_run_approved_action" -> "provider"
      [] via = "kubeconfig" /\ type \in DynamicTypes \cup WorkloadChangeTypes
             \cup ManifestTypes \cup {"replace_immutable_workload",
                                      "patch_service_account"} -> "kubeconfig"
      [] via = "rancher" /\ type \notin ExecTypes
             \cup {"run_shell", "infra_run_approved_action"} -> "rancher"
      [] via # "kubeconfig" /\ via # "rancher" /\ type \in DynamicTypes -> "refused"
      [] OTHER -> "mcp"

\* The cluster a request over a route ends in.
Reached(route, cluster) == IF route = "mcp" THEN LocalCluster ELSE cluster
Route == RouteOf(change.type, transport)
Destination == Reached(Route, change.cluster)

\* The cluster _read_live_workload_after_change reads; it asks for the
\* transport again.
ReadTransport == TransportOf(change.cluster, change.source, registered)
ReadCluster ==
    IF ReadTransport = "local" THEN LocalCluster ELSE change.cluster
CanRead ==
    /\ ReadTransport # "managed_unavailable"
    /\ objects[ReadCluster] # NoObject
    /\ ReadTransport = "rancher" => change.cluster \in RancherClusters

-----------------------------------------------------------------------------
(* What the request of a change does to the object of its name.             *)

Removes == {"delete_resource", "recreate_pod", "evict_pod"}
Creates(route) ==
    {"create_workload"} \cup (IF route = "kubeconfig" THEN {} ELSE ManifestTypes)
Applies(route) ==
    {"apply_manifest"} \cup (IF route = "kubeconfig" THEN ManifestTypes ELSE {})
NoObjectTypes == ExecTypes \cup {"run_shell", "infra_run_approved_action"}

Fresh(value) == [uid |-> lastUid + 1, rv |-> 1, generation |-> 1, value |-> value]
Changed(o, value) ==
    [o EXCEPT !.rv = o.rv + 1, !.generation = o.generation + 1, !.value = value]

\* A patch whose values are there changes nothing, except that a restart
\* carries a timestamp of its own; an admission webhook may undo it.
Patchings(o) ==
    IF o.value = "approved" /\ change.type # "restart" THEN {o}
    ELSE {o, Changed(o, "approved"), Changed(o, "other")}

Effects(o, type, route) ==
    CASE type \in NoObjectTypes -> {o}
      [] type \in Removes -> IF o = NoObject THEN {} ELSE {NoObject}
      [] type \in Creates(route) -> IF o = NoObject THEN {Fresh("approved")} ELSE {}
      [] type \in Applies(route) ->
             IF o = NoObject THEN {Fresh("approved")} ELSE Patchings(o)
      [] OTHER -> IF o = NoObject THEN {} ELSE Patchings(o)

Put(c, o) ==
    /\ o.uid <= MaxUid
    /\ objects' = [objects EXCEPT ![c] = o]
    /\ lastUid' = IF o.uid > lastUid THEN o.uid ELSE lastUid
    /\ patched' = IF o.value = "approved" /\ o # objects[c] THEN patched \cup {o.uid}
                  ELSE patched

Same == UNCHANGED <<objects, lastUid, patched>>

\* The outcome reaches the caller unless it has stopped waiting.
Return(status) ==
    /\ stage' = "done"
    /\ outcome' = IF waiting THEN status ELSE outcome
    /\ UNCHANGED waiting

-----------------------------------------------------------------------------
(* The steps of _execute_change.                                            *)

NeedsApproval == change.type \notin {"patch_workload", "patch", "restart", "scale_out",
    "recreate_pod", "patch_hpa", "patch_service_account"}

\* The checks before any request: a name, a complete root patch, the action
\* catalogue (validate_change), the plugin guard.
Admitted ==
    /\ change.named /\ change.complete /\ change.guarded
    /\ NeedsApproval => change.confirmed

Refuse ==
    /\ stage = "bound" /\ ~Admitted
    /\ Return(IF change.named THEN "blocked" ELSE "failed")
    /\ Same /\ UNCHANGED <<registered, change, transport, before, touched, edits>>

Admit ==
    /\ stage = "bound" /\ Admitted
    /\ transport' = TransportOf(change.cluster, change.source, registered)
    /\ stage' = CASE change.type \in WorkloadChangeTypes -> "reading"
                  [] change.type = "replace_immutable_workload"
                     /\ RouteOf(change.type, transport') # "refused" -> "snapshot"
                  [] OTHER -> "sending"
    /\ Same /\ UNCHANGED <<registered, change, before, touched, outcome, waiting, edits>>

\* The read before the write.  A patch that is already there is not sent
\* again; a restart always is.
ReadBefore ==
    /\ stage = "reading" /\ CanRead
    /\ LET live == objects[ReadCluster]
           applied == live.value = "approved" /\ change.type # "restart"
       IN /\ before' = [cluster |-> ReadCluster, uid |-> live.uid, rv |-> live.rv,
                        generation |-> live.generation, applied |-> applied]
          /\ stage' = IF applied THEN "checking" ELSE "sending"
    /\ patched' = {}
    /\ UNCHANGED <<registered, objects, change, transport, touched, outcome, waiting,
                   lastUid, edits>>

\* It cannot be read, or the call fails: nothing is sent.
ReadBeforeFails ==
    /\ stage = "reading"
    /\ Return("failed")
    /\ Same /\ UNCHANGED <<registered, change, transport, before, touched, edits>>

\* The validators of the branch refuse the patch or the manifest.
Rejected ==
    /\ stage = "sending"
    /\ Route = "refused" \/ ~change.valid
    /\ Return("failed")
    /\ Same /\ UNCHANGED <<registered, change, transport, before, touched, edits>>

\* After the reply a workload patch is read back, other changes are complete.
Replied ==
    IF change.type \in WorkloadChangeTypes
    THEN stage' = "checking" /\ UNCHANGED <<outcome, waiting>>
    ELSE Return("completed")

\* Mutant: the client of a cluster outlives its registration.
SendableCached ==
    /\ stage = "sending" /\ change.valid
    /\ Route # "refused"

\* A request over a kubeconfig looks the cluster up again.
Sendable ==
    /\ stage = "sending" /\ change.valid
    /\ Route # "refused"
    /\ Route = "kubeconfig" => change.cluster \in registered

\* The request is received; its reply may be an error all the same.
Send ==
    /\ Sendable
    /\ touched' = IF Route \in {"host", "provider"} THEN touched
                  ELSE Append(touched, [cluster |-> Destination, verb |-> change.type])
    /\ \E o \in Effects(objects[Destination], change.type, Route) : Put(Destination, o)
    /\ Replied \/ Return("failed")
    /\ UNCHANGED <<registered, change, transport, before, edits>>

\* The call raises before the request has an effect: no object of the name,
\* a conflict, a cluster that is no longer registered, no connection.
SendFails ==
    /\ stage = "sending" /\ change.valid
    /\ Return("failed")
    /\ Same /\ UNCHANGED <<registered, change, transport, before, touched, edits>>

\* Mutant: the identity is not compared.
MatchesAnyObject(live) ==
    /\ live.value = "approved"
    /\ ~before.applied => live.rv # before.rv /\ live.generation > before.generation

\* _verify_workload_mutation_postcondition with the two checks behind it.
Matches(live) ==
    /\ live.value = "approved"
    /\ live.uid = before.uid
    /\ ~before.applied => live.rv # before.rv /\ live.generation > before.generation

ReadBack ==
    /\ stage = "checking"
    /\ Return(IF CanRead /\ Matches(objects[ReadCluster]) THEN "completed" ELSE "failed")
    /\ Same /\ UNCHANGED <<registered, change, transport, before, touched, edits>>

ReadBackFails ==
    /\ stage = "checking"
    /\ Return("failed")
    /\ Same /\ UNCHANGED <<registered, change, transport, before, touched, edits>>

-----------------------------------------------------------------------------
(* replace_immutable_workload: snapshot, delete, wait for 404, create.      *)

Raise ==
    /\ stage \in {"snapshot", "deleting", "polling", "creating"}
    /\ Return("failed")
    /\ Same /\ UNCHANGED <<registered, change, transport, before, touched, edits>>

Reachable == Route = "kubeconfig" => change.cluster \in registered

Snapshot ==
    /\ stage = "snapshot" /\ Reachable
    /\ objects[Destination] # NoObject /\ change.valid
    /\ stage' = "deleting"
    /\ Same /\ UNCHANGED <<registered, change, transport, before, touched, outcome,
                           waiting, edits>>

\* Finalizers may keep the old object for a while; the reply may be an error.
DeleteOld ==
    /\ stage = "deleting"
    /\ objects[Destination] # NoObject
    /\ touched' = Append(touched, [cluster |-> Destination, verb |-> "delete"])
    /\ Put(Destination, NoObject) \/ Same
    /\ stage' = "polling" \/ (stage' = "done")
    /\ outcome' = IF stage' = "done" /\ waiting THEN "failed" ELSE outcome
    /\ UNCHANGED <<registered, change, transport, before, waiting, edits>>

Poll ==
    /\ stage = "polling"
    /\ objects[Destination] = NoObject
    /\ stage' = "creating"
    /\ Same /\ UNCHANGED <<registered, change, transport, before, touched, outcome,
                           waiting, edits>>

CreateNew ==
    /\ stage = "creating"
    /\ objects[Destination] = NoObject
    /\ Put(Destination, Fresh("approved"))
    /\ touched' = Append(touched, [cluster |-> Destination, verb |-> "create"])
    /\ Return("completed") \/ Return("failed")
    /\ UNCHANGED <<registered, change, transport, before, edits>>

-----------------------------------------------------------------------------
(* What happens around it.                                                  *)

\* The caller's deadline passes or the job is cancelled: a coroutine ends
\* where it waits, a thread or the MCP server goes on to the end.
StopsWaiting ==
    /\ waiting /\ stage \notin {"bound", "done"}
    /\ waiting' = FALSE /\ outcome' = "failed"
    /\ stage' \in (IF Route \in {"kubeconfig", "mcp"}
                      /\ stage \in {"sending", "snapshot", "deleting", "polling", "creating"}
                   THEN {stage} ELSE {"done"})
    /\ Same /\ UNCHANGED <<registered, change, transport, before, touched, edits>>

\* An operator removes the uploaded kubeconfig.
Unregister(c) ==
    /\ c \in registered
    /\ registered' = registered \ {c}
    /\ Same /\ UNCHANGED <<change, stage, transport, before, touched, outcome, waiting,
                           edits>>

Edit(c) ==
    /\ edits < MaxEdits /\ stage # "done"
    /\ edits' = edits + 1
    /\ \/ \E v \in FieldValues : objects[c] # NoObject /\ Put(c, Changed(objects[c], v))
       \/ objects[c] # NoObject /\ Put(c, [objects[c] EXCEPT !.rv = @ + 1])
       \/ objects[c] # NoObject /\ Put(c, NoObject)
       \/ \E v \in FieldValues : objects[c] = NoObject /\ Put(c, Fresh(v))
    /\ UNCHANGED <<registered, change, stage, transport, before, touched, outcome, waiting>>

ClusterNumber == CHOOSE f \in [Clusters -> 1 .. Cardinality(Clusters)] : IsInjective(f)

\* The binding has put the exact cluster on the change; the operator has
\* confirmed it, or the plan needs no confirmation.
ChangeInit ==
    /\ registered = KubeconfigClusters
    /\ \E there \in SUBSET Clusters :
         objects = [c \in Clusters |->
             IF c \in there THEN [uid |-> ClusterNumber[c], rv |-> 1, generation |-> 1, value |-> "old"]
             ELSE NoObject]
    /\ change \in [type : ChangeTypes, cluster : Clusters,
                   source : {"kubeconfig", "rancher", "sre_chat"},
                   named : BOOLEAN, complete : BOOLEAN, confirmed : BOOLEAN,
                   guarded : BOOLEAN, valid : BOOLEAN]
    /\ Bound(change.cluster, change.source)
    /\ change.type \notin WorkloadChangeTypes => change.named
    /\ stage = "bound" /\ transport = "local" /\ before = NoReading
    /\ touched = <<>> /\ outcome = "none" /\ waiting = TRUE
    /\ lastUid = Cardinality(Clusters) /\ edits = 0 /\ patched = {}

ExecuteStep ==
    \/ Refuse \/ Admit \/ ReadBefore \/ ReadBeforeFails \/ Rejected
    \/ Send \/ SendFails \/ ReadBack \/ ReadBackFails
    \/ Raise \/ Snapshot \/ DeleteOld \/ Poll \/ CreateNew

ChangeNext ==
    \/ ExecuteStep \/ StopsWaiting
    \/ \E c \in KubeconfigClusters : Unregister(c)
    \/ \E c \in Clusters : Edit(c)

ChangeSpec == ChangeInit /\ [][ChangeNext]_changeVars
-----------------------------------------------------------------------------
ChangeObject == [uid : 0 .. MaxUid, rv : Nat, generation : Nat,
                 value : FieldValues \cup {"none"}]

ChangeTypeOK ==
    /\ registered \subseteq KubeconfigClusters
    /\ objects \in [Clusters -> ChangeObject]
    /\ stage \in {"bound", "reading", "sending", "checking", "snapshot", "deleting",
                  "polling", "creating", "done"}
    /\ transport \in {"kubeconfig", "rancher", "local", "managed_unavailable"}
    /\ before \in [cluster : Clusters, uid : 0 .. MaxUid, rv : Nat, generation : Nat,
                   applied : BOOLEAN]
    /\ touched \in Seq([cluster : Clusters, verb : ChangeTypes \cup {"delete", "create"}])
    /\ outcome \in {"none", "blocked", "failed", "completed"}
    /\ waiting \in BOOLEAN /\ lastUid \in 0 .. MaxUid /\ edits \in 0 .. MaxEdits
    /\ patched \subseteq 1 .. MaxUid

(* A workload change is reported completed only if the very object that was *)
(* read before the write took the approved values after that read (or had   *)
(* them), and a replacement only if a new object was made of them: not when *)
(* the object was replaced by another of its name meanwhile, an admission   *)
(* webhook undid the patch or the POST failed.                              *)
CompletedChangeWasMade ==
    outcome = "completed" =>
        /\ change.type \in WorkloadChangeTypes => before.applied \/ before.uid \in patched
        /\ change.type = "replace_immutable_workload" => patched # {}

(* A workload patch goes to the cluster its object was read from, also when *)
(* the cluster loses its registration between the two.                      *)
WrittenWhereRead ==
    [][touched' # touched /\ change.type \in WorkloadChangeTypes =>
          Last(touched').cluster = before.cluster]_changeVars

(* What is reported of a write is true: completed means made, and made      *)
(* where its object was read.                                               *)
WritesAreTrue == []CompletedChangeWasMade /\ WrittenWhereRead

(* Every request to write reaches the cluster the change is bound to.       *)
WritesReachTheirCluster ==
    \A i \in DOMAIN touched : touched[i].cluster = change.cluster
=============================================================================
