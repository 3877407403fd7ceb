-------------------------- MODULE EvidenceCollection --------------------------
(***************************************************************************)
(* The collection of live evidence for a plan, of backend/app/             *)
(* application.py: the priority pass that reads the target Pod and its     *)
(* logs, the deep pass that adds events and more, the merge of the two     *)
(* with recent evidence, and the passes of a skill's refresh step and      *)
(* after a change that did not help.                                       *)
(*                                                                         *)
(* Every read of the cluster is a step; Pods of the workload come, go and  *)
(* crash between them.  A read may raise, and the deadline of a stage may  *)
(* end a pass between two reads.                                           *)
(***************************************************************************)
EXTENDS Naturals, FiniteSets

CONSTANTS
    OwnPods,           \* Pods of the workload of the plan
    NamesakePods,      \* Pods of others whose name starts with its name
    NoLivePod,
    ContainersOf,      \* the containers of each Pod
    MaxCollections,    \* bound: collections
    MaxPodMoves        \* bound: moves of the Pods

EvidencePods == OwnPods \cup NamesakePods
Containers == UNION {ContainersOf[p] : p \in EvidencePods}

ASSUME EvidencePodsAssumption ==
    OwnPods \cap NamesakePods = {} /\ NoLivePod \notin EvidencePods
ASSUME ContainersAssumption == DOMAIN ContainersOf = EvidencePods
ASSUME EvidenceBoundsAssumption == MaxCollections \in Nat /\ MaxPodMoves \in Nat

VARIABLES
    pods_,        \* the state of each Pod
    terminating,  \* Pods with a deletionTimestamp
    channel,      \* _ops_cluster_transport
    workloadKnown,\* the plan names its workload
    targetPod,    \* plan["pod_name"]
    purpose,      \* what the running collection is for
    reading,      \* the read that comes next
    draft,        \* what the running pass has read
    priorityPass, \* the outcome of the priority pass
    evidence,     \* plan["_runtime_evidence"]
    captured,     \* plan["_runtime_evidence_captured_at"]: "never", "recent" or
                  \* longer ago than OPS_RECENT_EVIDENCE_REUSE_SECONDS
    collections, podMoves

evidenceVars == <<pods_, terminating, channel, workloadKnown, targetPod, purpose, reading,
                  draft, priorityPass, evidence, captured, collections, podMoves>>

\* Whose output the two streams of a container hold; a stream without any has
\* an error in its place, or nothing was written.
NoStreams == [current |-> NoLivePod, previous |-> NoLivePod, read |-> FALSE]
Empty == [NoStreams EXCEPT !.read = TRUE]

\* workload says whether there is one, live, as planned, or an error in its
\* place; lineage is log_lineage["current_pod"], the Pod for which the logs of
\* an earlier one were kept.
NoLogs == [c \in Containers |-> NoStreams]
Nothing == [pod |-> NoLivePod, logs |-> NoLogs, workload |-> FALSE,
            error |-> FALSE, lineage |-> NoLivePod]
Failed == [Nothing EXCEPT !.error = TRUE]

HasContent(logs) ==
    \E c \in Containers : logs[c].current # NoLivePod \/ logs[c].previous # NoLivePod
Usable(e) == e.pod # NoLivePod \/ e.workload \/ \E c \in Containers : e.logs[c].read
\* triage_kubernetes_logs: a container that crashed has left an error.
Actionable(e) == \E c \in Containers : e.logs[c].previous # NoLivePod

-----------------------------------------------------------------------------
(* Which Pod is read.                                                       *)

Present == {p \in EvidencePods : pods_[p] # "absent"}
Badness(p) == CASE pods_[p] = "crashing" -> 3 [] pods_[p] = "starting" -> 2 [] OTHER -> 1

\* _select_representative_pod over _pod_matches_workload: every Pod with the
\* workload's owner or name as a prefix, the worst one first.
Representatives(except) ==
    LET all == Present \ except
    IN {p \in all : \A q \in all : Badness(q) <= Badness(p)}

\* What the streams of a container of a Pod can give: one that never started
\* has an error for its output, one that restarted has two streams.
Streams(p) ==
    {Empty} \cup (CASE pods_[p] = "running" -> {[Empty EXCEPT !.current = p]}
                    [] pods_[p] = "crashing" -> {[Empty EXCEPT !.current = p, !.previous = p]}
                    [] OTHER -> {})

\* The log bundle of a Pod: every container of it, and no other.
Bundles(p) ==
    {[c \in Containers |-> IF c \in ContainersOf[p] THEN read[c] ELSE NoStreams] :
         read \in [ContainersOf[p] -> Streams(p)]}

-----------------------------------------------------------------------------
(* The priority pass.                                                       *)

\* A collection starts with the priority pass; the first one of a plan and
\* every later pass stamp what they merge.
Start(why) ==
    /\ reading = "idle" /\ collections < MaxCollections
    /\ why = "pass" \/ collections > 0
    /\ collections' = collections + 1
    /\ purpose' = why /\ draft' = Nothing
    /\ targetPod' \in (IF why = "after" THEN Present \cup {targetPod} ELSE {targetPod})
    /\ reading' = CASE channel = "local" -> "list"
                    [] channel # "local" /\ targetPod' = NoLivePod -> "select"
                    [] OTHER -> "pod"
    /\ UNCHANGED <<pods_, terminating, channel, workloadKnown, priorityPass, evidence,
                   captured, podMoves>>

PassOnly == UNCHANGED <<pods_, terminating, channel, workloadKnown, purpose, evidence,
                        captured, collections, podMoves>>

Reads(p, step) ==
    /\ draft' = [draft EXCEPT !.pod = p]
    /\ reading' = step
    /\ UNCHANGED <<targetPod, priorityPass>> /\ PassOnly

\* list_pods answers with the Pods themselves; the requested one first.
ListLocal ==
    /\ reading = "list"
    /\ \E p \in (IF targetPod \in Present THEN {targetPod}
                 ELSE IF workloadKnown \/ targetPod = NoLivePod THEN Representatives({}) ELSE {}) :
         Reads(p, "logs")

SelectPod ==
    /\ reading = "select"
    /\ \E p \in Representatives({}) : draft' = [draft EXCEPT !.pod = p]
    /\ reading' = "pod"
    /\ UNCHANGED <<targetPod, priorityPass>> /\ PassOnly

Asked == IF draft.pod = NoLivePod THEN targetPod ELSE draft.pod

\* A Pod that is gone is replaced by another of the workload, once; so is one
\* that is being deleted.
ReadPod ==
    /\ reading = "pod"
    /\ \/ Asked \in Present \ terminating /\ Reads(Asked, "logs")
       \/ Asked \in Present \cap terminating
          /\ Reads(Asked, IF workloadKnown THEN "replace" ELSE "logs")
       \/ Asked \notin Present /\ workloadKnown
          /\ \E p \in Representatives({}) : Reads(p, "again")

ReadAgain ==
    /\ reading = "again" /\ draft.pod \in Present
    /\ Reads(draft.pod, IF draft.pod \in terminating THEN "replace" ELSE "logs")

ReplacePod ==
    /\ reading = "replace"
    /\ \E p \in Representatives({draft.pod}) : Reads(p, "logs")

\* The other Pod is taken with its logs, when it has any.
Sibling(p, l) ==
    draft' = IF HasContent(l) THEN [draft EXCEPT !.pod = p, !.logs = l]
             ELSE draft

\* Rancher only: for a Pod without output the next worst one of the workload.
ReadSibling ==
    /\ reading = "sibling"
    /\ \/ \E p \in Representatives({draft.pod}) : \E l \in Bundles(p) : Sibling(p, l)
       \/ UNCHANGED draft
    /\ reading' = "workload"
    /\ UNCHANGED <<targetPod, priorityPass>> /\ PassOnly

ReadLogs ==
    /\ reading = "logs"
    /\ \E l \in Bundles(draft.pod) :
         /\ draft' = [draft EXCEPT !.logs = l]
         /\ \/ reading' = "workload"
            \/ channel = "rancher" /\ workloadKnown /\ ~HasContent(l) /\ reading' = "sibling"
    /\ UNCHANGED <<targetPod, priorityPass>> /\ PassOnly

\* The live workload; without it, or on the local channel, the one that was
\* seen when the plan was made.  plan["pod_name"] follows the Pod that was read.
PriorityDone ==
    /\ reading = "workload"
    /\ priorityPass' = [draft EXCEPT !.workload = TRUE]
    /\ targetPod' = draft.pod
    /\ reading' = "choose" /\ draft' = Nothing
    /\ PassOnly

\* A read raises, nothing matches, the cluster is not registered, the deadline
\* of the stage passes.
PriorityFails ==
    /\ reading \in {"list", "select", "pod", "again", "replace", "logs", "sibling", "workload"}
    /\ priorityPass' = Failed /\ draft' = Nothing
    /\ reading' = "choose"
    /\ UNCHANGED targetPod /\ PassOnly

-----------------------------------------------------------------------------
(* The deep pass, which is left out when the direct evidence is enough.     *)

DirectEvidenceReady ==
    priorityPass.pod # NoLivePod /\ Actionable(priorityPass) /\ purpose = "pass"

Choose_ ==
    /\ reading = "choose"
    /\ reading' = IF DirectEvidenceReady THEN "merge"
                  ELSE IF targetPod = NoLivePod THEN "deep-select" ELSE "deep-pod"
    /\ UNCHANGED <<targetPod, draft, priorityPass>> /\ PassOnly

DeepSelect ==
    /\ reading = "deep-select"
    /\ \E p \in Representatives({}) : targetPod' = p
    /\ reading' = "deep-pod"
    /\ UNCHANGED <<draft, priorityPass>> /\ PassOnly

DeepPod == reading = "deep-pod" /\ targetPod \in Present /\ Reads(targetPod, "deep-logs")

DeepLogs ==
    /\ reading = "deep-logs" /\ channel # "local"
    /\ \E l \in Bundles(draft.pod) : draft' = [draft EXCEPT !.logs = l]
    /\ reading' = "deep-events"
    /\ UNCHANGED <<targetPod, priorityPass>> /\ PassOnly

\* Rancher: an error of the workload is kept in its place.
DeepRest ==
    /\ reading = "deep-events" /\ channel = "rancher"
    /\ draft' = [draft EXCEPT !.workload = TRUE]
    /\ reading' = "merge"
    /\ UNCHANGED <<targetPod, priorityPass>> /\ PassOnly

\* Kubeconfig: the owner of the Pod, if it is of a known kind.
DeepOwner ==
    /\ reading = "deep-events" /\ channel = "kubeconfig"
    /\ \E w \in BOOLEAN : draft' = [draft EXCEPT !.workload = w]
    /\ reading' = "merge"
    /\ UNCHANGED <<targetPod, priorityPass>> /\ PassOnly

\* Local: the MCP server reads everything in one call.
DeepDiagnostics ==
    /\ reading = "deep-logs" /\ channel = "local"
    /\ \E l \in Bundles(draft.pod), w \in BOOLEAN :
         draft' = [draft EXCEPT !.logs = l, !.workload = w]
    /\ reading' = "merge"
    /\ UNCHANGED <<targetPod, priorityPass>> /\ PassOnly

DeepFails ==
    /\ reading \in {"deep-select", "deep-pod", "deep-logs", "deep-events"}
    /\ draft' = Failed /\ reading' = "merge"
    /\ UNCHANGED <<targetPod, priorityPass>> /\ PassOnly

-----------------------------------------------------------------------------
(* The merge.                                                               *)

\* Mutant: an empty stream does not replace one with content.
MergedByStream(first, second) ==
    LET use(a, b) == IF b = NoLivePod THEN a ELSE b
        both == [pod |-> use(first.pod, second.pod),
                 logs |-> [c \in Containers |->
                              [current |-> use(first.logs[c].current, second.logs[c].current),
                               previous |-> use(first.logs[c].previous, second.logs[c].previous),
                               read |-> first.logs[c].read \/ second.logs[c].read]],
                 workload |-> first.workload \/ second.workload,
                 error |-> FALSE,
                 lineage |-> use(first.lineage, second.lineage)]
    IN [both EXCEPT !.error = ~Usable(both) /\ (first.error \/ second.error)]

\* _merge_ops_evidence: a value of the second replaces the first's, and logs
\* are laid over each other container by container: those of a container that
\* the second did not read stay, whatever Pod it names.  An error is only kept
\* if nothing is usable.
Merged(first, second) ==
    LET use(a, b) == IF b = NoLivePod THEN a ELSE b
        both == [pod |-> use(first.pod, second.pod),
                 logs |-> [c \in Containers |-> IF second.logs[c].read THEN second.logs[c]
                                                ELSE first.logs[c]],
                 workload |-> first.workload \/ second.workload,
                 error |-> FALSE,
                 lineage |-> use(first.lineage, second.lineage)]
    IN [both EXCEPT !.error = ~Usable(both) /\ (first.error \/ second.error)]

\* _recent_runtime_evidence
Recent == Usable(evidence) /\ captured = "recent"

\* A pass merges into recent evidence and stamps the result with now; a
\* refresh merges into whatever there is.  After a failed change the evidence
\* is new, but an empty log does not replace the failure's.
Merge ==
    /\ reading = "merge"
    /\ LET new == Merged(priorityPass, draft)
       IN evidence' =
            CASE purpose = "pass" -> IF Recent THEN Merged(evidence, new) ELSE new
              [] purpose = "refresh" ->
                     Merged(Merged(evidence,
                                   IF priorityPass.error THEN Nothing ELSE priorityPass),
                            IF draft.error THEN Nothing ELSE draft)
              [] purpose = "after" ->
                     IF HasContent(evidence.logs) /\ ~HasContent(new.logs)
                     THEN [new EXCEPT !.logs = evidence.logs, !.lineage = new.pod]
                     ELSE new
    /\ captured' = IF purpose = "after" THEN captured ELSE "recent"
    /\ draft' = Nothing /\ priorityPass' = Nothing /\ reading' = "idle"
    /\ UNCHANGED <<pods_, terminating, channel, workloadKnown, targetPod, purpose,
                   collections, podMoves>>

-----------------------------------------------------------------------------
(* The cluster and the clock.                                               *)

ClusterOnly == UNCHANGED <<channel, workloadKnown, targetPod, purpose, reading, draft,
                           priorityPass, evidence, collections>>

PodChanges(p) ==
    /\ podMoves < MaxPodMoves /\ podMoves' = podMoves + 1
    /\ \/ /\ pods_[p] # "absent" /\ p \notin terminating
          /\ terminating' = terminating \cup {p} /\ UNCHANGED pods_
       \/ /\ \E s \in {"absent", "starting", "running", "crashing"} \ {pods_[p]} :
               /\ s = "starting" => pods_[p] = "absent"
               /\ s \in {"running", "crashing"} => pods_[p] # "absent"
               /\ pods_' = [pods_ EXCEPT ![p] = s]
          /\ terminating' = IF pods_'[p] = "absent" THEN terminating \ {p} ELSE terminating
    /\ UNCHANGED captured /\ ClusterOnly

EvidenceAges ==
    /\ reading = "idle" /\ captured = "recent" /\ captured' = "old"
    /\ UNCHANGED <<pods_, terminating, podMoves>> /\ ClusterOnly

EvidenceInit ==
    /\ pods_ \in [EvidencePods -> {"absent", "starting", "running", "crashing"}]
    /\ \E p \in OwnPods : pods_[p] # "absent"
    /\ terminating = {}
    /\ channel \in {"kubeconfig", "rancher", "local"}
    /\ workloadKnown \in BOOLEAN
    /\ targetPod \in OwnPods \cup {NoLivePod}
    /\ workloadKnown \/ targetPod # NoLivePod
    /\ purpose = "pass" /\ reading = "idle" /\ draft = Nothing /\ priorityPass = Nothing
    /\ evidence = Nothing /\ captured = "never"
    /\ collections = 0 /\ podMoves = 0

EvidenceNext ==
    \/ \E why \in {"pass", "refresh", "after"} : Start(why)
    \/ ListLocal \/ SelectPod \/ ReadPod \/ ReadAgain \/ ReplacePod \/ ReadLogs \/ ReadSibling
    \/ PriorityDone \/ PriorityFails
    \/ Choose_ \/ DeepSelect \/ DeepPod \/ DeepLogs
    \/ DeepRest \/ DeepOwner \/ DeepDiagnostics \/ DeepFails \/ Merge
    \/ \E p \in EvidencePods : PodChanges(p)
    \/ EvidenceAges

EvidenceSpec == EvidenceInit /\ [][EvidenceNext]_evidenceVars
-----------------------------------------------------------------------------
LogStreams == [current : EvidencePods \cup {NoLivePod}, previous : EvidencePods \cup {NoLivePod},
               read : BOOLEAN]
EvidenceRecord ==
    [pod : EvidencePods \cup {NoLivePod}, logs : [Containers -> LogStreams],
     workload : BOOLEAN, error : BOOLEAN, lineage : EvidencePods \cup {NoLivePod}]

EvidenceTypeOK ==
    /\ terminating \subseteq Present
    /\ targetPod \in EvidencePods \cup {NoLivePod}
    /\ draft \in EvidenceRecord /\ priorityPass \in EvidenceRecord
    /\ evidence \in EvidenceRecord
    /\ captured \in {"never", "recent", "old"}

\* The streams of a container are of one Pod, of p if it is a container of p.
Sources(streams) == {streams.current, streams.previous} \ {NoLivePod}
OfOnePod(logs, p) ==
    \A c \in Containers :
        /\ \A a, b \in Sources(logs[c]) : a = b
        /\ p # NoLivePod /\ c \in ContainersOf[p] => Sources(logs[c]) \subseteq {p}

(* Logs are presented as those of the Pod they were read from: over passes  *)
(* that end half way, Pods that are replaced while they are read, a sibling *)
(* that answers for a Pod without output and evidence that is reused and    *)
(* merged container by container, the two streams of a container come from  *)
(* one Pod, and what is shown of a container of the Pod in the evidence is  *)
(* that Pod's, or the evidence says that it was kept for it from an earlier *)
(* one.                                                                     *)
EvidenceIsOfOnePod ==
    /\ OfOnePod(evidence.logs, NoLivePod)
    /\ evidence.lineage # evidence.pod => OfOnePod(evidence.logs, evidence.pod)
=============================================================================
