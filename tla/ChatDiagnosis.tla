---------------------------- MODULE ChatDiagnosis ----------------------------
(***************************************************************************)
(* A question to the SRE chat of backend/app/application.py: the target is *)
(* looked up in the cluster that was chosen, the graph of                  *)
(* agents/sre_graph.py collects what is missing, lets a model diagnose it, *)
(* plans and files the incident, and the answer is bound to the target     *)
(* again.  Pods come and go in between.  The healing agent takes tasks of  *)
(* its own callers.                                                        *)
(*                                                                         *)
(* Names are strings, "" where there is none, and a Pod is what its status *)
(* and its deep evidence say.  The router that tells questions of          *)
(* operations from others has answered; Workloads are Deployments.         *)
(***************************************************************************)
EXTENDS RemediationEngine

CONSTANTS
    Chats,
    ChatPods,
    Words,         \* names and types of changes, and "" for none
    Sits,          \* by Pod: its cluster, namespace, Workload and name
    Says,          \* by Pod: the terms of its status, events and logs
    Prefixed,      \* by Pod: the Workloads whose name and a hyphen begin its name
    Urgency,       \* by Pod: how much it explains, at the top of a listing
    Access,        \* by cluster other than the local one: "kubeconfig" or "rancher"
    Questions,     \* what operators ask
    Answers,       \* what a model may say: a cause, terms and changes
    Grants,        \* sets of types that the Skills of a plan may allow
    Tasks,         \* changes that callers of the healing agent send
    MaxChatMoves   \* bound: Pods that come or go

Names == {Sits[p][field] : p \in ChatPods, field \in {"cluster", "namespace", "workload", "name"}}
\* What binds to a Workload, what the Pod of the evidence renames, and all there is.
BoundSteps == WorkloadSteps \cup {"create_workload"}
RenamedSteps == WorkloadSteps \cup {"patch_workload_runtime_security"}
PodSteps == {"recreate_pod", "evict_pod"}
Catalog == BoundSteps \cup RenamedSteps \cup PodSteps
               \cup {"patch_service_account", "create_configmap", "cordon_node"}

ChatQuestion == [cluster : Words, namespace : Words, workload : Words, pod : Words,
                 says : SUBSET Terms, severe : BOOLEAN]
ChatChange == [type : Words, namespace : Words, workload : Words, pod : Words]

ASSUME ChatAssumption ==
    /\ {""} \cup Catalog \subseteq Words /\ "" \notin ChatPods
    /\ MaxChatMoves \in Nat
    /\ Sits \in [ChatPods -> [cluster : Words, namespace : Words, workload : Words, name : Words]]
    /\ \A c \in DOMAIN Access : Access[c] \in {"kubeconfig", "rancher"}
    /\ Prefixed \in [ChatPods -> SUBSET Names] /\ Urgency \in [ChatPods -> Nat]
    /\ \A p, q \in ChatPods : p # q => Urgency[p] # Urgency[q]
    /\ Questions \subseteq ChatQuestion /\ \A q \in Questions : q.namespace \in Names
    /\ Answers \subseteq [cause : {"known", "unknown", "missing"}, terms : SUBSET Terms,
                          changes : SUBSET ChatChange]

VARIABLES
    alive,       \* Pods there are
    chats,       \* questions under way and answered
    traces,      \* questions with an entry in _TRACE_CACHE
    written,     \* what the agents have changed
    chatMoves

chatVars == <<alive, chats, traces, written, chatMoves>>

Context(source, pods, pod, deep) == [source |-> source, pods |-> pods, pod |-> pod, deep |-> deep]
NoContext == Context("", {}, "", FALSE)
NoQuestion == [cluster |-> "", namespace |-> "", workload |-> "", pod |-> "", says |-> {}, severe |-> FALSE]
Unasked == [stage |-> "idle", ask |-> NoQuestion, cx |-> NoContext, cause |-> "",
            changes |-> {}, replaced |-> {}, skilled |-> FALSE, approval |-> FALSE,
            incident |-> FALSE, postmortem |-> FALSE]

-----------------------------------------------------------------------------
(* The target.                                                              *)

\* The owner decides, or how the name begins.
MatchesWorkload(p, workload) ==
    \/ workload = "" \/ Sits[p].workload = workload \/ workload \in Prefixed[p]
MostTelling(S) == {p \in S : \A q \in S : Urgency[q] <= Urgency[p]}

\* Mutant: a Pod that is gone is replaced by any other.
RepresentativeOfAll(pods, ask) ==
    LET named == {p \in pods : Sits[p].name = ask.pod} IN
    IF ask.pod # "" /\ named # {} THEN named
    ELSE MostTelling({p \in pods : ask.workload = "" \/ MatchesWorkload(p, ask.workload)})
\* A Pod that is gone is replaced by another one of its Workload only.
Representative(pods, ask) ==
    LET named == {p \in pods : Sits[p].name = ask.pod} IN
    IF ask.pod # "" /\ named # {} THEN named
    ELSE IF ask.pod # "" /\ ask.workload = "" THEN {}
    ELSE MostTelling({p \in pods : MatchesWorkload(p, ask.workload)})

\* In the graph a Pod that was named is taken or none is.
EvidencePod(pods, ask) ==
    IF ask.pod # "" THEN {p \in pods : Sits[p].name = ask.pod}
    ELSE MostTelling({p \in pods : MatchesWorkload(p, ask.workload)})

\* A kubeconfig cluster is read over all its namespaces.
ChatListing(ask) ==
    {p \in alive :
        /\ Sits[p].cluster \in (IF ask.cluster = "all" THEN DOMAIN Access ELSE {ask.cluster})
        /\ (ask.cluster # "all" /\ Access[ask.cluster] = "kubeconfig") \/ Sits[p].namespace = ask.namespace}
SourceOf(ask) == IF ask.cluster = "all" THEN "rancher" ELSE Access[ask.cluster]

-----------------------------------------------------------------------------
(* _chat_response_data: the context of a cluster that was chosen.           *)

AskChat(c, ask) ==
    /\ chats[c].stage = "idle"
    /\ chats' = [chats EXCEPT ![c].ask = ask,
           ![c].stage = IF ask.cluster \in DOMAIN Access \cup {"all"} THEN "asked" ELSE "graph"]
    /\ UNCHANGED <<alive, traces, written, chatMoves>>

\* Nothing that matches leaves an empty context when something was named, and
\* none otherwise; of all clusters what was listed stays.
Inventory(c) ==
    LET ask == chats[c].ask
        found == Representative(ChatListing(ask), ask)
        listed == IF ask.cluster = "all" THEN ChatListing(ask) ELSE {}
    IN
    /\ chats[c].stage = "asked"
    /\ \/ \E p \in found :
             chats' = [chats EXCEPT ![c].stage = "selected",
                           ![c].cx = Context(SourceOf(ask), ChatListing(ask), p, FALSE)]
       \/ /\ found = {}
          /\ chats' = [chats EXCEPT ![c].stage = "graph",
                 ![c].cx = IF ask.cluster = "all" \/ ask.workload # "" \/ ask.pod # ""
                           THEN Context(SourceOf(ask), listed, "", FALSE) ELSE NoContext]
    /\ UNCHANGED <<alive, traces, written, chatMoves>>

\* What was asked of all clusters is asked of the one that was found.
Deepen(c) ==
    LET ask == chats[c].ask
        p == chats[c].cx.pod
    IN
    /\ chats[c].stage = "selected"
    /\ chats' = [chats EXCEPT ![c].stage = "graph", ![c].cx.deep = p \in alive,
           ![c].ask = IF ask.cluster = "all"
                      THEN [ask EXCEPT !.cluster = Sits[p].cluster, !.namespace = Sits[p].namespace]
                      ELSE ask]
    /\ UNCHANGED <<alive, traces, written, chatMoves>>

\* A read that raises loses the context, except of all clusters.
ContextFails(c) ==
    /\ chats[c].stage \in {"asked", "selected"}
    /\ chats' = [chats EXCEPT ![c].stage = "graph",
           ![c].cx = IF chats[c].ask.cluster = "all"
                     THEN Context("rancher", {}, "", FALSE) ELSE NoContext]
    /\ UNCHANGED <<alive, traces, written, chatMoves>>

-----------------------------------------------------------------------------
(* The graph.                                                               *)

\* collect_context: what came along is kept, else the local cluster is read,
\* of whatever cluster the question is.  Without a name the Pod that looks
\* worst is looked into.
CollectContext(c) ==
    LET ask == chats[c].ask
        local == {p \in alive : Sits[p].cluster = "local" /\ Sits[p].namespace = ask.namespace}
    IN
    /\ chats[c].stage = "graph"
    /\ traces' = traces \cup {c}
    /\ IF chats[c].cx.source # ""
       THEN chats' = [chats EXCEPT ![c].stage = "collected"]
       ELSE \E p \in EvidencePod(local, ask) \cup (IF EvidencePod(local, ask) = {} THEN {""} ELSE {}) :
               chats' = [chats EXCEPT ![c].stage = IF p = "" THEN "collected" ELSE "looking",
                                      ![c].cx = Context("local", local, p, FALSE)]
    /\ UNCHANGED <<alive, written, chatMoves>>

Look(c) ==
    /\ chats[c].stage = "looking"
    /\ chats' = [chats EXCEPT ![c].stage = "collected", ![c].cx.deep = chats[c].cx.pod \in alive]
    /\ UNCHANGED <<alive, traces, written, chatMoves>>

\* Neither the MCP server nor the cluster answers: the chat says so.
GraphRaises(c) ==
    /\ chats[c].stage \in {"graph", "looking"} /\ chats[c].cx.source \in {"", "local"}
    /\ traces' = traces \cup {c}
    /\ chats' = [chats EXCEPT ![c] = [Unasked EXCEPT !.stage = "failed", !.ask = chats[c].ask]]
    /\ UNCHANGED <<alive, written, chatMoves>>

EvidenceIn(cx, ask, terms) ==
    LET deep == IF cx.deep THEN Says[cx.pod] ELSE [status |-> {}, events |-> {}, logs |-> {}]
        own == IF cx.pod = "" THEN {} ELSE Says[cx.pod].status
    IN [alert |-> ask.says, diagnosis |-> terms, own |-> own,
        status |-> own \cup UNION {Says[p].status : p \in cx.pods},
        events |-> deep.events, logs |-> deep.logs,
        read |-> deep.status \cup deep.events \cup deep.logs]

\* _target: without a Pod of its own a plan takes the first one of the listing.
TargetPods(cx) ==
    IF cx.pod # "" THEN {cx.pod} ELSE IF cx.pods # {} THEN cx.pods ELSE {""}
TargetIn(ask, p) ==
    [namespace |-> ask.namespace,
     workload |-> IF ask.workload # "" \/ p = "" THEN ask.workload ELSE Sits[p].workload,
     pod |-> IF ask.pod # "" \/ p = "" THEN ask.pod ELSE Sits[p].name,
     seen |-> p # ""]

\* _fallback_diagnosis: any Pod that was listed may be the one that crashes.
Fallback(e) ==
    LET text == e.own \cup e.events \cup e.logs \cup e.read IN
    CASE \/ "permission denied" \in text
         \/ {"cannot open database", "mount_path"} \subseteq text -> [cause |-> "known", terms |-> {}]
      [] (e.status \cup text) \cap RunbookTerms.crash_unknown # {} \/ "imagepullbackoff" \in e.status \cup text ->
             [cause |-> "known", terms |-> {"crashloopbackoff", "crashloop", "imagepullbackoff"}]
      [] OTHER -> [cause |-> "unknown", terms |-> {}]

\* Changes of a model's go before the engine's, when the catalogue knows them.
Adopted(answer, engine) ==
    LET known == {x \in answer.changes : x.type \in Catalog} IN
    IF known # {} THEN known ELSE engine

Diagnose(c) ==
    LET cx == chats[c].cx
        ask == chats[c].ask
        without == Fallback(EvidenceIn(cx, ask, {}))
        none == [cause |-> without.cause, terms |-> without.terms, changes |-> {}]
    IN
    /\ chats[c].stage = "collected"
    /\ \E answer \in Answers \cup {none}, p \in TargetPods(cx) :
          chats' = [chats EXCEPT ![c].stage = "diagnosed", ![c].cause = answer.cause,
              ![c].changes = Adopted(answer,
                                 EnginePlan(EvidenceIn(cx, ask, answer.terms), TargetIn(ask, p)))]
    /\ UNCHANGED <<alive, traces, written, chatMoves>>

\* decide_action reads a cause that the model may have left out.
DecideAction(c) ==
    /\ chats[c].stage = "diagnosed" /\ chats[c].cause # "missing"
    /\ chats' = [chats EXCEPT ![c].stage = "decided", ![c].approval = chats[c].changes # {}]
    /\ UNCHANGED <<alive, traces, written, chatMoves>>
CauseMissing(c) ==
    /\ chats[c].stage = "diagnosed" /\ chats[c].cause = "missing"
    /\ chats' = [chats EXCEPT ![c] = [Unasked EXCEPT !.stage = "failed", !.ask = chats[c].ask]]
    /\ UNCHANGED <<alive, traces, written, chatMoves>>

\* call_healing_agent: a plan waits for an operations job, and without one there
\* is nothing to call for.
CallHealingAgent(c) ==
    /\ chats[c].stage = "decided"
    /\ chats' = [chats EXCEPT ![c].stage = "healing"]
    /\ UNCHANGED <<alive, traces, written, chatMoves>>

\* The incident is filed by its agent or in its place.
CallIncidentAgent(c) ==
    /\ chats[c].stage = "healing"
    /\ chats' = [chats EXCEPT ![c].incident = TRUE,
           ![c].stage = IF chats[c].ask.severe THEN "postmortem" ELSE "summarize"]
    /\ UNCHANGED <<alive, traces, written, chatMoves>>
CallPostmortemAgent(c) ==
    /\ chats[c].stage = "postmortem"
    /\ chats' = [chats EXCEPT ![c].postmortem = TRUE, ![c].stage = "summarize"]
    /\ UNCHANGED <<alive, traces, written, chatMoves>>

-----------------------------------------------------------------------------
(* The answer.                                                              *)

Foreign(x, ask) ==
    \/ ask.workload # "" /\ x.type \in BoundSteps /\ x.workload \notin {"", ask.workload}
    \/ ask.pod # "" /\ x.type \in PodSteps /\ x.pod \notin {"", ask.pod}

\* Mutant: what the model did not name stays without a name.
ReboundIfNamed(x, ask) ==
    IF ask.workload # "" /\ x.workload # "" THEN [x EXCEPT !.namespace = ask.namespace] ELSE x
Rebound(x, ask) ==
    IF ask.workload # "" /\ x.type \in BoundSteps
    THEN [x EXCEPT !.namespace = ask.namespace, !.workload = ask.workload]
    ELSE IF ask.pod # "" /\ x.type \in PodSteps
    THEN [x EXCEPT !.namespace = ask.namespace, !.pod = ask.pod]
    ELSE x

\* _enforce_chat_target_binding.
BoundTo(ask, changes) == {Rebound(x, ask) : x \in {x \in changes : ~Foreign(x, ask)}}

\* _attach_operator_skills_to_chat: the Pod the context is about has the last
\* word on the namespace and the Workload, when it is of another cluster.
Placed(x, cx) ==
    IF cx.source \notin {"rancher", "kubeconfig"} \/ cx.pod = "" THEN x
    ELSE [x EXCEPT !.namespace = Sits[cx.pod].namespace,
                   !.workload = IF x.type \in RenamedSteps
                                THEN Sits[cx.pod].workload ELSE @]

\* A built-in Skill that executes plans anew: for the Workload of the first
\* change that is left, or of the plan, and for the Pod of the evidence.
SkillTarget(ask, cx, first) ==
    LET managed == cx.source \in {"rancher", "kubeconfig"} /\ cx.pod # ""
        own == IF managed THEN Sits[cx.pod].workload
               ELSE IF ask.workload # "" THEN ask.workload
               ELSE IF ask.pod = "" /\ cx.pod # "" THEN Sits[cx.pod].workload ELSE ask.pod
    IN [namespace |-> IF first.namespace # "" THEN first.namespace
                      ELSE IF managed THEN Sits[cx.pod].namespace ELSE ask.namespace,
        workload |-> IF first.workload # "" THEN first.workload ELSE own,
        pod |-> IF cx.pod # "" THEN Sits[cx.pod].name ELSE ask.pod,
        seen |-> cx.pod # ""]

\* What the handlers of these Skills bring: the repairs of the runbooks they
\* accept, a stage of a permission recovery, or nothing yet.
Brought(at) ==
    {{}, {[Step("patch_workload_runtime_security", at) EXCEPT !.workload = at.workload]}}
    \cup {{Step(type, at)} : type \in {"create_configmap", "cordon_node", "patch_workload",
                                      "rollback_workload", "scale_out"}}
    \cup {{Step("patch_workload", at), Step("patch_service_account", at)}}
    \cup (IF at.pod # "" THEN {{Step("recreate_pod", at)}} ELSE {})

\* summarize, and what is done with its answer: the changes are bound, and the
\* Skill that fits best takes those away that it does not allow, or replaces
\* them all by its own.
Summarize(c) ==
    LET ask == chats[c].ask
        cx == chats[c].cx
        bound == {Placed(x, cx) : x \in BoundTo(ask, chats[c].changes)}
        firsts == IF bound = {} THEN {[namespace |-> "", workload |-> ""]} ELSE bound
    IN
    /\ chats[c].stage = "summarize"
    /\ traces' = traces \ {c}
    /\ \E grant \in Grants :
          \/ chats' = [chats EXCEPT ![c].stage = "answered",
                 ![c].changes = {x \in bound : x.type \in grant}]
          \/ \E first \in firsts : \E own \in Brought(SkillTarget(ask, cx, first)) :
                chats' = [chats EXCEPT ![c].stage = "answered", ![c].skilled = TRUE,
                    ![c].replaced = bound, ![c].changes = {x \in own : x.type \in grant}]
    /\ UNCHANGED <<alive, written, chatMoves>>

-----------------------------------------------------------------------------
(* The healing agent, and the clusters.                                     *)

\* Mutant: the caller says whether it is in earnest.
DryRunAsAsked(task) == task.dryRun
DryRun(task) == TRUE

HandleTask(task) ==
    /\ written' = IF DryRun(task) THEN written
                  ELSE written \cup {x \in task.changes : x.type \in Catalog}
    /\ UNCHANGED <<alive, chats, traces, chatMoves>>

PodComesOrGoes(p) ==
    /\ chatMoves < MaxChatMoves /\ chatMoves' = chatMoves + 1
    /\ alive' = IF p \in alive THEN alive \ {p} ELSE alive \cup {p}
    /\ UNCHANGED <<chats, traces, written>>

ChatInit ==
    /\ alive = ChatPods /\ chats = [c \in Chats |-> Unasked]
    /\ traces = {} /\ written = {} /\ chatMoves = 0

ChatNext ==
    \/ \E c \in Chats :
          \/ \E ask \in Questions : AskChat(c, ask)
          \/ Inventory(c) \/ Deepen(c) \/ ContextFails(c)
          \/ CollectContext(c) \/ Look(c) \/ GraphRaises(c) \/ Diagnose(c)
          \/ DecideAction(c) \/ CauseMissing(c) \/ CallHealingAgent(c)
          \/ CallIncidentAgent(c) \/ CallPostmortemAgent(c) \/ Summarize(c)
    \/ \E task \in Tasks : HandleTask(task)
    \/ \E p \in ChatPods : PodComesOrGoes(p)

ChatSpec == ChatInit /\ [][ChatNext]_chatVars

-----------------------------------------------------------------------------
ChatStages == {"idle", "asked", "selected", "graph", "looking", "collected", "diagnosed",
               "decided", "healing", "postmortem", "summarize", "answered", "failed"}

(* Type correctness.                                                        *)
ChatTypeOK ==
    /\ alive \subseteq ChatPods /\ traces \subseteq Chats /\ chatMoves \in 0..MaxChatMoves
    /\ \A c \in Chats : /\ chats[c].stage \in ChatStages
                        /\ chats[c].cx.pods \subseteq ChatPods
                        /\ chats[c].cx.pod \in ChatPods \cup {""}
                        /\ \A x \in chats[c].changes : x.type \in Catalog

Answered(c) == chats[c].stage = "answered"
AskedOf(c) == chats[c].ask

\* Workloads the model named in changes that the binding leaves as they are.
Unbound(c) == {x.workload : x \in {x \in chats[c].replaced : x.type \notin BoundSteps}}

(* Whatever the model proposes, whatever Pods go meanwhile and whatever a   *)
(* Skill brings: evidence is of a Pod that the question names, or of one    *)
(* whose owner or name leads to the Workload it names; a change of a        *)
(* Workload is of the one named or of the owner of that Pod, unless a Skill *)
(* took its target from a change that is not bound; one of a Pod is of the  *)
(* Pod named or, when a Skill rebuilds it, of the Pod of the evidence; and  *)
(* none is made before an operations job has it approved.                   *)
AnswersAreBound ==
    /\ written = {}
    /\ \A c \in Chats : Answered(c) =>
          LET pod == chats[c].cx.pod
              skilled == chats[c].skilled
              owner == IF pod # "" THEN {Sits[pod].workload} ELSE {}
          IN
          /\ chats[c].changes # {} => chats[c].approval \/ skilled
          /\ pod # "" => \/ AskedOf(c).pod # "" /\ Sits[pod].name = AskedOf(c).pod
                         \/ AskedOf(c).workload # "" /\ MatchesWorkload(pod, AskedOf(c).workload)
                         \/ AskedOf(c).workload = "" /\ AskedOf(c).pod = ""
          /\ \A x \in chats[c].changes :
                /\ AskedOf(c).workload # "" /\ x.type \in BoundSteps =>
                       x.workload \in {AskedOf(c).workload} \cup owner \cup Unbound(c)
                /\ AskedOf(c).pod # "" /\ x.type \in PodSteps =>
                       \/ x.pod = AskedOf(c).pod
                       \/ skilled /\ pod # "" /\ x.pod = Sits[pod].name

(* _enforce_chat_target_binding keeps "every executable action on the       *)
(* operator-selected target": the Workload in the namespace that was chosen.*)
ChatStaysOnTarget ==
    \A c \in Chats : Answered(c) /\ AskedOf(c).workload # "" =>
        \A x \in chats[c].changes : x.type \in BoundSteps =>
            x.workload = AskedOf(c).workload /\ x.namespace = AskedOf(c).namespace
=============================================================================
