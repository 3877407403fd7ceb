--------------------------- MODULE PermissionLadder ---------------------------
(***************************************************************************)
(* The recovery of a volume that a container cannot write to, of           *)
(* backend/app/application.py: the stages from reading the container's     *)
(* identity over a non-root context and a repair of the directory to root, *)
(* what the plans of one incident remember of them, and the hardening      *)
(* after a recovery as root.                                               *)
(*                                                                         *)
(* Plans of other Skills come between; the template of the workload is     *)
(* also edited by others, the Pods follow it later, and a read may fail.   *)
(* What the evidence shows beyond that is open at every call.  A behaviour *)
(* follows one job at a time: an operator who starts the retry plan of a   *)
(* blocked job ends that job.                                              *)
(***************************************************************************)
EXTENDS Naturals, FiniteSets

CONSTANTS
    MaxLadderPlans,   \* bound: plans of an incident
    MaxContextEdits   \* bound: edits of the template by others

ASSUME LadderBoundsAssumption == MaxLadderPlans \in Nat /\ MaxContextEdits \in Nat

\* What a template, or a Pod, says of the identity of the failing container:
\* nothing, a user above 0, the complete non-root contract, user 0, the
\* complete root contract.
Contexts == {"unset", "uid", "nonroot", "zero", "root"}
Stages == {"identity_probe", "nonroot_group", "init_owner", "root", "nonroot_hardening"}

VARIABLES
    liveContext,  \* of the template
    podContext,   \* of the Pod that fails
    probeUid,     \* what the identity probe prints: "none", "zero", "uid"
    defaultUid,   \* AUTO_OPS_DEFAULT_NON_ROOT_UID is set
    ladderAt,     \* "handle", "approve", "verify", "refused", "blocked",
                  \* "recheck" or "done"
    offered,      \* the change of the plan: a stage, "other", "none"
    planStage,    \* plan["permission_recovery_stage"]
    planStages,   \* plan["_attempted_permission_recovery_stages"]
    firstStage, firstStages, \* those of the job's initial plan
    history,      \* continuation_context["permission_recovery_stages"]
    lastChanges,  \* the stages that show in _last_failure["attempted_changes"]
    lastProbe,    \* _last_failure["change_results"] holds the probe's output
    rollbackTo,   \* the context of rollback_change, or "none"
    accepted,     \* every stage that the cluster has answered for
    ladderPlans, contextEdits

ladderVars == <<liveContext, podContext, probeUid, defaultUid, ladderAt, offered, planStage,
                planStages, firstStage, firstStages, history, lastChanges, lastProbe,
                rollbackTo, accepted, ladderPlans, contextEdits>>

-----------------------------------------------------------------------------
(* What is known when the next stage is chosen.  w and p are the contexts   *)
(* of workload and Pod as they were read, "unread" if they were not.        *)

\* The template first; the Pod's context falls back to it.  A complete
\* non-root contract that is live and fails says who, whatever else does.
Identity(w, p, live) ==
    LET of(c) == CASE c \in {"uid", "nonroot"} -> "uid" [] c \in {"zero", "root"} -> "zero"
                   [] OTHER -> "none"
    IN CASE live /\ "nonroot" \in {w, p} -> "uid"
         [] of(w) # "none" -> of(w)
         [] of(w) = "none" /\ of(p) # "none" -> of(p)
         [] of(w) = "none" /\ of(p) = "none" /\ defaultUid -> "uid"
         [] OTHER -> IF lastProbe THEN probeUid ELSE "none"

\* A stage shows in the changes that were tried by the patch: the directory
\* repair also sets the non-root contexts.
Shown(s) == IF s = "init_owner" THEN {"init_owner", "nonroot_group"} ELSE {s}

\* Mutant: only the plan at hand and its last failure are asked.
AttemptedByPlan(w, p, live) ==
    planStages \cup UNION {Shown(s) : s \in lastChanges}

\* _permission_attempted_stages, and what is live and still fails.  The stages
\* of _prior_attempts are among those of the context (line 14131).
Attempted(w, p, live) ==
    planStages \cup history \cup (UNION {Shown(s) : s \in lastChanges})
    \cup (IF live /\ "nonroot" \in {w, p} THEN {"nonroot_group"} ELSE {})
    \cup (IF live /\ (IF w \in {"unread", "unset"} THEN p ELSE w) = "root"
          THEN {"root"} ELSE {})

\* _permission_recovery_followup.  forced: root is preferred, from what the
\* logs and the volume prove or from an earlier recovery; named: the names of
\* "pod" and "container" that are known; mounted: the volume is, and there is
\* an image to repair the directory with.  "none" is the plan for the
\* administrator.
NextStage(w, p, live, forced, named, mounted) ==
    LET tried == Attempted(w, p, live)
        uid == Identity(w, p, live)
        force == forced /\ "nonroot_group" \in tried
    IN CASE ~force /\ "root" \notin tried /\ uid # "uid" /\ "identity_probe" \notin tried
            /\ named = {"pod", "container"} -> "identity_probe"
         [] ~force /\ uid = "uid" /\ "nonroot_group" \notin tried -> "nonroot_group"
         [] ~force /\ "init_owner" \notin tried /\ uid = "uid"
            /\ "nonroot_group" \in tried /\ mounted -> "init_owner"
         [] OTHER -> IF "root" \notin tried /\ "container" \in named
                      THEN "root" ELSE "none"

-----------------------------------------------------------------------------
(* Plans.                                                                   *)

LadderOnly == UNCHANGED <<liveContext, podContext, probeUid, defaultUid, lastChanges,
                          lastProbe, accepted, contextEdits>>
NewLadderPlan == ladderPlans < MaxLadderPlans /\ ladderPlans' = ladderPlans + 1
SameJob == UNCHANGED <<firstStage, firstStages>>

\* The handler makes a plan of the stage, on top of the plan it was given; at
\* the start of a pass, and again in it while the change is not yet approved.
Handle ==
    /\ ladderAt \in {"handle", "approve"} /\ NewLadderPlan
    /\ planStage # "nonroot_hardening"
    /\ \E w \in {liveContext, "unread"}, p \in {podContext, "unread"},
          live, forced, mounted \in BOOLEAN, named \in SUBSET {"pod", "container"} :
         /\ offered' = NextStage(w, p, live, forced, named, mounted)
         /\ planStages' = Attempted(w, p, live)
    /\ planStage' = IF offered' = "none" THEN planStage ELSE offered'
    /\ ladderAt' = IF offered' = "none" THEN "recheck" ELSE "approve"
    /\ UNCHANGED <<history, rollbackTo>> /\ SameJob /\ LadderOnly

\* Another Skill takes over: its handler on top of this plan, or a new plan on
\* top of the job's first one.
OtherSkill ==
    /\ ladderAt = "handle" /\ NewLadderPlan
    /\ \/ UNCHANGED <<planStage, planStages>>
       \/ planStage' = firstStage /\ planStages' = firstStages
    /\ offered' \in {"none", "other"}
    /\ ladderAt' = IF offered' = "none" THEN "recheck" ELSE "approve"
    /\ UNCHANGED <<history, rollbackTo>> /\ SameJob /\ LadderOnly

\* Nothing to change, or the channel is blocked: the plan of the next recheck,
\* with the context of the incident for its last failure.
Recheck ==
    /\ ladderAt \in {"recheck", "blocked"} /\ NewLadderPlan
    /\ history' = history \cup planStages
    /\ planStages' = planStages \cup history
    /\ lastChanges' = {} /\ lastProbe' = FALSE /\ ladderAt' = "handle"
    /\ UNCHANGED <<liveContext, podContext, probeUid, defaultUid, offered, planStage,
                   rollbackTo, accepted, contextEdits>> /\ SameJob

\* The operator starts the retry plan of a blocked job instead: its change as
\* it was, to be approved again, as the first plan of a job of its own.
Retry ==
    /\ ladderAt = "blocked" /\ NewLadderPlan
    /\ history' = history \cup planStages
    /\ planStages' = planStages \cup history
    /\ firstStage' = planStage /\ firstStages' = planStages'
    /\ lastChanges' = {} /\ lastProbe' = FALSE /\ ladderAt' = "approve"
    /\ UNCHANGED <<liveContext, podContext, probeUid, defaultUid, offered, planStage,
                   rollbackTo, accepted, contextEdits>>

-----------------------------------------------------------------------------
(* Execution.                                                               *)

\* _enforce_root_security_context_change: the patch of a plan whose stage is
\* root is one, also when another Skill has made it.
Enforced == IF offered = "other" /\ planStage = "root" THEN "root" ELSE offered

ContextAfter(change) ==
    CASE change \in {"nonroot_group", "init_owner", "nonroot_hardening"} -> "nonroot"
      [] change = "root" -> "root"
      [] OTHER -> liveContext

\* Once approved, the change is sent, and answered as accepted or as failed;
\* one that failed may have been made all the same.  An accepted stage is
\* noted on the plan at once, the probe is not.
Send_ ==
    /\ ladderAt = "approve"
    /\ \E answered, made \in BOOLEAN :
         /\ answered => made
         /\ liveContext' = IF made THEN ContextAfter(Enforced) ELSE liveContext
         /\ accepted' = IF answered THEN accepted \cup ({Enforced} \cap Stages) ELSE accepted
         /\ planStages' = IF answered /\ Enforced \in Stages \ {"identity_probe"}
                          THEN planStages \cup {Enforced} ELSE planStages
         /\ lastProbe' = (answered /\ offered = "identity_probe")
         /\ ladderAt' = IF answered THEN "verify" ELSE "refused"
    /\ UNCHANGED <<podContext, probeUid, defaultUid, offered, planStage, history, lastChanges,
                   rollbackTo, ladderPlans, contextEdits>> /\ SameJob

\* The stage of the plan goes to the history of the incident, accepted or not.
Remembered == history' = history \cup planStages \cup ({planStage} \ {"none"})

\* Not recovered: what was tried becomes the last failure, and the search goes
\* on.
StaysBroken ==
    /\ ladderAt \in {"verify", "refused"} /\ rollbackTo = "none"
    /\ lastChanges' = {Enforced} \cap Stages
    /\ Remembered
    /\ ladderAt' = "handle"
    /\ UNCHANGED <<liveContext, podContext, probeUid, defaultUid, offered, planStage,
                   planStages, lastProbe, rollbackTo, accepted, ladderPlans, contextEdits>>
    /\ SameJob

\* _operator_blocking_execution_failure: access, a certificate, the network or
\* a timeout kept the change from being made.
ChannelBlocked ==
    /\ ladderAt = "refused" /\ rollbackTo = "none"
    /\ Remembered
    /\ ladderAt' = "blocked"
    /\ UNCHANGED <<liveContext, podContext, probeUid, defaultUid, offered, planStage,
                   planStages, lastChanges, lastProbe, rollbackTo, accepted, ladderPlans,
                   contextEdits>>
    /\ SameJob

\* Recovered as root: a hardening is put up, if a non-root identity is known
\* from what was tried or configured; its rollback is the patch that recovered.
\* It is the first plan of a job of its own.
Recovers ==
    /\ ladderAt = "verify" /\ rollbackTo = "none"
    /\ \/ /\ planStage = "root" /\ offered = "root"
          /\ lastChanges \cap {"nonroot_group", "init_owner"} # {} \/ defaultUid
          /\ offered' = "nonroot_hardening" /\ planStage' = "nonroot_hardening"
          /\ rollbackTo' = "root" /\ ladderAt' = "approve"
          /\ firstStage' = planStage' /\ firstStages' = {} /\ planStages' = {}
       \/ ladderAt' = "done"
          /\ UNCHANGED <<offered, planStage, planStages, rollbackTo>> /\ SameJob
    /\ UNCHANGED <<liveContext, podContext, probeUid, defaultUid, history, lastChanges,
                   lastProbe, accepted, ladderPlans, contextEdits>>

\* A hardening that did not hold is undone; the rollback may be refused.
HardeningEnds ==
    /\ ladderAt \in {"verify", "refused"} /\ rollbackTo # "none"
    /\ liveContext' \in {liveContext, rollbackTo}
    /\ ladderAt' = "done"
    /\ UNCHANGED <<podContext, probeUid, defaultUid, offered, planStage, planStages, history,
                   lastChanges, lastProbe, rollbackTo, accepted, ladderPlans, contextEdits>>
    /\ SameJob

-----------------------------------------------------------------------------
(* The cluster.                                                             *)

ClusterMoves == UNCHANGED <<probeUid, defaultUid, ladderAt, offered, planStage, planStages,
                            firstStage, firstStages, history, lastChanges, lastProbe,
                            rollbackTo, accepted, ladderPlans>>

PodFollows == podContext' = liveContext /\ UNCHANGED <<liveContext, contextEdits>> /\ ClusterMoves

EditContext ==
    /\ contextEdits < MaxContextEdits /\ contextEdits' = contextEdits + 1
    /\ liveContext' \in Contexts /\ UNCHANGED podContext /\ ClusterMoves

LadderInit ==
    /\ liveContext \in Contexts /\ podContext = liveContext
    /\ probeUid \in {"none", "zero", "uid"} /\ defaultUid \in BOOLEAN
    /\ ladderAt = "handle" /\ offered = "none" /\ planStage = "none" /\ planStages = {}
    /\ firstStage = "none" /\ firstStages = {} /\ history = {} /\ lastChanges = {}
    /\ lastProbe = FALSE /\ rollbackTo = "none" /\ accepted = {}
    /\ ladderPlans = 0 /\ contextEdits = 0

LadderNext ==
    \/ Handle \/ OtherSkill \/ Recheck \/ Retry
    \/ Send_ \/ StaysBroken \/ ChannelBlocked \/ Recovers \/ HardeningEnds
    \/ PodFollows \/ EditContext

LadderSpec == LadderInit /\ [][LadderNext]_ladderVars
-----------------------------------------------------------------------------
LadderTypeOK ==
    /\ liveContext \in Contexts /\ podContext \in Contexts
    /\ ladderAt \in {"handle", "approve", "verify", "refused", "blocked", "recheck", "done"}
    /\ offered \in Stages \cup {"other", "none"} /\ planStage \in Stages \cup {"none"}
    /\ planStages \subseteq Stages /\ history \subseteq Stages /\ lastChanges \subseteq Stages
    /\ planStage = "nonroot_hardening" <=> rollbackTo = "root"

(* What the cluster has accepted is not put up again in an incident:        *)
(* whatever plans of other Skills, rechecks, retries, edits by others,      *)
(* failed writes and reads that fail come between.  A stage whose write     *)
(* failed may be put up again, by its retry plan only: the ladder itself    *)
(* passes over it.                                                          *)
EachStageOnce ==
    ladderAt = "approve" => offered \notin accepted
=============================================================================
