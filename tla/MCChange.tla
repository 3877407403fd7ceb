------------------------------- MODULE MCChange -------------------------------
(***************************************************************************)
(* What happens within one incident, in one instance: the evidence that is *)
(* collected, the passes over a plan, the stages of a permission recovery,   *)
(* the execution of an approved change, the verification after it, and a   *)
(* grey release.  part says which of them a behaviour is about; the others *)
(* keep the state they start in.                                           *)
(***************************************************************************)
EXTENDS ChangeExecution, RecoveryVerification, ProgressiveRollout, EvidenceCollection,
        MCPlanPass, PermissionLadder

VARIABLE part

Parts == {"execution", "recovery", "rollout", "evidence", "passes", "ladder"}
changePartVars ==
    <<part, changeVars, recoveryVars, rolloutVars, evidenceVars, passVars,
    ladderVars>>

\* The parts a behaviour is not about start in one state only.
ChangeAtRest ==
    /\ change = [type |-> CHOOSE t \in ChangeTypes : TRUE, cluster |-> LocalCluster,
                 source |-> "sre_chat", named |-> TRUE, complete |-> TRUE,
                 confirmed |-> TRUE, guarded |-> TRUE, valid |-> TRUE]
    /\ \A c \in Clusters : objects[c] # NoObject
RecoveryAtRest ==
    /\ resource = "none" /\ mutates /\ ~observed
    /\ \A p \in PodNames : ~pods[p].ready /\ pods[p].revision = "old" /\ pods[p].born # -2
EvidenceAtRest ==
    /\ pods_ = [p \in EvidencePods |-> IF p \in OwnPods THEN "running" ELSE "absent"]
    /\ channel = "local" /\ workloadKnown /\ targetPod = NoLivePod
PassAtRest == initial = NewPlan(<<>>)

LadderAtRest == liveContext = "unset" /\ probeUid = "none" /\ ~defaultUid

\* A release of an image in three batches, and of a volume with it in one.
MCPatchOf ==
    [image |-> [image |-> "new", volume |-> Absent],
     both |-> [image |-> "new", volume |-> "new"]]
MCStrategyOf ==
    [image |-> [first |-> 10, max |-> 55, step |-> 20],
     both |-> [first |-> 10, max |-> 30, step |-> 40]]

\* The namesake has one of the two containers of the workload's Pod.
MCContainersOf ==
    [p \in EvidencePods |-> IF p \in OwnPods THEN {"app", "sidecar"} ELSE {"sidecar"}]

PartsInit ==
    /\ part \in Parts
    /\ ChangeInit /\ (part # "execution" => ChangeAtRest)
    /\ RecoveryInit /\ (part # "recovery" => RecoveryAtRest)
    /\ RolloutInit /\ template = [image |-> "old", volume |-> Absent]
    /\ EvidenceInit /\ (part # "evidence" => EvidenceAtRest)
    /\ \A p \in NamesakePods : pods_[p] \in {"absent", "crashing"}
    /\ PassInit /\ (part # "passes" => PassAtRest)
    /\ LadderInit /\ (part # "ladder" => LadderAtRest)
    /\ probeUid # "zero"  \* a probe that prints 0 decides as one without a receipt

ExecutionMoves == part = "execution" /\ ChangeNext
                  /\ UNCHANGED <<part, recoveryVars, rolloutVars, evidenceVars, passVars, ladderVars>>
RecoveryMoves == part = "recovery" /\ RecoveryNext
                 /\ UNCHANGED <<part, changeVars, rolloutVars, evidenceVars, passVars, ladderVars>>
VerifierMoves == part = "recovery" /\ VerifierStep
                 /\ UNCHANGED <<part, changeVars, rolloutVars, evidenceVars, passVars, ladderVars>>
RolloutMoves == part = "rollout" /\ RolloutNext
                /\ UNCHANGED <<part, changeVars, recoveryVars, evidenceVars, passVars, ladderVars>>
EvidenceMoves == part = "evidence" /\ EvidenceNext
                 /\ UNCHANGED <<part, changeVars, recoveryVars, rolloutVars, passVars, ladderVars>>
PassMoves == part = "passes" /\ PassNext
             /\ UNCHANGED <<part, changeVars, recoveryVars, rolloutVars, evidenceVars,
                             ladderVars>>
LadderMoves == part = "ladder" /\ LadderNext
               /\ UNCHANGED <<part, changeVars, recoveryVars, rolloutVars, evidenceVars,
                               passVars>>

PartsNext ==
    \/ ExecutionMoves \/ RecoveryMoves \/ RolloutMoves
    \/ EvidenceMoves \/ PassMoves \/ LadderMoves

PartsSpec == PartsInit /\ [][PartsNext]_changePartVars /\ WF_changePartVars(VerifierMoves)

(* Type correctness of the parts.                                           *)
PartsTypeOK ==
    /\ part = "execution" => ChangeTypeOK
    /\ part = "recovery" => RecoveryTypeOK
    /\ part = "rollout" => RolloutTypeOK
    /\ part = "evidence" => EvidenceTypeOK
    /\ part = "passes" => PassTypeOK
    /\ part = "ladder" => LadderTypeOK

(* VerificationEnds of RecoveryVerification, for the behaviours about it.   *)
EveryVerificationEnds == part = "recovery" => VerificationEnds

=============================================================================
