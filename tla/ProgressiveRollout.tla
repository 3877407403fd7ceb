-------------------------- MODULE ProgressiveRollout --------------------------
(***************************************************************************)
(* A grey release: the policy of backend/app/services/progressive_         *)
(* delivery.py, _execute_progressive_change and the progressive branch of  *)
(* _probe_plan_recovery of backend/app/application.py, over an Argo        *)
(* Rollouts controller as the code uses it (external).                     *)
(*                                                                         *)
(* The commands run one after the other; the verification of an earlier    *)
(* one may still run beside them.  Every call to the cluster is a step.    *)
(***************************************************************************)
EXTENDS Integers, Sequences, FiniteSets, FiniteSetsExt

CONSTANTS
    Fields, Values,  \* what a pod template says: of each field a value or nothing
    NoTemplate,
    Releases,
    PatchOf,         \* the release patch: the fields it sets
    StrategyOf,      \* its selected_strategy: first, max and step ratio in percent
    Replicas,        \* replicas of the Deployment
    MaxCommands      \* bound: commands of operators

Absent == "absent"
\* No release, no phase.
None == "none"
Templates == [Fields -> Values \cup {Absent}]

ASSUME RolloutAssumption ==
    /\ Absent \notin Values /\ None \notin Releases /\ NoTemplate \notin Templates
    /\ PatchOf \in [Releases -> Templates]
    /\ StrategyOf \in [Releases -> [first : 1 .. 100, max : 1 .. 100, step : 1 .. 100]]
    /\ Replicas \in Nat \ {0} /\ MaxCommands \in Nat

VARIABLES
    template,   \* the pod template of the Deployment
    spec,       \* the release whose Rollout was applied last: its steps and analysis
    argo,       \* the status of the Rollout
    passed,     \* history: analyses passed for the current canary
    promoted,   \* history: the current canary was promoted
    overtaken,  \* history: another canary came while the last promotion was under way
    owner,      \* history: the release that patched the Deployment last
    relaid,     \* history: a Rollout of another release was applied since
    commandAt,  \* where the running command is
    release,    \* the release it starts
    probeAt,    \* where the verification is
    stableSeen, \* the stableRS the verification read
    reported,   \* last: progressive_phase of a probe, and the steps it expected
    commands

rolloutVars == <<template, spec, argo, passed, promoted, overtaken, owner, relaid,
                 commandAt, release, probeAt, stableSeen, reported, commands>>
earned == <<passed, promoted, overtaken>>
controller == <<argo, earned>>
desiredState == <<template, spec, owner, relaid>>
executor == <<commandAt, release, commands>>
verifier == <<probeAt, stableSeen, reported>>

\* A strategic merge patch: what it does not name stays.
PatchedBy(t, patch) == [f \in Fields |-> IF patch[f] # Absent THEN patch[f] ELSE t[f]]

-----------------------------------------------------------------------------
(* derive_canary_policy, in percent.                                        *)

CeilDiv(a, b) == (a + b - 1) \div b
RequestedMax(first, max) == IF max < first THEN first ELSE max
ReplicaFloor(replicas) == CeilDiv(100, replicas)
EffectiveFirst(first, replicas) == Max({first, ReplicaFloor(replicas)})
Unsupported(first, max, replicas) ==
    EffectiveFirst(first, replicas) > RequestedMax(first, max)

\* From the first batch in steps up to, and always with, the approved maximum.
WeightsOf(first, max, stepBy, replicas) ==
    LET start == EffectiveFirst(first, replicas)
        top == Min({RequestedMax(first, max), 99})
        below == IF start < top THEN CeilDiv(top - start, stepBy) ELSE 0
    IN [i \in 1 .. below + 1 |-> IF i <= below THEN start + (i - 1) * stepBy ELSE top]

Weights(r) ==
    WeightsOf(StrategyOf[r].first, StrategyOf[r].max, StrategyOf[r].step, Replicas)
MostOf(r) == RequestedMax(StrategyOf[r].first, StrategyOf[r].max)
\* build_rollout: weight and analysis for each batch, then a pause without end.
Batches(r) == Len(Weights(r))
FinalPause(r) == 2 * Batches(r)

-----------------------------------------------------------------------------
(* The Argo Rollouts controller.                                            *)

NoRollout == [phase |-> None, stable |-> NoTemplate, current |-> NoTemplate, steps |-> None,
              index |-> 0, pause |-> None, share |-> 0, abort |-> FALSE, ready |-> TRUE]

Canary == argo.current # argo.stable
CanStep == argo.phase = "Progressing" /\ Canary /\ ~argo.abort

\* The first template it sees becomes the stable one, without any steps.
\* What the Deployment runs by itself before that is not under its control.
ArgoAdopts ==
    /\ argo.phase = "Created"
    /\ argo' = [argo EXCEPT !.phase = "Healthy", !.stable = template, !.current = template,
                            !.steps = spec]
    /\ UNCHANGED earned

Outdated == template # argo.current \/ spec # argo.steps

\* Another template, or other steps, start the steps from the beginning and end
\* an abort; the stable template ends the steps.
ArgoObserves ==
    /\ argo.stable # NoTemplate /\ Outdated
    /\ argo' = [argo EXCEPT !.current = template, !.steps = spec, !.index = 0, !.pause = None,
                            !.share = 0, !.abort = FALSE,
                            !.phase = IF template = argo.stable THEN "Healthy"
                                      ELSE "Progressing"]
    /\ passed' = 0 /\ promoted' = FALSE
    /\ overtaken' = IF commandAt = "promote" THEN TRUE ELSE overtaken

ArgoSetsWeight ==
    /\ CanStep /\ argo.index < FinalPause(argo.steps) /\ argo.index % 2 = 0
    /\ argo' = [argo EXCEPT !.share = Weights(argo.steps)[argo.index \div 2 + 1],
                            !.index = @ + 1, !.ready = FALSE]
    /\ UNCHANGED earned

Aborted == [argo EXCEPT !.abort = TRUE, !.share = 0, !.phase = "Degraded",
                        !.pause = None, !.ready = FALSE]

ArgoAnalyses ==
    /\ CanStep /\ argo.index < FinalPause(argo.steps) /\ argo.index % 2 = 1
    /\ \/ argo' = [argo EXCEPT !.index = @ + 1] /\ passed' = passed + 1
       \/ argo' = Aborted /\ UNCHANGED passed
       \/ argo' = [argo EXCEPT !.phase = "Paused", !.pause = "inconclusive"]
          /\ UNCHANGED passed
    /\ UNCHANGED <<promoted, overtaken>>

ArgoPauses ==
    /\ CanStep /\ argo.index = FinalPause(argo.steps)
    /\ argo' = [argo EXCEPT !.phase = "Paused", !.pause = "step"]
    /\ UNCHANGED earned

ArgoConverges ==
    /\ argo.phase # None /\ ~argo.ready
    /\ argo' = [argo EXCEPT !.ready = TRUE]
    /\ UNCHANGED earned

ArgoSteps == \/ ArgoAdopts \/ ArgoObserves \/ ArgoSetsWeight
             \/ ArgoAnalyses \/ ArgoPauses \/ ArgoConverges

-----------------------------------------------------------------------------
(* _execute_progressive_change.                                             *)

Idle == commandAt = "idle"
Ends == commandAt' = "idle"

\* Whatever the command, its call may fail or run into its deadline; a start
\* ends when the Rollout it waits for is Degraded or aborted.
CommandFails ==
    /\ ~Idle /\ Ends
    /\ UNCHANGED <<desiredState, controller, verifier, release, commands>>

StartRollout(r) ==
    /\ Idle /\ commands < MaxCommands
    /\ ~Unsupported(StrategyOf[r].first, StrategyOf[r].max, Replicas)
    /\ commandAt' = "apply" /\ release' = r /\ commands' = commands + 1
    /\ UNCHANGED <<desiredState, controller, verifier>>

\* Mutant: a Rollout that is there keeps the steps it has.
ApplyOnce ==
    /\ commandAt = "apply" /\ commandAt' = "baseline"
    /\ spec' = IF spec = None THEN release ELSE spec
    /\ argo' = IF argo.phase = None THEN [argo EXCEPT !.phase = "Created"] ELSE argo
    /\ relaid' = (relaid \/ owner # release)
    /\ UNCHANGED <<template, owner, earned, verifier, release, commands>>

\* The Rollout that is there gets the steps and the analysis of this release.
ApplyRollout ==
    /\ commandAt = "apply" /\ commandAt' = "baseline"
    /\ spec' = release
    /\ argo' = IF argo.phase = None THEN [argo EXCEPT !.phase = "Created"] ELSE argo
    /\ relaid' = (relaid \/ owner # release)
    /\ UNCHANGED <<template, owner, earned, verifier, release, commands>>

\* Mutant: the Deployment is patched as soon as the Rollout is accepted.
NoBaseline ==
    /\ commandAt = "baseline"
    /\ commandAt' = "patch"
    /\ UNCHANGED <<desiredState, controller, verifier, release, commands>>

\* Healthy with the current template as the stable one; otherwise it reads
\* again, until the deadline (CommandFails).
AwaitBaseline ==
    /\ commandAt = "baseline"
    /\ argo.phase = "Healthy" /\ ~Canary
    /\ commandAt' = "patch"
    /\ UNCHANGED <<desiredState, controller, verifier, release, commands>>

PatchDeployment ==
    /\ commandAt = "patch"
    /\ template' = PatchedBy(template, PatchOf[release])
    /\ owner' = release /\ relaid' = FALSE
    /\ argo' = IF argo.stable = NoTemplate THEN [argo EXCEPT !.share = 100] ELSE argo
    /\ Ends
    /\ UNCHANGED <<spec, earned, verifier, release, commands>>

\* Mutant: any pause will do.
AtAnyPause == argo.phase = "Paused"
\* The last of the steps the Rollout has, whatever the status was made of.
AtFinalManualPause ==
    argo.phase = "Paused" /\ argo.index >= FinalPause(spec) /\ argo.pause = "step"

ReadForPromotion ==
    /\ Idle /\ commands < MaxCommands
    /\ commands' = commands + 1
    /\ AtFinalManualPause
    /\ commandAt' = "promote"
    /\ overtaken' = FALSE
    /\ UNCHANGED <<desiredState, argo, passed, promoted, verifier, release>>

\* promoteFull of whatever canary there is, over a pause, an analysis or an
\* abort; what the controller has yet to observe comes first and takes it back.
Promote ==
    /\ commandAt = "promote" /\ Ends
    /\ IF Canary /\ ~Outdated
       THEN /\ argo' = [argo EXCEPT !.phase = "Healthy", !.share = 0, !.pause = None,
                                    !.abort = FALSE, !.stable = argo.current, !.ready = FALSE]
            /\ promoted' = TRUE
       ELSE UNCHANGED <<argo, promoted>>
    /\ UNCHANGED <<desiredState, passed, overtaken, verifier, release, commands>>

Abort ==
    /\ Idle /\ commands < MaxCommands
    /\ commands' = commands + 1
    /\ argo.phase # None
    /\ argo' = IF Canary THEN Aborted ELSE [argo EXCEPT !.abort = TRUE]
    /\ UNCHANGED <<desiredState, earned, verifier, commandAt, release>>

-----------------------------------------------------------------------------
(* _probe_plan_recovery for a grey release and progressive_status.          *)

\* Mutant: every pause is the one after the last batch.
PhaseOfAnyPause(command, expected, failure) ==
    IF argo.phase = "Paused" /\ argo.ready THEN "canary_validated" ELSE "canary_running"

\* failure: a condition of the Rollout names a failed analysis, an exceeded
\* deadline or an abort.
PhaseOf(command, expected, failure) ==
    CASE command = "abort" \/ argo.abort ->
             IF argo.abort /\ argo.ready THEN "rolled_back" ELSE "aborting"
      [] command # "abort" /\ ~argo.abort /\ (argo.phase = "Degraded" \/ failure) -> "degraded"
      [] command = "promote" /\ ~argo.abort /\ ~(argo.phase = "Degraded" \/ failure) ->
             IF argo.phase = "Healthy" /\ ~Canary /\ argo.ready
             THEN "fully_promoted" ELSE "promoting"
      [] OTHER ->
             CASE argo.phase = "Paused" /\ argo.ready /\ argo.index >= expected ->
                      "canary_validated"
               [] argo.phase = "Paused" /\ ~(argo.ready /\ argo.index >= expected) ->
                      "analysis_inconclusive"
               [] OTHER -> "canary_running"

\* The final pause of the receipt of a start; without a receipt any pause will do.
Expectations == {0} \cup {FinalPause(r) : r \in Releases}
Report(phase, expected) == reported' = [phase |-> phase, expected |-> expected]

\* Mutant: what runs is restored, the Deployment's template is not.
ReportRollback ==
    /\ probeAt = "idle" /\ argo.phase # None
    /\ \E command \in {"start", "promote", "abort"}, expected \in Expectations :
          Report(PhaseOf(command, expected, FALSE), expected)
    /\ stableSeen' = argo.stable
    /\ UNCHANGED <<desiredState, controller, executor, probeAt>>

ProbeRollout ==
    /\ probeAt = "idle" /\ argo.phase # None
    /\ \E command \in {"start", "promote", "abort"}, expected \in Expectations,
          failure \in BOOLEAN :
         IF PhaseOf(command, expected, failure) = "rolled_back"
         THEN /\ probeAt' = "restore" /\ stableSeen' = argo.stable
              /\ UNCHANGED reported
         ELSE /\ Report(PhaseOf(command, expected, failure), expected)
              /\ UNCHANGED <<probeAt, stableSeen>>
    /\ UNCHANGED <<desiredState, controller, executor>>

\* _restore_progressive_source_template: the template of stableRS is merged
\* into that of the Deployment, or the rollback is not reported as done.
RestoreTemplate ==
    /\ probeAt = "restore" /\ probeAt' = "idle"
    /\ \/ /\ stableSeen # NoTemplate
          /\ template' = PatchedBy(template, stableSeen) /\ Report("rolled_back", 0)
       \/ UNCHANGED template /\ Report("aborting", 0)
    /\ UNCHANGED <<spec, owner, relaid, stableSeen, controller, executor>>

RolloutInit ==
    /\ template \in Templates /\ spec = None /\ argo = NoRollout
    /\ passed = 0 /\ promoted = FALSE /\ overtaken = FALSE
    /\ owner = None /\ relaid = FALSE
    /\ commandAt = "idle" /\ release = None /\ commands = 0
    /\ probeAt = "idle" /\ stableSeen = NoTemplate
    /\ reported = [phase |-> None, expected |-> 0]

RolloutNext ==
    \/ ArgoSteps /\ UNCHANGED <<desiredState, executor, verifier>>
    \/ \E r \in Releases : StartRollout(r)
    \/ CommandFails \/ ApplyRollout \/ AwaitBaseline \/ PatchDeployment
    \/ ReadForPromotion \/ Promote \/ Abort
    \/ ProbeRollout \/ RestoreTemplate

RolloutSpec == RolloutInit /\ [][RolloutNext]_rolloutVars

-----------------------------------------------------------------------------
RolloutTypeOK ==
    /\ template \in Templates
    /\ {spec, owner, release, argo.steps} \subseteq Releases \cup {None}
    /\ argo.stable \in Templates \cup {NoTemplate}
    /\ argo.current \in Templates \cup {NoTemplate}
    /\ argo.phase \in {None, "Created", "Healthy", "Progressing", "Paused", "Degraded"}
    /\ argo.index \in Nat /\ argo.share \in 0 .. 100
    /\ passed \in Nat /\ {promoted, overtaken, relaid} \subseteq BOOLEAN
    /\ commandAt \in {"idle", "apply", "baseline", "patch", "promote"}
    /\ probeAt \in {"idle", "restore"} /\ stableSeen \in Templates \cup {NoTemplate}
    /\ commands \in 0 .. MaxCommands

(* A version that is not stable gets traffic by the steps of one release    *)
(* and no more than that approved, which is the release that wrote it       *)
(* unless the Rollout of another was applied meanwhile: not when the        *)
(* Deployment is patched while the Rollout is still being set up, not when  *)
(* a release meets one under way or one that was aborted.                   *)
CanaryWithinEnvelope ==
    argo.share > 0 =>
        /\ argo.steps # None /\ argo.share <= MostOf(argo.steps)
        /\ ~relaid => argo.steps = owner

(* What a promotion makes stable in full has passed the analysis of every   *)
(* batch, unless another canary came between the read of the final pause    *)
(* and the patch: the patch has no precondition, and what it finds under    *)
(* way is promoted in its place.                                            *)
PromotedAfterEveryBatch ==
    promoted /\ ~overtaken => passed = Batches(argo.steps)

(* A version gets the traffic its batches have earned, before the promotion *)
(* and by it.                                                               *)
CanaryIsGuarded == CanaryWithinEnvelope /\ PromotedAfterEveryBatch

(* What a verification reports has happened.  A canary is validated when it *)
(* has passed the analysis of every batch, if the steps that run are as     *)
(* many as the receipt names; a release is rolled back when the Deployment  *)
(* has all that the stable template says, whatever was written meanwhile.   *)
(* What only the rejected version says is there as well: it is not removed. *)
ReportsAreEarned ==
    [][reported' # reported =>
        /\ reported'.phase = "canary_validated" /\ argo.steps # None
              /\ reported'.expected = FinalPause(argo.steps)
           => Canary /\ passed = Batches(argo.steps)
        /\ reported'.phase = "rolled_back"
           => /\ stableSeen' # NoTemplate
              /\ \A f \in Fields : stableSeen'[f] # Absent => template'[f] = stableSeen'[f]
      ]_rolloutVars
=============================================================================
