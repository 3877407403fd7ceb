------------------------- MODULE RecoveryVerification -------------------------
(***************************************************************************)
(* _verify_plan_recovery of backend/app/application.py after the changes   *)
(* of a plan have completed: a grace period, probes of the workload's pods *)
(* until a deadline, an assessment of every recovered pod and, over a      *)
(* stability window, the same again every few seconds.                     *)
(*                                                                         *)
(* The controller and the pods move between any two calls of the verifier; *)
(* time passes while it sleeps and while a probe runs.  Pods of the old    *)
(* revision may be created anew while the rollout is on its way.           *)
(***************************************************************************)
EXTENDS Integers, Sequences, SequencesExt, FiniteSets, FiniteSetsExt

CONSTANTS
    PodNames,
    Desired,            \* spec.replicas
    VerifyTimeout, VerifyInterval, VerifyGrace, Stability, \* in seconds
    ProbeSeconds,       \* bound: the longest a probe takes
    AssessLimit,        \* recovered pods that are assessed, 20 in the code
    MaxRestarts,        \* bound: restarts of a pod
    MaxMoves            \* bound: steps of the controller and the pods

ASSUME VerifyAssumption ==
    /\ IsFiniteSet(PodNames)
    /\ Desired \in Nat \ {0} /\ AssessLimit \in Nat \ {0}
    /\ {VerifyTimeout, VerifyGrace, Stability, ProbeSeconds, MaxRestarts, MaxMoves}
           \subseteq Nat
    /\ VerifyInterval \in Nat \ {0}

VARIABLES
    clock,
    pods,          \* the pods of the workload
    observed,      \* observedGeneration has reached the generation of the patch
    failing,       \* a failure signature in the state or current log of a pod
    resource,      \* the resource the change names, e.g. a PVC or an HPA
    mutates,       \* a change patches the template or scales out, and was not there yet
    moves,
    step,          \* where the verifier is
    probe,         \* last: the result of the last probe
    todo,          \* pods still to assess in this round
    verdict,       \* of the round: passed, failed or unknown
    restartSamples,\* plan["_verification_restart_samples"], -1 for none
    windowEnd,     \* stable_deadline, 0 before the window
    verified,      \* what is returned: status and recovered
    stopped,       \* cancel_event
    firstRestarts, \* history: restarts of a pod at its first assessment
    assessedAt,    \* history: when the round of assessments before ended
    widestGap      \* history: the longest time between two rounds in the window

recoveryVars == <<clock, pods, observed, failing, resource, mutates, moves, step, probe, todo,
                  verdict, restartSamples, windowEnd, verified, stopped,
                  firstRestarts, assessedAt, widestGap>>
world == <<pods, observed, failing, resource, mutates, moves>>

NoPod == [there |-> FALSE, revision |-> "old", born |-> 0, ready |-> FALSE,
          restarts |-> 0, failed |-> FALSE]
NewPod(revision, born, ready) ==
    [there |-> TRUE, revision |-> revision, born |-> born, ready |-> ready,
     restarts |-> 0, failed |-> FALSE]
There == {p \in PodNames : pods[p].there}
\* The clock begins when the last of the changes is sent, which is when the pods
\* of it begin to count, if there must be any: two seconds are allowed to the
\* clocks.  Other changes may be proved by the pods there are.
MutationStarted == 0
Tolerance == 2
CreatedAfter(p) == pods[p].born >= MutationStarted - Tolerance

-----------------------------------------------------------------------------
(* _probe_plan_recovery                                                     *)

\* _current_rollout_pod_cohort: of several revisions the one created last.
Cohort(active) ==
    IF active = {} THEN {}
    ELSE LET last == CHOOSE p \in active : \A q \in active : pods[p].born >= pods[q].born
         IN {p \in active : pods[p].revision = pods[last].revision}

Running == {p \in There : ~pods[p].failed}

\* Mutant: the old pods are judged while there is no new one.
ForHealthAnyway ==
    LET judged == IF Running # {} THEN Cohort(Running) ELSE There
        new == {p \in judged : mutates => CreatedAfter(p)}
    IN IF new = {} THEN judged ELSE new
\* The pods that are judged.
ForHealth == {p \in IF Running # {} THEN Cohort(Running) ELSE There : mutates => CreatedAfter(p)}
Unresolved == {p \in ForHealth : ~pods[p].ready \/ p \in failing}
Terminal == {p \in Unresolved : pods[p].failed \/ p \in failing}

ProbeResult ==
    CASE resource = "pending" ->
             [status |-> "completed", recovered |-> FALSE, pods |-> {}, terminal |-> FALSE]
      [] resource = "unreadable" \/ (resource # "pending" /\ ForHealth = {}) ->
             [status |-> IF resource = "unreadable" \/ There = {}
                         THEN "unknown" ELSE "progressing",
              recovered |-> FALSE, pods |-> {}, terminal |-> FALSE]
      [] OTHER ->
             [status |-> "completed", recovered |-> Unresolved = {},
              pods |-> IF Unresolved = {} THEN ForHealth ELSE {},
              terminal |-> Terminal # {}]

NotProbed == [status |-> "none", recovered |-> FALSE, pods |-> {}, terminal |-> FALSE]

-----------------------------------------------------------------------------
(* _assess_recovery_criteria                                                *)

\* Of a Deployment: every replica updated, ready and available, none left over.
RolloutComplete ==
    /\ observed
    /\ Cardinality({p \in There : pods[p].revision = "new"}) >= Desired
    /\ Cardinality({p \in There : pods[p].ready}) >= Desired
    /\ \A p \in There : pods[p].ready

\* The first sample may show one restart, a later one none since the last.
RestartsStable(p) ==
    IF restartSamples[p] >= 0 THEN pods[p].restarts <= restartSamples[p]
    ELSE pods[p].restarts <= 1

\* The criteria that need a probe of their own may fail or not be evaluated.
CriteriaOf(p, external) ==
    IF ~pods[p].ready \/ ~RolloutComplete \/ ~RestartsStable(p) \/ p \in failing
       \/ external = "failed"
    THEN "failed"
    ELSE external

\* The aggregate over the pods: what failed once stays failed.
Joined(a, b) == CASE "failed" \in {a, b} -> "failed"
                  [] "failed" \notin {a, b} /\ "unknown" \in {a, b} -> "unknown"
                  [] OTHER -> "passed"

-----------------------------------------------------------------------------
(* _verify_plan_recovery                                                    *)

Deadline == VerifyTimeout
GraceEnd == Min({VerifyGrace, VerifyTimeout})
Later(t) == clock' = t
Elapsed == \E d \in 0 .. ProbeSeconds : Later(clock + d)

Finish(status, recovered) ==
    /\ step' = "returned"
    /\ verified' = [status |-> status, recovered |-> recovered]

WaitGrace ==
    /\ step = "grace"
    /\ CASE clock >= GraceEnd -> step' = "probe" /\ UNCHANGED <<clock, verified>>
         [] clock < GraceEnd /\ stopped -> Finish("cancelled", "false") /\ UNCHANGED clock
         [] OTHER -> Later(clock + 1) /\ UNCHANGED <<step, verified>>
    /\ UNCHANGED <<world, probe, todo, verdict, restartSamples, windowEnd, stopped,
                   firstRestarts, assessedAt, widestGap>>

Probe ==
    /\ step \in {"probe", "reprobe"}
    /\ Elapsed
    /\ probe' = ProbeResult
    /\ todo' = SubSeq(SetToSeq(ProbeResult.pods), 1,
                      Min({AssessLimit, Cardinality(ProbeResult.pods)}))
    /\ verdict' = "passed"
    /\ CASE step = "probe" -> step' = "wait" /\ UNCHANGED verified
         [] step = "reprobe" /\ ~ProbeResult.recovered -> Finish("needs_followup", "false")
         [] OTHER -> step' = "assess" /\ UNCHANGED verified
    /\ UNCHANGED <<world, restartSamples, windowEnd, stopped, firstRestarts, assessedAt,
                   widestGap>>

\* Mutant: the loop goes on at the deadline.
WaitPastDeadline ==
    /\ step = "wait" /\ ~probe.recovered /\ clock <= Deadline
    /\ Later(Min({clock + VerifyInterval, Deadline}))
    /\ step' = "probe"
    /\ UNCHANGED <<verified, world, probe, todo, verdict, restartSamples, windowEnd, stopped,
                   firstRestarts, assessedAt, widestGap>>

\* The loop until the deadline.
WaitRecovered ==
    /\ step = "wait"
    /\ CASE probe.recovered -> step' = "assess" /\ UNCHANGED <<clock, verified>>
         [] ~probe.recovered /\ clock >= Deadline ->
                Finish(probe.status, "false") /\ UNCHANGED clock
         [] ~probe.recovered /\ clock < Deadline /\ probe.terminal ->
                Finish("needs_followup", "false") /\ UNCHANGED clock
         [] ~probe.recovered /\ clock < Deadline /\ ~probe.terminal /\ stopped ->
                Finish("cancelled", "false") /\ UNCHANGED clock
         [] OTHER -> /\ Later(Min({clock + VerifyInterval, Deadline}))
                     /\ step' = "probe" /\ UNCHANGED verified
    /\ UNCHANGED <<world, probe, todo, verdict, restartSamples, windowEnd, stopped,
                   firstRestarts, assessedAt, widestGap>>

\* assess_all_recovered_pods, one pod after the other.  A pod that is gone has
\* no evidence, and any call may fail: nothing is closed then.
Assess ==
    /\ step = "assess" /\ todo # <<>>
    /\ LET p == Head(todo) IN
       \/ /\ pods[p].there
          /\ \E external \in {"passed", "failed", "unknown"} :
                verdict' = Joined(verdict, CriteriaOf(p, external))
          /\ restartSamples' = [restartSamples EXCEPT ![p] = pods[p].restarts]
          /\ firstRestarts' = [firstRestarts EXCEPT
                ![p] = IF @ = -1 THEN pods[p].restarts ELSE @]
          /\ todo' = Tail(todo)
          /\ UNCHANGED <<step, verified>>
       \/ /\ Finish("unknown", "none")
          /\ UNCHANGED <<verdict, restartSamples, firstRestarts, todo>>
    /\ UNCHANGED <<clock, world, probe, windowEnd, stopped, assessedAt, widestGap>>

InWindow == windowEnd > 0

\* Mutant: there is no window.
JudgeOnce ==
    /\ step = "assess" /\ todo = <<>>
    /\ IF verdict = "passed" THEN Finish("verified", "true")
       ELSE Finish(IF verdict = "failed" THEN "needs_followup" ELSE "unknown", "none")
    /\ assessedAt' = clock
    /\ UNCHANGED <<clock, world, probe, todo, verdict, restartSamples, windowEnd, stopped,
                   firstRestarts, widestGap>>

\* The end of a round of assessments, before the window and in it.
Judge ==
    /\ step = "assess" /\ todo = <<>>
    /\ assessedAt' = clock
    /\ widestGap' = IF InWindow THEN Max({widestGap, clock - assessedAt}) ELSE widestGap
    /\ CASE verdict = "failed" \/ (verdict = "unknown" /\ InWindow) ->
                Finish("needs_followup", "false") /\ UNCHANGED windowEnd
         [] verdict = "unknown" /\ ~InWindow ->
                Finish("unknown", "none") /\ UNCHANGED windowEnd
         [] verdict = "passed" /\ ~InWindow /\ Stability = 0 ->
                Finish("verified", "true") /\ UNCHANGED windowEnd
         [] verdict = "passed" /\ ~InWindow /\ Stability > 0 ->
                /\ windowEnd' = clock + Stability
                /\ step' = "window" /\ UNCHANGED verified
         [] OTHER -> step' = "window" /\ UNCHANGED <<verified, windowEnd>>
    /\ UNCHANGED <<clock, world, probe, todo, verdict, restartSamples, stopped,
                   firstRestarts>>

Window ==
    /\ step = "window"
    /\ CASE clock >= windowEnd -> Finish("verified", "true") /\ UNCHANGED clock
         [] clock < windowEnd /\ stopped -> Finish("cancelled", "false") /\ UNCHANGED clock
         [] OTHER -> /\ Later(Min({clock + VerifyInterval, windowEnd}))
                     /\ step' = "reprobe" /\ UNCHANGED verified
    /\ UNCHANGED <<world, probe, todo, verdict, restartSamples, windowEnd, stopped,
                   firstRestarts, assessedAt, widestGap>>

VerifierStep ==
    WaitGrace \/ Probe \/ WaitRecovered \/ Assess \/ Judge \/ Window

-----------------------------------------------------------------------------
(* The world of the verifier.                                               *)

Set(p, pod) == pods' = [pods EXCEPT ![p] = pod]

\* A new pod has a name of its own: the name of a removed pod does not come back.
PodMoves(p) ==
    \/ /\ ~pods[p].there /\ pods[p].born = 0
       /\ \E r \in {"old", "new"}, ready \in BOOLEAN :
             Set(p, NewPod(r, clock + 1, ready))
    \/ /\ pods[p].there
       /\ \/ Set(p, [pods[p] EXCEPT !.ready = ~@])
          \/ pods[p].restarts < MaxRestarts
             /\ Set(p, [pods[p] EXCEPT !.restarts = @ + 1])
          \/ Set(p, [pods[p] EXCEPT !.failed = TRUE, !.ready = FALSE])
          \/ Set(p, [pods[p] EXCEPT !.there = FALSE, !.ready = FALSE])

Move ==
    /\ step # "returned" /\ moves < MaxMoves
    /\ moves' = moves + 1
    /\ \/ (\E p \in PodNames : PodMoves(p)) /\ UNCHANGED <<observed, failing, resource, mutates>>
       \/ observed' = TRUE /\ UNCHANGED <<pods, failing, resource, mutates>>
       \/ /\ \E p \in There :
                failing' = (failing \ {p}) \cup ({p} \ failing)
          /\ UNCHANGED <<pods, observed, resource, mutates>>
       \/ /\ resource # "none"
          /\ resource' \in {"pending", "unreadable", "converged"} \ {resource}
          /\ UNCHANGED <<pods, observed, failing, mutates>>
    /\ UNCHANGED <<clock, step, probe, todo, verdict, restartSamples, windowEnd, verified,
                   stopped, firstRestarts, assessedAt, widestGap>>

StopVerify ==
    /\ ~stopped /\ step # "returned"
    /\ stopped' = TRUE
    /\ UNCHANGED <<clock, world, step, probe, todo, verdict, restartSamples, windowEnd,
                   verified, firstRestarts, assessedAt, widestGap>>

\* One pod is there, from long before or just before the change was sent, and
\* the change has just been accepted.  Changes of one resource patch no template.
RecoveryInit ==
    /\ clock = 0 /\ moves = 0
    /\ mutates \in BOOLEAN
    /\ \E p \in PodNames, born \in {-3, -2}, revision \in {"old", "new"}, ready \in BOOLEAN :
          /\ p = CHOOSE q \in PodNames : TRUE
          /\ ~mutates => born = -3 /\ revision = "new"
          /\ pods = [q \in PodNames |->
                        IF q = p THEN NewPod(revision, born, ready) ELSE NoPod]
    /\ observed \in {FALSE, ~mutates} /\ failing = {}
    /\ resource \in {"none", "pending"} /\ (mutates => resource = "none")
    /\ step = "grace" /\ probe = NotProbed /\ todo = <<>> /\ verdict = "passed"
    /\ restartSamples = [p \in PodNames |-> -1]
    /\ firstRestarts = [p \in PodNames |-> -1]
    /\ windowEnd = 0 /\ stopped = FALSE
    /\ verified = [status |-> "none", recovered |-> "none"]
    /\ assessedAt = 0 /\ widestGap = 0

RecoveryNext == VerifierStep \/ Move \/ StopVerify

\* The coroutine is scheduled as long as it can run.
RecoverySpec == RecoveryInit /\ [][RecoveryNext]_recoveryVars
                /\ WF_recoveryVars(VerifierStep)

-----------------------------------------------------------------------------
RecoveryTypeOK ==
    /\ clock \in Nat /\ moves \in 0 .. MaxMoves
    /\ pods \in [PodNames -> [there : BOOLEAN, revision : {"old", "new"}, born : Int,
                              ready : BOOLEAN, restarts : 0 .. MaxRestarts,
                              failed : BOOLEAN]]
    /\ observed \in BOOLEAN /\ mutates \in BOOLEAN /\ failing \subseteq PodNames
    /\ resource \in {"none", "pending", "unreadable", "converged"}
    /\ step \in {"grace", "probe", "wait", "assess", "window", "reprobe", "returned"}
    /\ probe.pods \subseteq PodNames
    /\ todo \in Seq(PodNames) /\ verdict \in {"passed", "failed", "unknown"}
    /\ restartSamples \in [PodNames -> -1 .. MaxRestarts]
    /\ firstRestarts \in [PodNames -> -1 .. MaxRestarts]
    /\ windowEnd \in Nat /\ assessedAt \in Nat /\ widestGap \in Nat
    /\ verified.status \in {"none", "cancelled", "needs_followup", "unknown", "verified",
                            "completed", "progressing"}
    /\ stopped \in BOOLEAN

(* Recovery is reported verified only over a whole stability window in      *)
(* which round followed round within the interval and the time of a probe,  *)
(* and in which no pod restarted between the first and the last round that  *)
(* assessed it.                                                             *)
VerifiedThroughTheWindow ==
    verified.status = "verified" =>
        /\ clock >= windowEnd
        /\ Stability > 0 => InWindow /\ widestGap <= VerifyInterval + ProbeSeconds
        /\ \A p \in PodNames : restartSamples[p] = firstRestarts[p]

(* When the change must make new pods, no pod that is clearly older was     *)
(* assessed in any round, whatever the controller did meanwhile; otherwise  *)
(* some pod there is was.                                                   *)
VerifiedOnNewPods ==
    verified.status = "verified" =>
        /\ probe.pods # {}
        /\ mutates => \A p \in PodNames :
                         p \in probe.pods \/ firstRestarts[p] # -1 => CreatedAfter(p)

(* A recovery that is reported was earned: over the window, and on new pods *)
(* where there must be any.                                                 *)
RecoveryIsEarned == VerifiedThroughTheWindow /\ VerifiedOnNewPods

(* The verification ends: it does not wait for a pod that never comes.      *)
VerificationEnds == <>(step = "returned")
=============================================================================
