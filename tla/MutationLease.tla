---------------------------- MODULE MutationLease ----------------------------
(***************************************************************************)
(* The lease that gates Kubernetes writes in backend/app/application.py:   *)
(* _acquire_ops_execution_lease, _release_ops_execution_lease and the two  *)
(* places of _execute_ops_plan_once that hold a lease around               *)
(* _execute_change.                                                        *)
(*                                                                         *)
(* The bodies guarded by OPS_EXECUTION_CONDITION do not suspend once they  *)
(* hold it, so a grant and a release are atomic.  A refused job waits on   *)
(* the condition for at most one second and tries again; its cancel event  *)
(* is tested before each try.  A lost wake-up is therefore only a delay    *)
(* and the wait set itself is not modelled.                                *)
(*                                                                         *)
(* The write runs in an executor thread or as an HTTP call.  When the      *)
(* coroutine stops waiting for it (deadline of run_with_heartbeat, or the  *)
(* operator's cancel) the lease is released in a finally clause, but a     *)
(* thread cannot be interrupted: the call may live on as a stray call.     *)
(***************************************************************************)
EXTENDS LeaseTable

CONSTANTS
    NoTarget,    \* no change under way
    MaxChanges,  \* bound: changes one job executes
    MaxStray     \* bound: stray calls per target

ASSUME NoTargetAssumption == NoTarget \notin Targets
ASSUME BoundsAssumption == MaxChanges \in Nat /\ MaxStray \in Nat

VARIABLES
    phase,          \* where each job's coroutine is
    goal,           \* target_key of the job's current change
    stopped,        \* jobs whose cancel_event is set
    changesLeft,    \* changes the job may still start
    stray           \* calls on a target that no coroutine waits for any more

vars == <<activeJobs, activeTargets, phase, goal, stopped, changesLeft, stray>>

Phases == {"idle", "queued", "holding"}

Init ==
    /\ LeaseInit
    /\ phase = [j \in Jobs |-> "idle"]
    /\ goal = [j \in Jobs |-> NoTarget]
    /\ stopped = {}
    /\ changesLeft = [j \in Jobs |-> MaxChanges]
    /\ stray = [t \in Targets |-> 0]

-----------------------------------------------------------------------------
Leaves(j) ==
    /\ phase' = [phase EXCEPT ![j] = "idle"]
    /\ goal' = [goal EXCEPT ![j] = NoTarget]

(* A coroutine reaches the next change of its plan: the loop stops when the *)
(* cancel event is set, otherwise it asks for the lease of the target.      *)
Request(j, t) ==
    /\ phase[j] = "idle"
    /\ j \notin stopped
    /\ changesLeft[j] > 0
    /\ phase' = [phase EXCEPT ![j] = "queued"]
    /\ goal' = [goal EXCEPT ![j] = t]
    /\ changesLeft' = [changesLeft EXCEPT ![j] = @ - 1]
    /\ UNCHANGED <<activeJobs, activeTargets, stopped, stray>>

Grant(j) ==
    /\ phase[j] = "queued"
    /\ j \notin stopped
    /\ CanGrant(j, goal[j])
    /\ Acquired(j, goal[j])
    /\ phase' = [phase EXCEPT ![j] = "holding"]
    /\ UNCHANGED <<goal, stopped, changesLeft, stray>>

(* The cancel event is seen at the head of the acquire loop. *)
GiveUp(j) ==
    /\ phase[j] = "queued"
    /\ j \in stopped
    /\ Leaves(j)
    /\ UNCHANGED <<activeJobs, activeTargets, stopped, changesLeft, stray>>

(* The write returns, or raises: the finally clause releases the lease. *)
Return(j) ==
    /\ phase[j] = "holding"
    /\ Released(j, goal[j])
    /\ Leaves(j)
    /\ UNCHANGED <<stopped, changesLeft, stray>>

\* Mutant: the release is not in a finally clause.
AbandonKeepsLease(j) ==
    /\ phase[j] = "holding"
    /\ Leaves(j)
    /\ stray[goal[j]] < MaxStray
    /\ stray' = [stray EXCEPT ![goal[j]] = @ + 1]
    /\ UNCHANGED <<activeJobs, activeTargets, stopped, changesLeft>>

(* The coroutine leaves before the write returned: its deadline passed or   *)
(* it was cancelled.  A call that runs in a thread stays in flight; one     *)
(* that had not been sent, or whose connection could be closed, is gone.    *)
Abandon(j) ==
    /\ phase[j] = "holding"
    /\ Released(j, goal[j])
    /\ Leaves(j)
    /\ stray[goal[j]] < MaxStray
    /\ stray' = [stray EXCEPT ![goal[j]] = @ + 1]
    /\ UNCHANGED <<stopped, changesLeft>>

\* Mutant: a call is answered for twice, by the coroutine and by its thread.
LandTwice(t) ==
    /\ stray' = [stray EXCEPT ![t] = @ - 1]
    /\ UNCHANGED <<activeJobs, activeTargets, phase, goal, stopped, changesLeft>>

Land(t) ==
    /\ stray[t] > 0
    /\ stray' = [stray EXCEPT ![t] = @ - 1]
    /\ UNCHANGED <<activeJobs, activeTargets, phase, goal, stopped, changesLeft>>

(* The operator's cancel, or the rejection of a step. *)
Cancel(j) ==
    /\ j \notin stopped
    /\ stopped' = stopped \cup {j}
    /\ UNCHANGED <<activeJobs, activeTargets, phase, goal, changesLeft, stray>>

Next ==
    \/ \E j \in Jobs, t \in Targets : Request(j, t)
    \/ \E j \in Jobs : Grant(j) \/ GiveUp(j) \/ Return(j) \/ Abandon(j) \/ Cancel(j)
    \/ \E t \in Targets : Land(t)

(* Coroutines keep running: a waiting one retries every second at the      *)
(* latest, and a holding one leaves at its deadline at the latest.  Nothing *)
(* is assumed of the operator, of new changes or of stray calls.            *)
LeaseFairness ==
    \A j \in Jobs :
        /\ WF_vars(Grant(j) \/ GiveUp(j))
        /\ WF_vars(Return(j) \/ Abandon(j))

Spec == Init /\ [][Next]_vars /\ LeaseFairness

-----------------------------------------------------------------------------
LeaseTypeOK ==
    /\ activeJobs \subseteq Jobs
    /\ activeTargets \in [Targets -> Jobs \cup {NoJob}]
    /\ phase \in [Jobs -> Phases]
    /\ goal \in [Jobs -> Targets \cup {NoTarget}]
    /\ stopped \subseteq Jobs
    /\ changesLeft \in [Jobs -> 0 .. MaxChanges]
    /\ stray \in [Targets -> 0 .. MaxStray]

Holding == {j \in Jobs : phase[j] = "holding"}

(* Two coroutines are never inside their write of the same target together: *)
(* what OPS_EXECUTION_ACTIVE_TARGETS is for.                                *)
OneHolderPerTarget ==
    \A j, k \in Holding : goal[j] = goal[k] => j = k

(* The global write slots: at most OPS_MAX_CONCURRENT_JOBS coroutines are   *)
(* inside a write at once.                                                  *)
SlotsBounded == Cardinality(Holding) <= Limit

(* A slot and a target entry are kept exactly as long as a coroutine is     *)
(* inside its write: a job that was cancelled, timed out or failed does not *)
(* go on counting as an active execution, and a waiting one does not count. *)
NoLeakedLease ==
    /\ activeJobs = Holding
    /\ \A t \in Targets, j \in Jobs :
          activeTargets[t] = j <=> (j \in Holding /\ goal[j] = t)

(* A job that waits for its slot gets it or sees its cancellation: no       *)
(* order of releases, deadlines and cancels makes it wait for ever.         *)
QueuedIsServed ==
    \A j \in Jobs : (phase[j] = "queued") ~> (phase[j] # "queued")

(* The documented guarantee on the writes themselves (and not on the        *)
(* coroutines that wait for them): one write per target at a time.          *)
SingleFlightWrites ==
    \A t \in Targets :
        stray[t] + Cardinality({j \in Holding : goal[j] = t}) <= 1

(* The lease implements the abstract promise when only coroutines count.    *)
HolderOf(t) ==
    IF \E j \in Holding : goal[j] = t
    THEN CHOOSE j \in Holding : goal[j] = t
    ELSE NoJob

Abstract == INSTANCE SingleFlight WITH holder <- [t \in Targets |-> HolderOf(t)]

(* Every behaviour of the lease is one of SingleFlight.                     *)
ImplementsSingleFlight == Abstract!Spec
=============================================================================
