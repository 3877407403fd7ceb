----------------------------- MODULE LeaseTable -----------------------------
(***************************************************************************)
(* The two module variables of backend/app/application.py that gate        *)
(* Kubernetes writes, and the bodies of _acquire_ops_execution_lease and   *)
(* _release_ops_execution_lease that change them.  Both bodies run under   *)
(* OPS_EXECUTION_CONDITION and do not suspend, so each is one step.        *)
(***************************************************************************)
EXTENDS Integers, FiniteSets

CONSTANTS
    Jobs,        \* lease owners: ids of operations jobs
    Targets,     \* lease keys "cluster/namespace/kind/name"
    Limit,       \* OPS_MAX_CONCURRENT_JOBS, clamped to 1..64 by the code
    NoJob        \* no owner: the key is absent from the target map

ASSUME LimitAssumption == Limit \in Nat \ {0}
ASSUME NoJobAssumption == NoJob \notin Jobs

VARIABLES
    activeJobs,     \* OPS_EXECUTION_ACTIVE_JOBS
    activeTargets   \* OPS_EXECUTION_ACTIVE_TARGETS

leaseVars == <<activeJobs, activeTargets>>

LeaseInit ==
    /\ activeJobs = {}
    /\ activeTargets = [t \in Targets |-> NoJob]

\* Mutants: the target map is not consulted, one of the two conditions is
\* enough.
CanGrantAnyTarget(j, t) ==
    j \in activeJobs \/ Cardinality(activeJobs) < Limit
CanGrantEither(j, t) ==
    \/ activeTargets[t] \in {NoJob, j}
    \/ j \in activeJobs \/ Cardinality(activeJobs) < Limit

CanGrant(j, t) ==
    /\ activeTargets[t] \in {NoJob, j}
    /\ j \in activeJobs \/ Cardinality(activeJobs) < Limit

Acquired(j, t) ==
    /\ activeJobs' = activeJobs \cup {j}
    /\ activeTargets' = [activeTargets EXCEPT ![t] = j]

TargetsAfterRelease(j, t) ==
    IF activeTargets[t] = j
    THEN [activeTargets EXCEPT ![t] = NoJob]
    ELSE activeTargets

\* Mutant: the slot is never given back.
ReleasedKeepsSlot(j, t) ==
    /\ activeTargets' = TargetsAfterRelease(j, t)
    /\ activeJobs' = activeJobs

Released(j, t) ==
    LET targets == TargetsAfterRelease(j, t) IN
    /\ activeTargets' = targets
    /\ activeJobs' = IF \E u \in Targets : targets[u] = j
                     THEN activeJobs
                     ELSE activeJobs \ {j}
=============================================================================
