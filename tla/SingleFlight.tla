---------------------------- MODULE SingleFlight ----------------------------
(***************************************************************************)
(* What the mutation lease of the operations runner promises, as           *)
(* docs/sre-harness-and-ebpf.md puts it: "Writes to the same               *)
(* cluster/namespace/resource are single-flight; unrelated targets may     *)
(* execute in parallel up to OPS_MAX_CONCURRENT_JOBS".                     *)
(*                                                                         *)
(* A target has at most one holder, a job holds at most one target, and at *)
(* most Limit jobs hold one.  MutationLease and OpsJob implement this.     *)
(***************************************************************************)
EXTENDS Integers, FiniteSets

\* LeaseTable states the assumptions on them.
CONSTANTS
    Jobs,      \* lease owners: ids of operations jobs
    Targets,   \* lease keys "cluster/namespace/kind/name"
    Limit,     \* OPS_MAX_CONCURRENT_JOBS
    NoJob      \* "no owner": the key is absent from the target map

VARIABLE holder   \* holder[t]: the job that may write to t now

Holders == {j \in Jobs : \E t \in Targets : holder[t] = j}

Init == holder = [t \in Targets |-> NoJob]

Take(j, t) ==
    /\ holder[t] = NoJob
    /\ j \notin Holders
    /\ Cardinality(Holders) < Limit
    /\ holder' = [holder EXCEPT ![t] = j]

Give(t) ==
    /\ holder[t] # NoJob
    /\ holder' = [holder EXCEPT ![t] = NoJob]

(* The process that keeps the lease in memory restarts. *)
Forget == holder' = [t \in Targets |-> NoJob]

Next ==
    \/ Forget
    \/ \E j \in Jobs, t \in Targets : Take(j, t)
    \/ \E t \in Targets : Give(t)

Spec == Init /\ [][Next]_holder
=============================================================================
