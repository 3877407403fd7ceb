------------------------------- MODULE OpsJob -------------------------------
(***************************************************************************)
(* The life of operations jobs in backend/app/application.py: the registry *)
(* OPS_JOBS, the coroutine _run_ops_job of each job with its pass through  *)
(* _execute_ops_plan_once, the operator's requests (create, approve or     *)
(* reject a step, cancel, delete), the mutation lease of LeaseTable, the   *)
(* write calls that outlive the coroutine, and a crash of the process with *)
(* the restart from OPS_JOB_STORE_PATH.                                    *)
(*                                                                         *)
(* Grain: one action is what runs between two suspensions of a coroutine.  *)
(* _append_ops_job_event and _update_ops_job never suspend (OPS_JOBS_LOCK  *)
(* is only held by code without an await), so they belong to the step that *)
(* calls them.                                                             *)
(*                                                                         *)
(* Data: a plan is a sequence of changes or Diagnosis (no changes); its    *)
(* fingerprint is the plan itself, except that every diagnosis is a new    *)
(* strategy.  What evidence, gates, clusters and models answer is a        *)
(* nondeterministic choice.                                                *)
(***************************************************************************)
EXTENDS LeaseTable, Sequences, SequencesExt

CONSTANTS
    Plans,            \* plans with changes
    Diagnosis,        \* a plan without changes
    Changes,          \* change fingerprints
    NoChange,         \* no fingerprint
    ChangesOf,        \* the changes of a plan, in order
    TargetOf,         \* the lease key of a change
    RollbackOf,       \* the rollback_change of a plan (of a hardening), or NoChange
    StoreLimit,       \* OPS_JOB_STORE_LIMIT
    ApprovalTimeout,  \* whether OPS_STEP_APPROVAL_TIMEOUT_SECONDS is positive
    Priors,           \* bound: sets of strategies an earlier job has tried
    MaxApprovals,     \* bound: approvals asked for by one job
    MaxCrashes        \* bound: crashes of the process

ASSUME PlansAssumption ==
    /\ Diagnosis \notin Plans
    /\ NoChange \notin Changes
    /\ ChangesOf \in [Plans -> Seq(Changes) \ {<<>>}]
    /\ TargetOf \in [Changes -> Targets]
    /\ RollbackOf \in [Plans -> Changes \cup {NoChange}]
ASSUME StoreAssumption == StoreLimit \in Nat \ {0}
ASSUME TimeoutAssumption == ApprovalTimeout \in BOOLEAN
ASSUME BoundsAssumption ==
    MaxApprovals \in Nat /\ MaxCrashes \in Nat /\ Priors \subseteq SUBSET Plans

VARIABLES
    order,      \* OPS_JOBS: the registered jobs, oldest first
    job,        \* the record of each job
    task,       \* the coroutine of each job and its local variables
    writes,     \* calls of _execute_change that have not returned
    disk,       \* the jobs in OPS_JOB_STORE_PATH, oldest first
    crashes,    \* how often the process crashed
    tickets,    \* history: the approval_ids issued for each job, and their fate
    acked,      \* history: whether the operator stopped the job, and when
    settled     \* history: plans this coroutine executed without success

runVars == <<order, job, task, writes, disk, crashes>>
history == <<tickets, acked, settled>>
vars == <<runVars, leaseVars, history>>

-----------------------------------------------------------------------------
(* Values *)

AnyPlan == Plans \cup {Diagnosis}

Active == {"queued", "running", "awaiting_approval", "cancelling"}
Terminal == {"completed", "failed", "cancelled"}
\* "unborn" and "gone" are ids that are not keys of OPS_JOBS: not yet
\* created, and evicted, deleted or lost.
Statuses == Active \cup Terminal \cup {"unborn", "gone"}

\* Steps count from 1, as in the code; ticket 0 stands for None.
NoTicket == 0
NoPending ==
    [ticket |-> NoTicket, change |-> NoChange, step |-> 0, consumed |-> FALSE]
NoReceipt ==
    [ticket |-> NoTicket, change |-> NoChange, step |-> 0, confirmed |-> FALSE]

Rollbacks == {NoChange} \cup {RollbackOf[p] : p \in Plans}

\* A plan on top of another: what it does not have is that one's.
Carried(p, rollback) ==
    IF p \in Plans /\ RollbackOf[p] # NoChange THEN RollbackOf[p] ELSE rollback

\* plan and rollback are the plan with its rollback_change.
NewJob(p, rollback, T) ==
    [status |-> "queued", pending |-> NoPending, receipt |-> NoReceipt,
     approved |-> 0, plan |-> p, rollback |-> rollback, tried |-> T]

\* An id that is not a key of OPS_JOBS.
NoEntry(s) == [NewJob(Diagnosis, NoChange, {}) EXCEPT !.status = s]

NoTask ==
    [pc |-> "none", plan |-> Diagnosis, rollback |-> NoChange, initial |-> NoChange,
     tried |-> {}, step |-> 0, ticket |-> NoTicket, result |-> "ok", event |-> "none",
     cancel |-> FALSE, killed |-> FALSE]

\* initial is the rollback_change of initial_plan.
NewTask(p, rollback, T) ==
    [NoTask EXCEPT !.pc = "start", !.plan = p, !.rollback = rollback,
                   !.initial = rollback, !.tried = T]

Live(j) == task[j].pc # "none"
Registered(j) == job[j].status \notin {"unborn", "gone"}
InWrite(j) == task[j].pc \in {"executing", "rollback"}

ChangeAt(j) == ChangesOf[task[j].plan][task[j].step]
LastStep(j) == task[j].step = Len(ChangesOf[task[j].plan])

RollsBack(j) == task[j].pc \in {"rollbackLease", "rollback"}

\* The call the coroutine waits for, or would wait for, and its lease key: a
\* rollback is a patch of its own, and no approval is asked for it.
Call(j) ==
    IF RollsBack(j)
    THEN [job |-> j, change |-> task[j].rollback, ticket |-> NoTicket]
    ELSE [job |-> j, change |-> ChangeAt(j), ticket |-> task[j].ticket]
TargetKey(j) == TargetOf[Call(j).change]

-----------------------------------------------------------------------------
(* Steps on one record: a job that left OPS_JOBS is silently not updated.   *)

Note(j, r) == job' = IF Registered(j) THEN [job EXCEPT ![j] = r] ELSE job
NoteStatus(j, s) == Note(j, [job[j] EXCEPT !.status = s])
Run(j, r) == task' = [task EXCEPT ![j] = r]

\* The coroutine ends; its task, cancel event and approval event are popped.
End(j, s) == Run(j, NoTask) /\ NoteStatus(j, s)

\* Mutants: a diagnosis counts as a strategy; a strategy is not remembered.
AttemptRecordsDiagnosis(j, p, rollback, T) ==
    /\ p \notin T
    /\ Run(j, [task[j] EXCEPT !.pc = "diagnose", !.plan = p, !.rollback = rollback,
                              !.step = 0, !.ticket = NoTicket, !.result = "ok",
                              !.tried = T \cup {p}])
    /\ Note(j, [job[j] EXCEPT !.status = "running", !.plan = p, !.rollback = rollback,
                              !.tried = T])
AttemptForgets(j, p, rollback, T) ==
    /\ Run(j, [task[j] EXCEPT !.pc = "diagnose", !.plan = p, !.rollback = rollback,
                              !.step = 0, !.ticket = NoTicket, !.result = "ok", !.tried = T])
    /\ Note(j, [job[j] EXCEPT !.status = "running", !.plan = p, !.rollback = rollback,
                              !.tried = T])

\* The head of the loop of _run_ops_job, for the next plan.
Attempt(j, p, rollback, T) ==
    IF p \in T
    THEN /\ Run(j, [task[j] EXCEPT !.pc = "recheck", !.plan = p, !.rollback = rollback,
                                   !.step = 0, !.ticket = NoTicket, !.result = "ok",
                                   !.tried = T])
         /\ NoteStatus(j, "running")
    ELSE /\ Run(j, [task[j] EXCEPT !.pc = "diagnose", !.plan = p, !.rollback = rollback,
                                   !.step = 0, !.ticket = NoTicket, !.result = "ok",
                                   !.tried = T \cup ({p} \ {Diagnosis})])
         /\ Note(j, [job[j] EXCEPT !.status = "running", !.plan = p, !.rollback = rollback,
                                   !.tried = T])

\* _wait_for_continuous_recheck, after the call for the attempt returned
WaitForRecheck(j, T) ==
    /\ Run(j, [task[j] EXCEPT !.pc = "recheck", !.tried = T,
                              !.step = 0, !.ticket = NoTicket, !.result = "ok"])
    /\ NoteStatus(j, "running")

\* An attempt ended without recovery: an alternative that was not tried yet
\* is taken (_select_next_ops_plan) and laid on top of initial_plan, or the job
\* waits for the next recheck.
Continue(j, T) ==
    \/ \E p \in AnyPlan \ T : Attempt(j, p, Carried(p, task[j].initial), T)
    \/ WaitForRecheck(j, T)

\* await_change_approval up to its wait.
Ask(j, k, result) ==
    LET id == Len(tickets[j]) + 1
        change == ChangesOf[task[j].plan][k]
    IN
    /\ tickets' = [tickets EXCEPT ![j] = Append(@,
          [change |-> change, step |-> k, epoch |-> crashes,
           verdict |-> "open", uses |-> 0, undone |-> 0])]
    /\ Run(j, [task[j] EXCEPT !.pc = "approval", !.step = k, !.ticket = id,
                              !.result = result, !.event = "clear"])
    /\ Note(j, [job[j] EXCEPT !.status = "awaiting_approval",
                   !.pending = [ticket |-> id, change |-> change, step |-> k,
                                consumed |-> FALSE]])

-----------------------------------------------------------------------------
(* The coroutine: starting and diagnosing.                                  *)

\* Mutant: the runner swallows its CancelledError.
MayAlways(j, pc) == task[j].pc = pc

\* A coroutine with a pending task.cancel() only ever gets its CancelledError.
May(j, pc) == task[j].pc = pc /\ ~task[j].killed

StartRunner(j) ==
    /\ May(j, "start")
    /\ Attempt(j, task[j].plan, task[j].rollback, task[j].tried)
    /\ UNCHANGED <<order, writes, disk, crashes, leaseVars, history>>

\* The release gate, the target binding or a permission preflight refuses
\* the plan before anything is submitted.
DiagnoseBlocked(j) ==
    /\ May(j, "diagnose")
    /\ WaitForRecheck(j, task[j].tried \ {task[j].plan})
    /\ UNCHANGED <<order, writes, disk, crashes, leaseVars, history>>

\* The evidence shows that the target is healthy; only reached without
\* changes, in the plan itself or because the evidence gate cleared them.
DiagnoseHealthy(j) ==
    /\ May(j, "diagnose")
    /\ End(j, "completed")
    /\ UNCHANGED <<order, writes, disk, crashes, leaseVars, history>>

\* Nothing is submitted: there are no changes, the evidence could not be
\* read and the changes were cleared, or it calls for another plan.
DiagnosePlanned(j) ==
    /\ May(j, "diagnose")
    /\ Continue(j, task[j].tried)
    /\ UNCHANGED <<order, writes, disk, crashes, leaseVars, history>>

DiagnoseReady(j) ==
    /\ May(j, "diagnose")
    /\ task[j].plan \in Plans
    /\ Len(tickets[j]) + Len(ChangesOf[task[j].plan]) <= MaxApprovals
    /\ Ask(j, 1, "ok")
    /\ UNCHANGED <<order, writes, disk, crashes, leaseVars, acked, settled>>

\* The interval of the recheck passed: a read-only copy of the plan comes next.
Recheck(j) ==
    /\ May(j, "recheck")
    /\ Attempt(j, Diagnosis, task[j].rollback, task[j].tried)
    /\ UNCHANGED <<order, writes, disk, crashes, leaseVars, history>>

-----------------------------------------------------------------------------
(* The coroutine: approval, lease, write.                                   *)

\* What await_change_approval tests after it was woken.
Approved(j) ==
    LET r == job[j].receipt IN
    /\ Registered(j)
    /\ r.confirmed
    /\ r.ticket = task[j].ticket
    /\ r.change = ChangeAt(j)
    /\ r.step = task[j].step
    /\ job[j].approved = task[j].step

ApprovalGranted(j) ==
    /\ May(j, "approval")
    /\ task[j].event = "set"
    /\ ~task[j].cancel
    /\ Approved(j)
    /\ Run(j, [task[j] EXCEPT !.pc = "lease", !.event = "none"])
    /\ Note(j, [job[j] EXCEPT !.status = "running", !.pending = NoPending,
                              !.approved = task[j].step])
    /\ UNCHANGED <<order, writes, disk, crashes, leaseVars, history>>

ApprovalDenied(j) ==
    /\ May(j, "approval")
    /\ task[j].event = "set"
    /\ task[j].cancel \/ ~Approved(j)
    /\ End(j, "cancelled")
    /\ UNCHANGED <<order, writes, disk, crashes, leaseVars, history>>

\* Mutants: the record keeps its status; silence counts as consent.
TimesOutSilently(j) ==
    /\ ApprovalTimeout
    /\ May(j, "approval")
    /\ Run(j, NoTask)
    /\ UNCHANGED <<order, job, writes, disk, crashes, leaseVars, history>>
TimesOutAsApproval(j) ==
    /\ ApprovalTimeout
    /\ May(j, "approval")
    /\ Run(j, [task[j] EXCEPT !.pc = "lease", !.event = "none"])
    /\ Note(j, [job[j] EXCEPT !.status = "running", !.pending = NoPending])
    /\ UNCHANGED <<order, writes, disk, crashes, leaseVars, history>>

\* The timer wins, also against an answer that came after it had fired.
ApprovalTimesOut(j) ==
    /\ ApprovalTimeout
    /\ May(j, "approval")
    /\ Run(j, NoTask)
    /\ Note(j, [job[j] EXCEPT !.status = "cancelled", !.pending = NoPending,
                              !.approved = 0])
    /\ UNCHANGED <<order, writes, disk, crashes, leaseVars, history>>

\* The lease is granted and _execute_change is called.
Submit(j) ==
    /\ May(j, "lease")
    /\ CanGrant(j, TargetKey(j))
    /\ Acquired(j, TargetKey(j))
    /\ Run(j, [task[j] EXCEPT !.pc = "executing"])
    /\ writes' = writes \cup {Call(j)}
    /\ tickets' = [tickets EXCEPT ![j][task[j].ticket].uses = @ + 1]
    /\ UNCHANGED <<order, job, disk, crashes, acked, settled>>

Worse(r, s) ==
    IF "blocking" \in {r, s} THEN "blocking"
    ELSE IF "failed" \in {r, s} THEN "failed" ELSE "ok"

\* Mutant: a failed change is tried again under the same approval.
AfterChangeRetries(j, r) ==
    /\ Released(j, TargetKey(j))
    /\ Run(j, [task[j] EXCEPT !.pc = IF r = "failed" THEN "lease" ELSE "verify"])
    /\ UNCHANGED <<order, job, disk, crashes, tickets, acked, settled>>

\* The change is answered for: the lease is released and the loop goes on
\* with the next change, or with the verification after the last one.
AfterChange(j, r) ==
    /\ Released(j, TargetKey(j))
    /\ IF LastStep(j)
       THEN /\ Run(j, [task[j] EXCEPT !.pc = "verify",
                                      !.result = Worse(@, r)])
            /\ UNCHANGED <<job, tickets>>
       ELSE Ask(j, task[j].step + 1, Worse(task[j].result, r))
    /\ UNCHANGED <<order, disk, crashes, acked, settled>>

\* The call returns or raises.  "blocking" is a failure of the execution
\* channel (permission, certificate, network).
ChangeReturns(j) ==
    /\ May(j, "executing")
    /\ \E r \in {"ok", "failed", "blocking"} : AfterChange(j, r)
    /\ writes' = writes \ {Call(j)}

\* StageTimeoutError: the call may go on in its thread.
ChangeTimesOut(j) ==
    /\ May(j, "executing")
    /\ AfterChange(j, "blocking")
    /\ writes' \in {writes, writes \ {Call(j)}}

\* A call that nobody waits for any more returns.
StrayCallReturns(w) ==
    /\ ~(InWrite(w.job) /\ Call(w.job) = w)
    /\ writes' = writes \ {w}
    /\ UNCHANGED <<order, job, task, disk, crashes, leaseVars, history>>

-----------------------------------------------------------------------------
(* The coroutine: verification, rollback of a hardening change, and the end *)
(* of an attempt.                                                           *)

Recovered(j) ==
    /\ \/ May(j, "verify") /\ task[j].result = "ok"
       \/ May(j, "verifyRollback")
    /\ End(j, "completed")
    /\ UNCHANGED <<order, writes, disk, crashes, leaseVars, history>>

RollbackNeeded(j) ==
    /\ May(j, "verify")
    /\ task[j].rollback # NoChange
    /\ Run(j, [task[j] EXCEPT !.pc = "rollbackLease"])
    /\ UNCHANGED <<order, job, writes, disk, crashes, leaseVars, history>>

\* Mutants: the rollback does not ask for the lease; the change is sent again
\* in its place.
RollbackUnleased(j) ==
    /\ May(j, "rollbackLease")
    /\ Run(j, [task[j] EXCEPT !.pc = "rollback"])
    /\ writes' = writes \cup {Call(j)}
    /\ tickets' = [tickets EXCEPT ![j][task[j].ticket].undone = @ + 1]
    /\ UNCHANGED <<order, job, disk, crashes, leaseVars, acked, settled>>
RollbackResends(j) ==
    /\ May(j, "rollbackLease")
    /\ CanGrant(j, TargetKey(j))
    /\ Acquired(j, TargetKey(j))
    /\ Run(j, [task[j] EXCEPT !.pc = "rollback"])
    /\ writes' = writes \cup {[Call(j) EXCEPT !.change = ChangeAt(j)]}
    /\ tickets' = [tickets EXCEPT ![j][task[j].ticket].undone = @ + 1]
    /\ UNCHANGED <<order, job, disk, crashes, acked, settled>>

\* The rollback_change is marked as approved and sent.
RollbackSubmit(j) ==
    /\ May(j, "rollbackLease")
    /\ CanGrant(j, TargetKey(j))
    /\ Acquired(j, TargetKey(j))
    /\ Run(j, [task[j] EXCEPT !.pc = "rollback"])
    /\ writes' = writes \cup {Call(j)}
    /\ tickets' = [tickets EXCEPT ![j][task[j].ticket].undone = @ + 1]
    /\ UNCHANGED <<order, job, disk, crashes, acked, settled>>

\* The rollback has no deadline of its own.
RollbackReturns(j) ==
    /\ May(j, "rollback")
    /\ Released(j, TargetKey(j))
    /\ Run(j, [task[j] EXCEPT !.pc = "verifyRollback"])
    /\ writes' = writes \ {Call(j)}
    /\ UNCHANGED <<order, job, disk, crashes, history>>

\* Not recovered, or recovered although a change failed: a blocked channel makes
\* the same plan possible again, any other outcome settles it for this job.  A
\* plan that inherited a rollback may have another stage than its hardening.
Unrecovered(j) ==
    /\ \/ May(j, "verifyRollback")
       \/ /\ May(j, "verify")
          /\ RollbackOf[task[j].plan] # NoChange => task[j].result # "ok"
    /\ IF task[j].result = "blocking"
       THEN /\ WaitForRecheck(j, task[j].tried \ {task[j].plan})
            /\ UNCHANGED settled
       ELSE /\ Continue(j, task[j].tried)
            /\ settled' = [settled EXCEPT ![j] = @ \cup {task[j].plan}]
    /\ UNCHANGED <<order, writes, disk, crashes, leaseVars, tickets, acked>>

-----------------------------------------------------------------------------
(* The coroutine: ways out.                                                 *)

\* Mutant: the release is skipped when the write is interrupted.
DropNothing(j) == UNCHANGED leaseVars

\* The lease is given back by the finally clause around the write.
DropLease(j) ==
    IF InWrite(j) THEN Released(j, TargetKey(j)) ELSE UNCHANGED leaseVars

\* task.cancel() of the operator's request is delivered.
CancelDelivered(j) ==
    /\ task[j].killed
    /\ DropLease(j)
    /\ writes' \in {writes, IF InWrite(j) THEN writes \ {Call(j)} ELSE writes}
    /\ End(j, "cancelled")
    /\ UNCHANGED <<order, disk, crashes, history>>

\* An exception outside the write of a change, which has a handler of its own.
RunnerFails(j) ==
    /\ \E pc \in {"diagnose", "verify", "rollback", "verifyRollback"} : May(j, pc)
    /\ DropLease(j)
    /\ writes' = IF InWrite(j) THEN writes \ {Call(j)} ELSE writes
    /\ End(j, "failed")
    /\ UNCHANGED <<order, disk, crashes, history>>

RunnerStep(j) ==
    \/ StartRunner(j)
    \/ DiagnoseBlocked(j) \/ DiagnoseHealthy(j) \/ DiagnosePlanned(j)
    \/ DiagnoseReady(j) \/ Recheck(j)
    \/ ApprovalGranted(j) \/ ApprovalDenied(j) \/ ApprovalTimesOut(j)
    \/ Submit(j) \/ ChangeReturns(j) \/ ChangeTimesOut(j)
    \/ Recovered(j) \/ RollbackNeeded(j) \/ RollbackSubmit(j)
    \/ RollbackReturns(j) \/ Unrecovered(j)
    \/ CancelDelivered(j) \/ RunnerFails(j)

-----------------------------------------------------------------------------
(* The operator's requests.  A refused request changes nothing.             *)

\* The registry makes room for one more job.
Kept ==
    IF Len(order) >= StoreLimit
    THEN SubSeq(order, Len(order) - StoreLimit + 2, Len(order))
    ELSE order

\* _enqueue_ops_job after its confirmation gates.  The plan may come from an
\* earlier job's failure and then names strategies that were tried there.
Create(j, p, T) ==
    /\ job[j].status = "unborn"
    /\ order' = Append(Kept, j)
    /\ job' = [k \in Jobs |->
                 IF k = j THEN NewJob(p, Carried(p, NoChange), T)
                 ELSE IF k \in ToSet(order) \ ToSet(Kept)
                      THEN NoEntry("gone")
                      ELSE job[k]]
    /\ Run(j, NewTask(p, Carried(p, NoChange), T))
    /\ UNCHANGED <<writes, disk, crashes, leaseVars, history>>

Consumed(p) == [p EXCEPT !.consumed = TRUE]

\* approve_ops_job_step with the approval_id, fingerprint and index that
\* were shown for ticket id, which need not be the pending one.
Answer(j, id, confirm) ==
    LET shown == tickets[j][id]
        p == job[j].pending
    IN
    /\ job[j].status = "awaiting_approval"
    /\ p # NoPending
    /\ p.step = shown.step
    /\ p.ticket = id
    /\ p.change = shown.change
    /\ ~p.consumed
    /\ task[j].event # "none"
    /\ job' = [job EXCEPT ![j].pending = Consumed(p),
                 ![j].receipt = [ticket |-> id, change |-> p.change,
                                 step |-> p.step, confirmed |-> confirm],
                 ![j].approved = IF confirm THEN p.step ELSE 0,
                 ![j].status = IF confirm THEN "running" ELSE @]
    /\ Run(j, [task[j] EXCEPT !.event = "set", !.cancel = @ \/ ~confirm])
    /\ tickets' = [tickets EXCEPT ![j][id].verdict =
                      IF confirm THEN "confirmed" ELSE "rejected"]
    /\ acked' = [acked EXCEPT ![j] = IF confirm THEN @ ELSE "now"]
    /\ UNCHANGED <<order, writes, disk, crashes, leaseVars, settled>>

\* Mutant: only the event is set, the coroutine is not cancelled.
CancelSetsEventOnly(j) ==
    /\ job[j].status \in Active
    /\ task[j].pc # "start"
    /\ NoteStatus(j, "cancelling")
    /\ Run(j, [task[j] EXCEPT !.cancel = Live(j)])
    /\ acked' = [acked EXCEPT ![j] = "now"]
    /\ UNCHANGED <<order, writes, disk, crashes, leaseVars, tickets, settled>>

\* cancel_ops_job.  The id of a job reaches a client only after the first
\* step of its coroutine, which was queued when the task was created.
Cancel(j) ==
    /\ job[j].status \in Active
    /\ task[j].pc # "start"
    /\ NoteStatus(j, "cancelling")
    /\ Run(j, IF Live(j) THEN [task[j] EXCEPT !.cancel = TRUE, !.killed = TRUE]
                         ELSE task[j])
    /\ acked' = [acked EXCEPT ![j] = "now"]
    /\ UNCHANGED <<order, writes, disk, crashes, leaseVars, tickets, settled>>

\* delete_ops_record
Delete(j) ==
    /\ job[j].status \in Terminal
    /\ \E i \in DOMAIN order : order[i] = j /\ order' = RemoveAt(order, i)
    /\ job' = [job EXCEPT ![j] = NoEntry("gone")]
    /\ UNCHANGED <<task, writes, disk, crashes, leaseVars, history>>

-----------------------------------------------------------------------------
(* Persistence, crash and restart.                                          *)

\* A restart takes every active status for resume_pending, and then for queued.
Record(j) ==
    [id |-> j, status |-> IF job[j].status \in Active THEN "queued" ELSE job[j].status,
     plan |-> job[j].plan, rollback |-> job[j].rollback, tried |-> job[j].tried]

\* A debounced flush; OpsJobStore has its details.  A flush that no restart
\* of the instance can read is left out.
Persist ==
    /\ crashes < MaxCrashes
    /\ disk' = [i \in DOMAIN order |-> Record(order[i])]
    /\ disk' # disk
    /\ UNCHANGED <<order, job, task, writes, crashes, leaseVars, history>>

\* The process dies with its coroutines, leases and approvals; its calls die
\* with it.  The new process runs _restore_ops_jobs and then
\* resume_persisted_ops_jobs before it serves a request.
CrashAndRestart ==
    LET At(j) == CHOOSE i \in DOMAIN disk : disk[i].id = j
        OnDisk(j) == \E i \in DOMAIN disk : disk[i].id = j
        Resumed(j) == OnDisk(j) /\ disk[At(j)].status = "queued"
        Restored(j) ==
            [NewJob(disk[At(j)].plan, disk[At(j)].rollback, disk[At(j)].tried) EXCEPT
                !.status = disk[At(j)].status]
    IN
    /\ crashes < MaxCrashes
    /\ crashes' = crashes + 1
    /\ order' = [i \in DOMAIN disk |-> disk[i].id]
    /\ job' = [j \in Jobs |->
                 IF OnDisk(j) THEN Restored(j)
                 ELSE IF job[j].status = "unborn" THEN job[j]
                 ELSE NoEntry("gone")]
    /\ task' = [j \in Jobs |->
                 IF Resumed(j)
                 THEN NewTask(disk[At(j)].plan, disk[At(j)].rollback, disk[At(j)].tried)
                 ELSE NoTask]
    /\ writes' = {}
    /\ activeJobs' = {}
    /\ activeTargets' = [t \in Targets |-> NoJob]
    /\ acked' = [j \in Jobs |-> IF acked[j] = "no" THEN "no" ELSE "earlier"]
    /\ settled' = [j \in Jobs |-> {}]
    /\ UNCHANGED <<disk, tickets>>

-----------------------------------------------------------------------------
Init ==
    /\ order = <<>>
    /\ job = [j \in Jobs |-> NoEntry("unborn")]
    /\ task = [j \in Jobs |-> NoTask]
    /\ writes = {}
    /\ disk = <<>>
    /\ crashes = 0
    /\ LeaseInit
    /\ tickets = [j \in Jobs |-> <<>>]
    /\ acked = [j \in Jobs |-> "no"]
    /\ settled = [j \in Jobs |-> {}]

Next ==
    \/ \E j \in Jobs : RunnerStep(j)
    \/ \E w \in writes : StrayCallReturns(w)
    \/ \E j \in Jobs, p \in AnyPlan, T \in Priors : Create(j, p, T)
    \/ \E j \in Jobs : \E id \in DOMAIN tickets[j], c \in BOOLEAN : Answer(j, id, c)
    \/ \E j \in Jobs : Cancel(j) \/ Delete(j)
    \/ Persist
    \/ CrashAndRestart

\* The event loop runs every coroutine that can go on: waits have deadlines
\* or, for a rollback, end with the call.  Nothing is assumed of operators.
Fairness == \A j \in Jobs : WF_vars(RunnerStep(j))

Spec == Init /\ [][Next]_vars
FairSpec == Spec /\ Fairness

-----------------------------------------------------------------------------
Phases ==
    {"none", "start", "diagnose", "approval", "lease", "executing", "verify",
     "rollbackLease", "rollback", "verifyRollback", "recheck"}

JobRecord ==
    [status : Statuses,
     pending : [ticket : 0 .. MaxApprovals, change : Changes \cup {NoChange},
                step : Nat, consumed : BOOLEAN],
     receipt : [ticket : 0 .. MaxApprovals, change : Changes \cup {NoChange},
                step : Nat, confirmed : BOOLEAN],
     approved : Nat,
     plan : AnyPlan, rollback : Rollbacks,
     tried : SUBSET Plans]

TaskRecord ==
    [pc : Phases, plan : AnyPlan, rollback : Rollbacks,
     initial : Rollbacks, tried : SUBSET Plans, step : Nat,
     ticket : 0 .. MaxApprovals, result : {"ok", "failed", "blocking"},
     event : {"none", "clear", "set"}, cancel : BOOLEAN, killed : BOOLEAN]

WriteRecord ==
    [job : Jobs, change : Changes, ticket : 0 .. MaxApprovals]

DiskRecord ==
    [id : Jobs, status : {"queued"} \cup Terminal, plan : AnyPlan,
     rollback : Rollbacks, tried : SUBSET Plans]

Ticket ==
    [change : Changes, step : Nat, epoch : 0 .. MaxCrashes,
     verdict : {"open", "confirmed", "rejected"}, uses : Nat, undone : Nat]

TypeOK ==
    /\ order \in Seq(Jobs)
    /\ job \in [Jobs -> JobRecord]
    /\ task \in [Jobs -> TaskRecord]
    /\ writes \subseteq WriteRecord
    /\ disk \in Seq(DiskRecord)
    /\ crashes \in 0 .. MaxCrashes
    /\ activeJobs \subseteq Jobs
    /\ activeTargets \in [Targets -> Jobs \cup {NoJob}]
    /\ tickets \in [Jobs -> Seq(Ticket)]
    /\ acked \in [Jobs -> {"no", "now", "earlier"}]
    /\ settled \in [Jobs -> SUBSET Plans]

(* A job whose public status is active has a coroutine, and a job whose     *)
(* status is terminal has none: every early return, rejection, timeout,     *)
(* cancel, exception and restart goes through.  The recovery of orphans in  *)
(* get_ops_job is never needed.                                             *)
StatusMatchesRunner ==
    \A j \in Jobs :
        /\ job[j].status \in Active => Live(j)
        /\ job[j].status \in Terminal => ~Live(j)

(* A ticket is confirmed, and for this life of the process.                 *)
Stands(t) == t.verdict = "confirmed" /\ t.epoch = crashes

(* Every call in flight was confirmed by the operator, for that very change *)
(* of that job, in this life of the process; or nobody was asked for it:    *)
(* then it is the rollback of a hardening, after a confirmed change of the  *)
(* job that was submitted in this life of the process.                      *)
WritesAreApproved ==
    \A w \in writes :
        IF w.ticket # NoTicket
        THEN Stands(tickets[w.job][w.ticket]) /\ tickets[w.job][w.ticket].change = w.change
        ELSE /\ w.change \in Rollbacks
             /\ \E i \in DOMAIN tickets[w.job] :
                    Stands(tickets[w.job][i]) /\ tickets[w.job][i].undone = 1

(* One confirmation submits a change at most once, whatever is replayed,    *)
(* retried or resumed, and at most one rollback comes after it.             *)
ApprovalsAreOneShot ==
    \A j \in Jobs : \A i \in DOMAIN tickets[j] :
        tickets[j][i].uses <= 1 /\ tickets[j][i].undone <= tickets[j][i].uses

(* A confirmation stands behind every write, and behind one write only, or  *)
(* behind one and the rollback that follows it.                             *)
ApprovalsGuardWrites == WritesAreApproved /\ ApprovalsAreOneShot

(* A strategy that was executed and did not recover the target is not       *)
(* attempted again by the same coroutine.                                   *)
NoSettledStrategyAgain ==
    \A j \in Jobs :
        task[j].pc \notin {"none", "start", "recheck"} => task[j].plan \notin settled[j]

(* After the operator rejected a step or cancelled the job, the process     *)
(* starts no further call for it, whatever was under way.                   *)
NoWriteAfterStop ==
    [][\A w \in writes' \ writes : acked[w.job] # "now"]_vars

(* A job that was stopped comes to its end.                                 *)
StopEndsJob ==
    \A j \in Jobs : (acked[j] = "now") ~> (~Live(j) \/ acked[j] # "now")

(* A stop that was acknowledged is final: nothing is written after it, and  *)
(* the job ends.                                                            *)
StopIsFinal == NoWriteAfterStop /\ StopEndsJob

AwaitsSubmission(j, i) ==
    /\ i \in DOMAIN tickets[j]
    /\ tickets[j][i].verdict = "confirmed"
    /\ tickets[j][i].uses = 0
    /\ tickets[j][i].epoch = crashes
    /\ Live(j)

(* A confirmed change is submitted, unless the job was stopped, timed out   *)
(* or lost its process: the other jobs cannot keep the lease from it.       *)
ConfirmedIsSubmitted ==
    \A j \in Jobs, i \in 1 .. MaxApprovals :
        AwaitsSubmission(j, i) ~> ~AwaitsSubmission(j, i)

HolderOf(t) ==
    IF \E j \in Jobs : InWrite(j) /\ TargetKey(j) = t
    THEN CHOOSE j \in Jobs : InWrite(j) /\ TargetKey(j) = t
    ELSE NoJob

Abstract == INSTANCE SingleFlight WITH holder <- [t \in Targets |-> HolderOf(t)]

(* The coroutines of the jobs obey the single-flight rule.                  *)
ImplementsSingleFlight == Abstract!Spec

(* After a write that timed out the job's log says that its outcome is      *)
(* unknown and that further actions are cut off: no later change of the     *)
(* same plan is submitted while that call is still in flight.               *)
UnknownOutcomeStopsPlan ==
    [][\A w \in writes' \ writes, v \in writes :
          v.job = w.job =>
              v.ticket \notin w.ticket - task[w.job].step + 1 .. w.ticket - 1]_vars
=============================================================================
