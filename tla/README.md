# Flawless: a verification project

Flawless (CISRE) is an operations platform for Kubernetes: it collects evidence
about a failing workload, proposes changes, asks an operator to approve each of
them, submits them, verifies the recovery and goes on until the fault is gone.
This directory holds TLA+ modules of its control core, TLC configurations that
check them, and proofs for TLAPS. Paths and line numbers refer to the repository
(`src/`); `PROJECT.json` maps each definition to its lines.

## 1. Inventory

`A` is `backend/app/application.py`, `S` is `backend/app/services`.

| component | source | state it keeps | operations | what makes it correct |
|---|---|---|---|---|
| Mutation lease | A 600-602, 14341-14402 | active jobs, active targets, a condition | acquire, release | one write per target, bounded slots, no leak, no starvation |
| Operations jobs | A 595-599, 18034-19269 | `OPS_JOBS`, tasks, cancel and approval events | create, run, approve, reject, cancel, delete, evict, resume | only approved changes are submitted, once; status matches the coroutine; a stop stops |
| Passes over a plan | A 11869-14292, 14405-16215, 16900-17100 | the plan and what it remembers of earlier ones | gate, route, review, approve, submit, verify, roll back | a change runs under the contract of a Skill; a hardening is undone |
| Collection of evidence | A 8200-8900, 14600-14800; `S/cluster_registry.py` | evidence with its age | priority pass, deep pass, merge, reuse | evidence names the Pod it is of |
| Execution and verification | A 9300-11860, `mcp_servers/k8s_mcp_server.py` | none beyond the call | read, write, read back, replace, probe | what is reported of a write or a recovery is true |
| Job store | A 603-606, 748-879 | dirty flag, flusher task, file, temporary file | schedule, flush, write, restore | no change forgotten, never backwards |
| Bounded stages | `S/ops_execution.py` | deadline, operation, heartbeat | `run_with_heartbeat` | every stage ends in time; nothing left running |
| Runtime resilience | `agents/runtime_resilience.py` | permits, cache | slot, get, set | permits conserved, nobody is left waiting |
| Harness events | `S/harness_events.py` | events in memory, a journal | append, fork, resume, delete | unbroken chain, no hidden branch |
| Harness packages and plugins | `S/harness_packages.py`, `S/harness_plugins.py` | installed packages, mounted plugins | install, refresh, activate, mount | what is active is supported |
| Releases and reliability | `S/reliability_store.py`, `S/release_execution.py`, `S/progressive_delivery.py`, `api/reliability.py`, `domain/slo.py` | objectives, releases, files | put in, request, submit, analyse, promote, abort, sync | a status is backed by what a job did; a canary stays within its envelope |
| Skill registry | `S/ops_skill_registry.py`, `S/agent_skill_packages.py` | Skills, usage, packages | learn, upsert, import, export, disable, match | only published Skills run |
| Cluster registry | `S/cluster_registry.py` | clusters with kubeconfigs, inventory cache | upload, new token, verify, delete, list | no unproved credential; the right clusters |
| Chat, SRE graph, remediation engine | A 1192-1900, 17240-17270, `agents/sre_graph.py`, `agents/remediation_engine.py` | a trace | look up, collect, diagnose, plan, bind | an answer stays with what was asked about |
| Inspections | A 6400-7300, 19380-19500 | `LAST_INSPECTION_PAYLOAD` | scan, route, publish, preview | a suspect is reported; a preview is bound |
| Adapters, collectors, statistics, CMDB, console, manifests | the rest | caches | parsing, rendering, configuration | not modelled |

### How they interact

The HTTP handlers, the job coroutines and the flusher share one asyncio event
loop; they interleave only where a coroutine suspends. `_append_ops_job_event`
and `_update_ops_job` take a lock that is never held across a suspension, so a
call of them is part of the step around it. An operator's request reaches a
coroutine through three tables: `OPS_JOB_STEP_APPROVAL_EVENTS` (wake up),
`OPS_JOB_CANCEL_EVENTS` (polled) and `OPS_JOB_TASKS` (`task.cancel()`). The
coroutine calls `_execute_ops_plan_once`; that collects evidence, routes the
plan to a Skill, calls `run_with_heartbeat` for each stage, takes the mutation
lease around `_execute_change` and ends with `_verify_plan_recovery`. Every
change of a record schedules a flush; the flusher hands a snapshot to a thread
that serializes the *live* records and renames the file into place. A restarted
process reads that file and resumes what was active. A release submits a job
and is updated from its outcome; inspections and chat produce plans that become
jobs when an operator takes them up.

### What is hard

* A write is a call in a thread or on the wire. A deadline or a cancel ends the
  wait, not the write.
* Approval, cancel, timer and crash may come in any order, and each must leave
  one consistent public status.
* A plan outlives the state it was made from: Pods are replaced, clusters lose
  their registration, Skills are switched off, another writer changes the object.
* What an incident remembers (strategies, stages, rollbacks) is spread over the
  plan, its last failure and the context that the next plan is laid over.
* Files are written beside memory: a failed or half-finished write and a restart
  decide which of the two is believed.

The 40 hazards of `PROJECT.json` give these at their lines. Those without a
property carry the reason.

## 2. Modules

| module | models | role |
|---|---|---|
| `SingleFlight` | what the lease promises: at most one job per target, at most `Limit` jobs | abstract specification |
| `LeaseTable` | `OPS_EXECUTION_ACTIVE_JOBS/TARGETS`, the grant test, grant and release | shared by the next two |
| `MutationLease` | jobs that ask for, hold and leave the lease; stray calls | component, implements `SingleFlight` |
| `OpsJob` | registry, coroutine, requests, lease, calls in flight, crash and resume | jobs composed with the lease, implements `SingleFlight` |
| `PlanPass` | the passes of `_execute_ops_plan_once` over one incident | component |
| `PermissionLadder` | the stages of a volume's permission recovery | component |
| `EvidenceCollection` | the reads that make a plan's evidence | component |
| `ChangeExecution` | one approved change on its way to a cluster | component |
| `RecoveryVerification` | the verification after a plan | component |
| `ProgressiveRollout` | a grey release over an Argo controller | component |
| `RunWithHeartbeat` | one stage on a discrete clock | component |
| `OpsJobStore` | flusher, writer threads, file | component |
| `RuntimeResilience` | the bulkhead over asyncio's semaphore | component |
| `HarnessEvents` | sessions, journal with fallback, forks, tombstones | component |
| `ReleaseGovernance` | release requests, store, budget, the jobs of a release | component |
| `HarnessPackages` | plugins and the packages they come from | component |
| `SkillRegistry` | Skills in memory and on disk, their history and ranking | component |
| `ClusterRegistry` | kubeconfigs, probes, inventory cache | component |
| `RemediationEngine` | scores of root causes, choice of changes | pure operators |
| `ChatDiagnosis` | a chat question through the graph to its answer | extends `RemediationEngine` |
| `Inspections` | scan, findings, previews | component |
| `MC...` | values for TLC | instances |
| `MutationLeaseProofs`, `OpsJobProofs`, `OpsJobStoreProofs`, `HarnessPackagesProofs` | theorems | proofs of one module each |
| `BackgroundProofs` | theorems | proofs of `RunWithHeartbeat`, `RuntimeResilience` |
| `ChangeProofs` | theorems | proofs of `ChangeExecution`, `EvidenceCollection`, `RecoveryVerification`, `ProgressiveRollout`, and of their composition `MCChange` |
| `PlanProofs` | theorems | proofs of `PlanPass`, `PermissionLadder` |
| `PlatformProofs` | theorems | proofs of `ReleaseGovernance`, `SkillRegistry`, `ChatDiagnosis`, `Inspections`, `HarnessEvents`, `ClusterRegistry`, and of their composition `MCPlatform` |

Three of the instances put components side by side that share no state:
`MCBackground` (stage, store, bulkhead), `MCChange` (evidence, passes, ladder,
execution, verification, rollout) and `MCPlatform` (events, releases, packages,
Skills, the history of Skills, inspections, chat, clusters). A variable `part`
is chosen at the start and never changes; the others keep the state they start
in. Such a run is the sum of its parts, not their product: nothing about their
interaction is claimed by it. Where components do interact the composition is a
module of its own: `OpsJob` with the lease, `ReleaseGovernance` with the jobs of
a release, `PlanPass` with the Skills, `ChatDiagnosis` with the engine.

### MutationLease

`phase` is where a coroutine is: `idle` (anything but a change), `queued`
(inside `_acquire_ops_execution_lease`), `holding` (inside the `try` around
`run_with_heartbeat`). `Grant` is the body under the condition when it grants;
a refusal changes nothing and is not an action. `GiveUp` is the test of the
cancel event at the head of the loop. `Return` is a write that returned or
raised, `Abandon` a deadline or a cancel: the lease goes in the `finally` clause
and the call becomes a `stray` call, which `Land` ends. The wait set of the
condition is not modelled, because its wait has a timeout of one second after
which the loop tests again: a lost wake-up is a delay.

### OpsJob

`job` is the public record, `task` the coroutine with its locals, `writes` the
calls of `_execute_change` that have not returned, `disk` the stored records.
One action is what runs between two suspensions. A plan is a sequence of
changes, or `Diagnosis`; its fingerprint is the plan. A diagnosis is always a
new strategy, because `_continuous_diagnostic_plan` puts the cycle number in
the ids of its steps. What evidence, gates, models and the cluster answer is a
nondeterministic choice among the outcomes the code distinguishes (`PlanPass`,
`ChangeExecution` and `RecoveryVerification` have what is behind them):

* `Diagnose...`: refused by a gate; healthy; nothing to submit; ready.
* `ChangeReturns`: ok, failed, or *blocking* (a failure of the execution
  channel, `_operator_blocking_execution_failure`), which makes the same plan
  possible again. A timeout counts as blocking.
* `Recovered`, `RollbackNeeded`, `Unrecovered`: the result of the verification;
  only a plan that carries or inherits a rollback is rolled back.

The rollback of a hardening is a patch of its own (`RollbackOf`), which the code
marks as approved and sends without an approval_id (`application.py`
15784-15811): its call names no ticket. A later plan that has none of its own is
laid over `initial_plan` and inherits that one's (`Carried`). `undone` counts the
rollbacks on the ticket of the change that was confirmed last before them.

`Answer` takes any approval_id that was ever shown for the job, so replays and
late answers are among its inputs. `Cancel` sets the cancel event and cancels
the task: from then on the coroutine only gets its `CancelledError` (`May`). It
is not enabled before the coroutine's first step: the id of a job only leaves
the process after that step was queued. `tickets`, `acked` and `settled` are
history variables: no guard of the coroutine reads them, except that an
approval id is the next number of `tickets`, and its bound.

`CrashAndRestart` is a process that dies anywhere and starts from the last
flush: `_restore_ops_jobs` and `resume_persisted_ops_jobs` run before the first
request. `Persist` here is an atomic flush; `OpsJobStore` has its parts.

### PlanPass, PermissionLadder, EvidenceCollection

`PlanPass` follows a plan through release gate, evidence, routing, review,
diagnostic steps, access check, approval, submission, verification, rollback and
the plan that is left for the next pass; a cancel may come at any await. A Skill
is what decides about a change: may it be executed, is it a router, which
actions it allows, which evidence it needs, all of it or one of a group. The
switch `SKILL_EXECUTION_REQUIRED` has its default, true (`application.py` 16949,
17136, 17141). A verification that raises ends the job before anything is rolled
back (15712).

`PermissionLadder` keeps each place in which the code remembers a stage
(`planStages`, `history`, `lastChanges`, `lastProbe`, the job's first plan),
because the property is about their sum; what `_prior_attempts` would add is
among the stages of the context (14131). `accepted` are the stages whose write
the cluster answered for; a refused write may have been made all the same. A
channel that is blocked leaves a retry plan, which an operator may start as a
job of its own (`Retry`); one job of the incident runs at a time.

`EvidenceCollection` makes every read of the cluster a step; the evidence
carries, container by container, the Pod each stream came from, as history.
Logs are merged container by container too: what a merge keeps of a container
the new Pod does not have stays the old Pod's, under the new Pod's name. When
evidence is carried over twice, `log_lineage["source_pod"]` may name a Pod
between the two; the model asks only for which Pod the logs were kept. Ephemeral
containers are left out.

### ChangeExecution, RecoveryVerification, ProgressiveRollout

Every reply of a cluster is a step, with other writers, a webhook that undoes a
patch, and the removal of a registration in between. A transport is resolved
where the code resolves it: at the read and again at the write. The verifier
runs on a clock in seconds; Pods restart, turn ready or are created anew at any
moment of it. A Pod must be born after the change, with two seconds for clocks
that differ (`Tolerance`), only if a change patches the template or scales out
and had not been applied before (`mutates`; `application.py` 10376-10403,
10754-10756); otherwise the Pods there are may prove the recovery.

A Pod template gives each field a value or nothing, and a patch is laid over it
field by field (`PatchedBy`), in a release as in the restore after an abort. A
second release applies its own steps, replicas and analysis to the Rollout that
is there (`spec`), possibly long before it patches the Deployment. A promotion
is a status patch without a precondition; `overtaken` notes the canary that came
between its read and its write. The Argo controller is external, modelled from
how the code uses it: it adopts a Deployment, shifts weight at a new template or
at new steps, pauses, aborts.

### The platform around the jobs

`HarnessEvents`: the number of an event stands for its hash; a handler that
appends twice may crash between. `ReleaseGovernance`: a request that awaits
works on the copy of the release it read first (`requests`), which is what the
handlers do. Each path of the store may fail at a write, and be unreadable at a
start, which then takes the next one (`reliability_store.py` 30-41).
`HarnessPackages`: a refresh unmounts and mounts again; an id is a number, the
order of ids as strings. `unmount` disposes the direct dependents of a plugin
only, not theirs: what stands on a dependent that does not come back would go on
running. `BuiltinsAssumption` is what `BUILTIN_PLUGIN_MANIFESTS` grants: the
built-in plugins can be activated one after the other, except those that require
what only packages offer, and no built-in plugin's listener clashes with
another's. Hence a refresh, which takes every package away, ends with the
built-in ones that need no package and none that does. With one more built-in
plugin that requires the service of such an agent, TLC finds a dependent of a
dependent that outlives the package. `SkillRegistry`: every method holds the
registry's lock throughout, so a method is a step; what a failed or torn write
leaves on disk is state, also that of a start. A package that cannot be read is
skipped, and the legacy or shipped record stays (`ops_skill_registry.py`
1402-1403); the legacy `ops-skills.json` is assumed readable. `behind` has the
ids whose last write failed or which a start could not read. `ClusterRegistry`:
each SQL statement is a step, the probes between them are not atomic.
`RemediationEngine` keeps of each runbook the terms that tell runbooks apart;
scores are integers in ten-thousandths. `ChatDiagnosis` and `Inspections`: Pods
come, go, heal and crash between the steps; Skills are switched off. After the
binding to the target a Skill takes away the changes it does not allow, or, when
its handler executes plans, replaces them all by its own (`application.py`
17088-17109; `skilled`, `replaced`).

### RunWithHeartbeat, OpsJobStore, RuntimeResilience

The clock of a stage has equal units. A coroutine whose wait is over runs before
the clock moves; the clamps to 0.01 s or 0.05 s become "at least one unit".
Operation and sink may run for ever, also after `cancel()`.

A stored record is a version number that only grows. The thread reads the
records one by one while the event loop changes them (`Read`), which is what
`asyncio.to_thread` over the live dictionaries does. The temporary file has one
name: two threads that have it open share it, and a thread whose file was
renamed by another goes on writing to what is now the store. `owed` is a
history variable: the last finished write of the flusher did not succeed.

The semaphore under the bulkhead is that of Python 3.13: a release hands its
permit to the first waiter, whose task runs later, and a timeout or a client
that goes away may cancel the task in the meantime.

## 3. Runs

| run | instance | expected | shows |
|---|---|---|---|
| `lease` | 3 jobs, 3 targets, 2 slots, 2 changes per job, 1 stray call per target | pass | no leak, service, refinement of `SingleFlight` |
| `lease_writes` | the same | violation | the writes themselves are not single-flight |
| `job` | 1 job, plans of two and one changes, 3 approvals, 1 crash, approval timer on | pass | approvals, status, stop, strategies |
| `jobs` | 2 jobs, 1 target, 1 slot, registry of 1, no crash | pass | refinement of `SingleFlight`, a confirmed change is submitted |
| `job_past_timeout` | as `job`, no crash | violation | a plan goes on after a write of unknown outcome |
| `background` | stage: 144 combinations of arguments; store: 2 records, 2 versions, 1 timeout, 1 failure, 1 crash; bulkhead: 3 visitors, 2 slots | pass | stages end, changes are saved, permits add up |
| `store_torn` | the store alone | violation | a torn file after a write that was given up |
| `change` | 6 parts, see below | pass | evidence, contracts, stages, writes, recovery, canary |
| `change_writes` | the execution of 3 types of change | violation | types without a managed branch write to the local cluster |
| `plan_rollback` | the passes alone, 2 of them | violation | a plan inherits the rollback of another |
| `platform` | 8 parts, see below | pass | history, promotion, plugins, Skills, inspections, answers, clusters |
| `chat_target` | the part of the chat alone | violation | an answer changes another namespace |

`CHECK_DEADLOCK FALSE` in each: with bounded changes, requests and moves, and
with every job ended, these systems stop as they should.

### Properties

Type invariants apart (one per module, joined in the composite instances):

* Lease: `NoLeakedLease` (the table equals the holders), `QueuedIsServed`,
  `ImplementsSingleFlight` (exclusion and bound, as a refinement).
* Jobs: `StatusMatchesRunner` (active status iff coroutine),
  `ApprovalsGuardWrites` (each call in flight was confirmed for that change in
  this life of the process, or is the rollback of a hardening that follows such
  a change; each confirmation submits once, with at most one rollback after it),
  `NoSettledStrategyAgain`, `StopIsFinal` (no write after an acknowledged stop,
  and the job ends), `ConfirmedIsSubmitted`.
* Stages and store: `WaitsAreBounded` (deadline and cancel),
  `NoOperationLeftRunning`, `EveryStageEnds`; `SavedAndReadable` (a flusher that
  ended well saved everything; the file is whole unless a write was given up),
  `NeverBackwards`, `ChangesLand`. Bulkhead: `BulkheadIsSound` (permits add up,
  none idles before a waiter, whoever waits gets in or gives up).
* Incident: `EvidenceIsOfOnePod` (each container's streams);
  `SubmittedUnderContract` and `FailedHardeningIsUndone`; `EachStageOnce` (what
  the cluster accepted is not put up again); `WritesAreTrue` (completed means
  made, and made where its object was read); `RecoveryIsEarned` (over a whole
  window, and on new Pods where there must be any), `EveryVerificationEnds`;
  `CanaryIsGuarded` (traffic is earned batch by batch, by the steps of one
  release) and `ReportsAreEarned` (what a probe says of a canary or a rollback
  has happened).
* Platform: `HistoryStaysWhole`; `StatusesAreBacked` (whichever file a restart
  could read, no release is recorded as more than its jobs did) and
  `PromotionFollowsValidation`; `ActivePluginsAreSupported`; `EnablingIsDecided`
  (nothing learned is enabled without an operator, and a restart keeps the last
  decision, but for what the disk failed) and `HistoryIsSound`;
  `InspectionsAreSound`; `AnswersAreBound`; `RegistryIsSound`.

`SubmittedUnderContract` leaves out the plans that go without a Skill: those of
a job that began as a release (`initial.exempt`), and in any job the abort of a
grey release and what replaces that abort, which inherits the exemption
(`application.py` 15748, 13267-13286, 16877). For the same reason
`FailedHardeningIsUndone` leaves out a grey release that inherited the rollback
of a hardening: it is aborted instead; and a job that an exception of the
verification ended. `SavedAndReadable` promises a
readable file only as long as no write was given up; `store_torn` is what
happens after one.

Each property has a mutant, marked *Mutant* in its module, that breaks it the
way a plausible bug would: a release outside `finally`, a grant that looks only
at slots, a timer that confirms, a cancel that only sets the event, a flag that
is not set while a flush runs, a stage that is remembered in one place only, a
read back of whatever object now has the name, a second release that leaves the
Rollout the steps it has, a grey release that counts as validated because its
Workload recovered.

### Bounds, and why they are enough

Every bound is a guard or a constant of a configuration, named in its module.

* Lease: three jobs are needed for a job to be refused for the target alone,
  for the slots alone and for both; two changes per job make a job return to
  the lease (`MaxChanges`, `MaxStray`). The proofs need no bound.
* Jobs: an approval can only be mistaken for another one of the same job, so one
  job with three approvals (two in one plan, one in another, with a change that
  occurs in both) shows replay across steps and plans; one crash separates two
  lives of the process. Jobs interact through lease and registry only: two jobs
  with one slot and one entry (`MaxApprovals`, `MaxCrashes`, `Priors`). The
  proofs hold for any values of these.
* Store: two threads can be at the temporary file; one timeout provides them
  (`MaxVersion`, `MaxTimeouts`, `MaxFailures`, `MaxCrashes`).
* Passes: two of them let one leave a plan to the next; ladder: three plans, so
  that a stage, another Skill's plan and a return to the ladder fit, and one
  edit by others (`MaxPasses`, `MaxLadderPlans`, `MaxContextEdits`). Evidence:
  two collections, so that one is reused by the other, one move of a Pod
  between any two reads, and two containers, one of which not every Pod has
  (`MaxCollections`, `MaxPodMoves`).
* Execution: every type of change that has a branch of its own, a local, a
  kubeconfig and a Rancher cluster, one edit by others, enough uids for a
  replacement of a replacement (`MaxEdits`, `MaxUid`). Verification: two Pod
  names, two restarts and three moves within a window of three seconds
  (`MaxRestarts`, `MaxMoves`): a Pod goes, comes and restarts, or each fails in
  turn. Rollout: two releases, one with three batches that sets one field, one
  with one batch that sets both, and three commands, so that a release meets one
  under way and is then aborted or promoted (`MaxCommands`).
* Events: two forks, a memory of four events, five appends, one failing write,
  one restart: a chain is cut, forked and read again (`MaxAppends`,
  `MaxWriteFaults`, `MaxEventCrashes`). Releases: two jobs and at most two
  requests under way at one time, so that a promotion meets an abort, an
  analysis or another job (`MaxReleaseJobs`, `MaxRequests`); a third request
  adds no pair. One save fails and one restart follows, with any of the paths
  unreadable (`MaxObjectives`, `MaxSaveFaults`, `MaxReleaseRestarts`). Packages:
  three steps (install, refresh or removal, restart; `MaxPackageSteps`). Skills:
  four steps with two faults, each a write that fails or a start that cannot
  read (`MaxSkillSteps`, `MaxSkillFaults`).
* Inspections: one inspection and one preview with one move of a Pod and one
  switch of a Skill between their steps; four Pods give a namesake, a sibling
  and both kinds of remote cluster (`MaxInspections`, `MaxPreviews`,
  `MaxToggles`). Chat: one question, five Pods, one that comes or goes
  (`MaxChatMoves`). Clusters: two callers, three calls, one change of what a
  server accepts (`MaxCalls`, `MaxTurns`); the proof needs none of these.

### Fairness

* A waiting job tries again (timeout of one second on the condition), a holding
  one leaves (deadline of `run_with_heartbeat`): weak fairness per job and
  phase in `MutationLease`. No fairness of requests, cancels or stray calls.
* The event loop runs every coroutine that can go on: weak fairness of
  `RunnerStep` per job. One assumption is not backed by a deadline of the code:
  the call of a hardening rollback returns (`application.py` 15811).
* In `RunWithHeartbeat` the coroutine and the clock are fair; operation, sink
  and operator owe nothing. In `OpsJobStore` the flusher is fair, and so is the
  thread it waits for; a thread that was given up may hang for ever. In
  `RuntimeResilience` a task that was woken runs, and whoever holds a slot gives
  it back, because the calls inside have timeouts; no visitor has to come.
* In `RecoveryVerification` the verifier is fair (its probes and sleeps have
  timeouts); controller and Pods owe nothing.
* The other specifications state no fairness: only safety is asked of them.

### Where code and documents differ

1. `lease_writes`. "Writes to the same cluster/namespace/resource are
   single-flight" (`docs/sre-harness-and-ebpf.md` 41). The lease is released
   when the coroutine stops waiting; the call may still be in flight when the
   next job gets the target.
2. `job_past_timeout`. After a write that timed out the log says
   "状态不确定，已熔断后续动作" (`application.py` 15448: outcome unknown, further
   actions cut off). The loop over the changes goes on: the next change is put
   up for approval and submitted.
3. `store_torn`. The data layer is called atomic JSON files
   (`docs/PROJECT_TECHNICAL_MATERIALS_ZH.md` 269). After a write that exceeded
   its deadline two threads share one temporary name, and `os.replace` may
   publish a half-written document; a restart then restores an empty registry.
4. `change_writes`. A missing cluster "must fail visibly" (`application.py`
   3968). Nine types of change have no managed branch and fall through to the
   MCP server of the local cluster.
5. `plan_rollback`. Confirmations of the last round "must never leak into the
   next" (`application.py` 18670, in Chinese). The next plan of a job is laid
   over its first one and inherits stage and rollback of a hardening; when its
   own change fails, that rollback is submitted, which nobody was shown with it.
6. `chat_target`. "Keep diagnosis and every executable action on the
   operator-selected target" (`application.py` 1279). For a registered cluster
   the Pods of all namespaces are read, and the plan is moved to the namespace
   of the one that ranks worst, after the binding was enforced.

Further disagreements, which the models contain and no run asks about:

* The rollback of a grey release "restores" the stable template (`application.py`
  10232) and is complete (`docs/ARGO_ROLLOUTS_SRE_ZH.md` 19, 133). It is sent as
  a strategic merge patch (10304, `cluster_registry.py` 789-799): what only the
  rejected version says stays. `ReportsAreEarned` asks for what the stable
  template says, and no more.
* A stage is remembered when it was accepted, "leaving API/RBAC failures
  retryable" (12403-12406), and a blocked job leaves a plan to do so
  (18463-18490). The incident remembers the refused stage too (14126-14133): the
  ladder itself never puts it up again, only the retry plan does, which is sent
  as it was. `EachStageOnce` is about accepted stages, on which both agree.
* A built-in Skill that was disabled comes back enabled when its package cannot be
  read at a start (`ops_skill_registry.py` 1402).
* An exception out of the verification ends the job without the rollback of its
  hardening (15712).

Two models contain a further state of that kind:
`ClusterRegistry.RefreshIsAtomic` fails, since a new token is laid over the
kubeconfig that was read before the probe, also when an upload came in between;
and an event log that had to use its fallback path loses those events at a
restart, which is why `ChainUnbroken` asks for the primary journal.

## 4. Theorems

No theorem assumes a bound on jobs, plans, targets, Pods, changes, calls or
durations. The only assumptions are the named `ASSUME`s on the constants, which
TLC evaluates on every run of the module: that names the code keeps apart are
apart (local and registered clusters, built-in and learned Skills, originals and
forks), that limits and timeouts are natural numbers, that a semantic score is at
most one and hypotheses and evidence come in lists (`RankingAssumption`), and that
what is counted is finite (the names of Pods, the clusters, for which
`ChangeBoundsAssumption` provides a uid each), and what the built-in plugins have
in common (`BuiltinsAssumption`). Each module is built the same way: the invariant
with its named parts, lemmas on the operators, one lemma per action, the theorem.

* `MutationLeaseProofs`. The inductive invariant is the type invariant with
  `NoLeakedLease`, the target of every holder and queued job, and the bound on
  slots. Exclusion alone is not inductive: the grant test reads the table, so
  the table must mirror the holders; the mirror is preserved by a release only
  because a job holds at most one target. From it follow `LeaseTypeCorrect`,
  `LeaseNeverLeaks`, `LeaseExclusive`, `LeaseBounded`, and, with one lemma on how
  each step changes `HolderOf`, `LeaseImplementsSingleFlight`: `Grant` maps to
  `Take`, `Return` and `Abandon` to `Give`, everything else stutters.
* `OpsJobProofs`. `ApprovalsGuardWrites` is about calls and tickets; what makes
  it hold is a chain that starts at the record an operator sees. `JobInv` has
  its links: an approval that is shown and not consumed is an *open* ticket
  (`RecordFits`), so an answer closes a ticket once; a confirmed receipt names a
  confirmed ticket for its change, so a coroutine that compares ticket, change
  and step with its own moves to the lease with a confirmed ticket that is
  unused (`TicketFits`); its call then is backed, and no later step of anyone
  takes a confirmation back. A rollback has no ticket: what backs it is that the
  coroutine, until it is done, stands at a confirmed ticket that was submitted,
  and that this ticket counts one rollback once the call is out. `StopFits` says
  that a stopped coroutine has a pending `CancelledError`, or sits in its wait
  for approval with the cancel flag set: from it comes `JobNoWriteAfterStop`.
  `StatusFits` ties the status to the coroutine, `StrategyFits` the settled
  strategies to the tried ones, and `OrderIsRegistry` the list of ids to the
  records: a delete removes one entry, an eviction the oldest, a restart lays
  down the file, and none of them leaves two entries of one id, here or on disk.
  The bound on approvals is an invariant too (the changes that are left fit into
  it), because the next change is asked for in the step that ends the last one.
  Each action has a lemma; those of one shape share one (`QuietKeepsInv` for
  steps that issue no ticket, `RequestKeepsInv` for answers and cancels).
  `JobsImplementSingleFlight` is the refinement over this invariant and one
  more, `TableMirrors`: the lease table names the coroutines that are inside a
  write, and nobody else. The steps of a runner leave its write alone, begin or
  end it (`Stays`, `Enters`, `Leaves`), those of others leave it alone, a
  restart forgets all of them; they map to a stutter, `Take`, `Give` and
  `Forget`.
* `BackgroundProofs`. For `RunWithHeartbeat` the invariant adds to the types that
  control state, operation and outcome agree, and two tables: the latest end of
  the wait in each control state, without a set cancel event and with one. A wait
  for the operation ends at the deadline at the latest; the heartbeat after it
  overruns what was left by the smaller of the heartbeat interval and the sink's
  bound (`BeatOverrun`), its cleanup takes one grace, and the way out takes one
  more. From it follow `StageTypeCorrect`, `StageWaitsBounded`,
  `StageSettlesOperation`. For the bulkhead, `SlotInv` counts: permits that are
  free, handed to a waiter, and used are together the limit. Nobody waits twice
  (`Once`), so as many waiters have a permit as were woken; and a waiter that
  leaves and wakes others leaves no permit free that one of them could have.
  From it follow `PermitsSound` and `SlotsTypeCorrect`.
* `OpsJobStoreProofs`. The invariant follows one write. As long as no write was
  given up there is at most one thread, it owns the temporary file, and what it
  has read of a record lies between the file and the registry and equals the
  registry once the flag is clear (`OneWrite`). That nothing is lost when the
  flusher ends depends on what a thread read while the flag was set and cleared
  again around it. From it follow `StoreTypeCorrect` (also after timeouts),
  `StoreKeepsChanges` and `StoreNeverGoesBack`. `RecordsAssumption` says that
  there is a record to store: over no records, "no file" and "no document" are
  equal.
* `HarnessPackagesProofs`. `Sound` is what a refresh leaves behind, whatever
  runtime it starts from: services and listeners are those of the active plugins
  (`Runtimes`); every set of active plugins that holds what its own members
  support is all of them, so none lives on itself or on what is gone
  (`Grounded`); some mounted plugin declares what an active one requires
  (`Declared`), which is why taking the packages away, one after the other,
  leaves no active plugin that needs one; whoever waits lacks a service and
  whoever failed clashes (`Settled`); the built-in plugins are mounted. A
  refresh is made of folds over sequences of plugins. That a fold is what it
  folds (`FoldExists`) and that what one step keeps is there at the end (`UpTo`)
  are shown from the least place at which they fail, without an operator for the
  statement, and so is the loop of `_reconcile`: a pass that is not the last
  activates a plugin, hence as many passes as there are plugins settle them
  (`ReconciledSettles`). From it follow `PackagesTypeCorrect` and
  `PackagesActiveIsSupported`: the active plugins are exactly the least set that
  supports itself. The proof attempt added `BuiltinsAssumption`.
* `PlatformProofs`, also *clusters*. The state of a handler between two
  statements is what has to be strengthened: one that is about to save carries a
  kubeconfig that its probe proved (`SavingIsProved`), and a cache entry lists
  the clusters of its key (`EntriesMatchKeys`), so that entries written after an
  invalidation are found under no later key. The invariant is `ClustersInv`;
  from it follows `RegistrySound`.
* `ChangeProofs`, four modules of one incident.
  *Execution*: `ChangeInv` follows the objects of the clusters between read,
  write and read back. Uids are never reused (`UidsAreUnique`), so the object
  that has the uid of the first read, the approved values and a later generation
  took them in the meantime (`LaterIsPatched`), and the cluster that was read is
  the one a request reaches unless a kubeconfig went (`ReadIsReached`). It gives
  `WritesTrue`.
  *Evidence*: `EvidenceInv` says for each place of a collection what the draft
  holds (`DraftFollows`); evidence that is `Whole` has for each container the
  streams of one Pod, and of its own Pod where that has the container, and the
  copy that is reused later is whole too, which is what `EvidenceOfOnePod` needs.
  *Verification*: `RecoveryInv` has to relate a window to Pods that go on
  changing. The Pods of a recovered probe were, if the change must make new
  ones, born after it and stay so (`AssessedAreNew`); a sample lies in the past
  and restarts only grow (`SamplesArePast`), so two samples that agree bound
  what happened between them (`SamplesAgree`, `RoundsFollow`). It gives
  `RecoveryEarned`.
  *Grey release*: `RolloutInv` says that traffic is earned one analysis per
  batch of the steps the Rollout has (`BatchesAreCounted`), that these are the
  steps of the release that wrote the template unless another Rollout was laid
  over it (`CanaryHasItsSteps`), that a Rollout is adopted before a Deployment is
  patched by a release (`AdoptedBeforePatch`), that what was promoted is stable
  (`PromotedIsStable`), and that the last pause, once a promotion has read it,
  holds until another template or other steps come (`FinalPauseHolds`). The proof
  attempt changed the property: the promotion that was read before another
  template came and is sent after it promotes a batch nobody analysed;
  `CanaryIsGuarded` now says so with the history variable `overtaken`. The
  theorems are `CanaryGuarded` and `ReportsEarned`; a report of a validated canary
  is tied to the batches through the count of steps in both.
* `PlanProofs`. `PassInv`: a plan is a plan at every place of a pass
  (`PlansArePlans`), the place says what is known of it (`PlacesAreTyped`), and
  each change of it is one the operator was shown, under a contract examined in
  this pass or with the exemption (`ChangesAreCovered`). It gives
  `ContractsHold` and `HardeningsUndone`. The proof attempt corrected both
  properties: a plan that replaces the abort of a grey release inherits its
  exemption and a rollback. `LadderInv`: a stage that was accepted is remembered
  by both memories of it (`AcceptedIsRemembered`), the hardening comes last
  (`HardeningComesLast`), and what is put up is the stage of the plan
  (`OfferIsOfPlan`). It gives `StagesOnce`.
* `PlatformProofs`, five modules around the jobs.
  *Releases*: `ReleaseInv` extends what is promised of memory to every file a
  start may read (`FilesAreBacked`) and to the copies of the requests under way
  (`RequestsAreBacked`), and says that a job that waits for an approval or writes
  has its plan (`WritesHaveAPlan`). Jobs are only added, and what they have
  verified only grows (`Grown`): so what backs an old file backs it still, and a
  status may be behind its jobs, never ahead of them. Theorems `StatusesBacked`,
  `PromotionsFollow`.
  *Skills*: `RegistryInv` says of each id what memory and disk may hold of it
  (`Stored`) and that what is learned is enabled only if an operator published
  it (`ByOperator`): `EnablingDecided`. `HistoryInv` bounds the outcomes: what was
  resolved and the receipts that may still be resolved are together no more than
  what was handled (`WellCounted`), in memory and in the file. `RankInv` adds
  that a Skill no incident is counted for has no outcome either (`Unjudged`), so
  each part of a score is a share of a whole, and the history of a Skill is worth
  2660 at most (`HistoryWorth`), less than the 3000 a failure in the fault chain
  costs. Hence `HistorySound`, for all scores. The proof attempt corrected
  `FailedSkillYields`: scores are cut at 0, so a Skill that was not tried, but is
  put back for its role, may tie with one that failed.
  *Chat*: `ChatSound` follows one question from stage to stage; what was found
  leads to its target and a plan with changes waits for approval. Of an answer it
  says which changes were bound to the target (`IsBound`) and which a Skill
  brought for the target it was given (`IsSkillBound`): `AnswersBound`.
  *Inspections*: findings name their Pod and its owner (`Anchored`) and report
  every suspect of the listing (`Reported`): `InspectionsSound`.
  *Events*: while nothing was missed, memory is the end of the primary journal
  and a chain (`EventInv`); a branch that is hidden is a leaf: `HistoryWhole`.
* Composition. `PlatformIsItsParts` and `PartsAreTheirOwn` say that a behaviour of
  the instances `MCPlatform` and `MCChange` is a behaviour of each part's own
  specification, so that what is proved of a part is proved of what TLC explores.
  With them `PlatformTypeCorrect`, `PartsTypeCorrect` and `ActivePluginsSupported`
  hold of the instances. `RecoveryVerification` takes part with its initial states
  and steps; its fairness stays outside, because that needs ENABLED.

Only model-checked, because the prover cannot reach it:

* Liveness: `QueuedIsServed`, `ConfirmedIsSubmitted`, `EveryStageEnds`,
  `ChangesLand`, `EveryVerificationEnds`, and the halves of `StopIsFinal` and
  `BulkheadIsSound` that promise an end. The safety halves are
  `JobNoWriteAfterStop` and `PermitsSound`.
* The scores of `RemediationEngine`: sums over the terms of a runbook. The
  proofs about chat use what a plan of it can be (`EnginePlanKnown`).

Every other property of a passing run is stated by a theorem.

## 5. Not modelled

Left out on purpose, with the reason:

* What a patch, a text or an evidence item says, character by character; scores
  and texts of the release gate; the wording of a postmortem.
* What the score of a root cause is used for beyond the order of causes.
  `RemediationEngine` has no property of its own: it says which changes a chat
  may come up with.
* The second worker process: leases, approvals and the registry are
  process-local, and the deployment runs one worker.
* The cut of the job store by age and by `OPS_JOB_STORE_LIMIT`, redaction, and
  the import of records.
* `aiops_algorithms.py` and its like: statistics over floating point numbers.
* Declarations, stateless lookups, parsers of logs and flows, the web console,
  the chart: no state a step could break.
* The model registry and the LLM client: a model's answer is any of a set.

Behaviour that was met while reading and that no property covers (the hazards
without a property say more):

* Skills: the verdict of an import is lost at a restart; an import of several
  packages that fails leaves the first on disk; a re-learned recovery turns a
  Skill that an operator published back into a candidate; a deleted custom Skill
  comes back from the legacy file; deleting an operator's version of a built-in
  Skill enables the built-in one at the next restart.
* Inspections: events are kept by Pod name only (`application.py` 7160); a failed
  read of events whose text says "connection refused" turns a crash loop into a
  network fault (7157); an older inspection that ends later overwrites
  `LAST_INSPECTION_PAYLOAD` (19457).
* Chat: when the inventory of a remote cluster cannot be read the graph reads the
  local one (1730-1786); a Pod of `api-gateway` counts as one of `api` (1192).
* Releases: any completed job of a release, also of its canary only, moves it to
  completed (18184).
* Clusters: the verdict of a probe may be older than the kubeconfig it is stored
  with; base and token of the Rancher profile are read one after the other.

## 6. Plan

Done: every module of section 2, and a proof for each component except
`RemediationEngine`, whose operators are used through one lemma. Every safety
property that a passing run checks is a theorem.

A theorem to come: that a grant in `OpsJob` is a step of `MutationLease`.
Models to come: the job store's retention, the Rancher profile, and the
enrichment of evidence (storage, services, nodes).
