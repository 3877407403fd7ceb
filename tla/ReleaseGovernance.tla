-------------------------- MODULE ReleaseGovernance --------------------------
(***************************************************************************)
(* Releases: the requests of backend/app/api/reliability.py, the store of  *)
(* services/reliability_store.py, the error budget of domain/slo.py, the   *)
(* jobs services/release_execution.py submits and what                     *)
(* _sync_release_from_ops_result of application.py writes back.            *)
(*                                                                         *)
(* A request that awaits (the job queue's lock, Prometheus) works on the   *)
(* copy of the release it read first.  The jobs are those of OpsJob, seen  *)
(* from the release: gate, approval, write, verification and, when nothing *)
(* has recovered, read-only cycles.  The Rollout is external.              *)
(***************************************************************************)
EXTENDS Integers, Sequences, FiniteSets

CONSTANTS
    Releases,           \* givenIds, one workload each
    NoFile,             \* a path that holds nothing readable
    TargetPermille,     \* target_percent * 10
    WindowMinutes,      \* window_days * 1440
    Objectives,         \* what operators put in: [total, failed, downtime]
    MaxReleaseJobs,     \* bound: jobs submitted
    MaxRequests,        \* bound: requests under way at one time
    MaxObjectives,      \* bound: objectives put in
    MaxSaveFaults,      \* bound: paths that refuse a save
    MaxReleaseRestarts  \* bound: restarts of the process

ASSUME ObjectivesAssumption ==
    /\ TargetPermille \in 500 .. 999 /\ WindowMinutes \in Nat \ {0}
    /\ Objectives \subseteq [total : Nat, failed : Nat, downtime : Nat]

VARIABLES
    data,        \* _data: the objective and the releases
    givenIds,    \* ids of all releases there were; none is given again (uuid4)
    files,       \* what each path holds, primary first
    requests,    \* requests that wait, with the release they read
    releaseJobs, \* the jobs submitted for releases
    rollout,     \* the Rollout of each release's workload
    objectiveCount, saveFaults, releaseRestarts

releaseVars == <<data, givenIds, files, requests, releaseJobs, rollout,
                 objectiveCount, saveFaults, releaseRestarts>>
store == <<data, givenIds, files, saveFaults>>
cluster == <<releaseJobs, rollout>>
counters == <<objectiveCount, releaseRestarts>>

Channels == {"standard", "emergency_recovery"}
\* "pass" stands for every verdict of the evaluator that leaves the release to
\* the approver (pass, hold, manual_approval, manual_review).
Verdicts == {"pass", "rollback"}
Levels == {"ok", "over", "far_over", "missing"}

-----------------------------------------------------------------------------
(* evaluate_error_budget: whether the budget is used up, by failed requests *)
(* when there are any requests, by minutes of downtime otherwise.           *)

DefaultObjective == [total |-> 0, failed |-> 0, downtime |-> 0]
Exhausted(objective) ==
    LET budget == 1000 - TargetPermille IN
    IF objective.total > 0
    THEN objective.failed * 1000 >= objective.total * budget
    ELSE objective.downtime * 1000 >= WindowMinutes * budget
FreezeChanges == Exhausted(data.objective)

\* _evaluate_progressive_analysis.
AnalysisAborts(errors, latency) ==
    FreezeChanges \/ errors = "far_over" \/ latency = "far_over"
\* Mutant: what does not abort is safe.
AnalysisNotAborted(errors, latency) == ~AnalysisAborts(errors, latency)
\* A number that is missing is never safe.
AnalysisSafe(errors, latency) ==
    ~AnalysisAborts(errors, latency) /\ errors = "ok" /\ latency \in {"ok", "not_asked"}

-----------------------------------------------------------------------------
(* ReliabilityStore.                                                        *)

\* _save: the first path that takes it; when none does, OSError, after the
\* change has been made in memory.
Save ==
    \E refused \in 0 .. Len(files) :
        /\ saveFaults + refused <= MaxSaveFaults
        /\ saveFaults' = saveFaults + refused
        /\ IF refused < Len(files)
           THEN files' = [files EXCEPT ![refused + 1] = data']
           ELSE UNCHANGED files

KnownRelease(r) == data.releases[r].status # "none"
\* add_release and update_release: the release, then a save.
StoreRelease(r, release) ==
    /\ data' = [data EXCEPT !.releases[r] = release]
    /\ Save
SetStatus(r, status) ==
    StoreRelease(r, [data.releases[r] EXCEPT !.status = status]) /\ UNCHANGED givenIds

NoRelease == [status |-> "none", channel |-> "standard", progressive |-> FALSE,
              frozen |-> FALSE, verdict |-> "pass"]
NoData == [objective |-> DefaultObjective, releases |-> [r \in Releases |-> NoRelease]]

UpsertObjective(o) ==
    /\ objectiveCount < MaxObjectives /\ objectiveCount' = objectiveCount + 1
    /\ data' = [data EXCEPT !.objective = o]
    /\ Save
    /\ UNCHANGED <<givenIds, requests, cluster, releaseRestarts>>

\* _load: the first path that can be read at this boot, not the newest; a path
\* that holds something may refuse the read.  Jobs come back without their
\* changes' approvals.
RestartReleases ==
    /\ releaseRestarts < MaxReleaseRestarts /\ releaseRestarts' = releaseRestarts + 1
    /\ \E unreadable \in SUBSET DOMAIN files :
         LET readable == {n \in DOMAIN files \ unreadable : files[n] # NoFile}
         IN data' = IF readable = {} THEN NoData
                    ELSE files[CHOOSE n \in readable : \A k \in readable : n <= k]
    /\ requests' = {}
    /\ releaseJobs' = [j \in DOMAIN releaseJobs |->
                          IF releaseJobs[j].at = "done" THEN releaseJobs[j]
                          ELSE [releaseJobs[j] EXCEPT !.at = "gate"]]
    /\ UNCHANGED <<givenIds, files, saveFaults, rollout, objectiveCount>>

-----------------------------------------------------------------------------
(* The requests.                                                            *)

\* The policy over the evaluator's verdict: an exhausted budget or a bad image
\* blocks, an emergency is reviewed whatever the evaluator says.
VerdictFor(channel, evaluated, imageRisk) ==
    CASE channel = "emergency_recovery" -> "emergency_review"
      [] channel = "standard" /\ (FreezeChanges \/ imageRisk) -> "blocked"
      [] OTHER -> evaluated
Blocks(verdict) == verdict \in {"blocked", "rollback"}

CreateRelease(r, channel, progressive, evaluated, imageRisk) ==
    /\ r \notin givenIds /\ givenIds' = givenIds \cup {r}
    /\ channel = "emergency_recovery" => ~progressive
    /\ LET verdict == VerdictFor(channel, evaluated, imageRisk) IN
       StoreRelease(r, [status |-> IF Blocks(verdict) THEN "blocked" ELSE "awaiting_approval",
                        channel |-> channel, progressive |-> progressive,
                        frozen |-> FreezeChanges, verdict |-> verdict])
    /\ UNCHANGED <<requests, cluster, counters>>

\* Whatever the status: a release under way can be approved again.
ApproveRelease(r) ==
    LET release == data.releases[r] IN
    /\ KnownRelease(r)
    /\ release.channel = "standard" => ~release.frozen /\ ~Blocks(release.verdict)
    /\ SetStatus(r, "approved")
    /\ UNCHANGED <<requests, cluster, counters>>

Asks(op, r) == [op |-> op, id |-> r, release |-> data.releases[r], at |-> "submit"]

RoomForRequest == Cardinality(requests) < MaxRequests

\* Mutant: the release is marked before its job is submitted, so that a second
\* click finds it taken.
ExecuteClaims(r) ==
    /\ RoomForRequest
    /\ data.releases[r].status = "approved"
    /\ data.releases[r].channel = "standard" => ~data.releases[r].frozen
    /\ requests' = requests \cup {Asks("start", r)}
    /\ SetStatus(r, "executing")
    /\ UNCHANGED <<cluster, counters>>

ExecuteReads(r) ==
    /\ RoomForRequest
    /\ data.releases[r].status = "approved"
    /\ data.releases[r].channel = "standard" => ~data.releases[r].frozen
    /\ requests' = requests \cup {Asks("start", r)}
    /\ UNCHANGED <<store, cluster, counters>>

\* The status first, then the live analysis; an unsafe one is only recorded.
PromoteReads(r) ==
    /\ RoomForRequest
    /\ data.releases[r].status = "canary_validated"
    /\ \E errors \in Levels, latency \in Levels \cup {"not_asked"} :
         IF AnalysisSafe(errors, latency)
         THEN requests' = requests \cup {Asks("promote", r)} /\ UNCHANGED store
         ELSE UNCHANGED <<requests, data, givenIds>> /\ Save
    /\ UNCHANGED <<cluster, counters>>

AbortReads(r) ==
    /\ RoomForRequest
    /\ data.releases[r].status \in {"executing", "canary_validated", "promoting", "failed"}
    /\ requests' = requests \cup {Asks("abort", r)}
    /\ UNCHANGED <<store, cluster, counters>>

\* submit_release_job, with what the job will have verified, over restarts:
\* the command decides the change, the channel its class.
NewReleaseJob(q) ==
    [id |-> q.id, command |-> q.op, plan |-> q.op, at |-> "gate",
     class |-> IF q.release.channel = "emergency_recovery" THEN "emergency_recovery"
               ELSE "application_release",
     progressive |-> q.release.progressive, verified |-> {}]

SubmitReleaseJob(q) ==
    /\ q.at = "submit" /\ Len(releaseJobs) < MaxReleaseJobs
    /\ releaseJobs' = Append(releaseJobs, NewReleaseJob(q))
    /\ requests' = (requests \ {q}) \cup {[q EXCEPT !.at = "record"]}
    /\ UNCHANGED <<store, rollout, counters>>

RecordSubmitted(q) ==
    /\ q.at = "record"
    /\ requests' = requests \ {q}
    /\ SetStatus(q.id, CASE q.op = "start" -> "executing"
                         [] q.op = "promote" -> "promoting"
                         [] q.op = "abort" -> "aborting")
    /\ UNCHANGED <<cluster, counters>>

\* The callback of an AnalysisRun records what it answers.
AnalysisCallback(r) ==
    /\ KnownRelease(r)
    /\ UNCHANGED <<data, givenIds>> /\ Save
    /\ UNCHANGED <<requests, cluster, counters>>

-----------------------------------------------------------------------------
(* The jobs.                                                                *)

JobTo(j, plan, at) == releaseJobs' = [releaseJobs EXCEPT ![j].plan = plan, ![j].at = at]
\* The next cycle reads only.
ReadsOn(j) == JobTo(j, "none", "verify")

\* _ops_release_gate: a plan that is not a repair is refused while the budget
\* is exhausted, an abort included.
Allowed(j) == ~FreezeChanges \/ releaseJobs[j].class # "application_release"
JobGate(j) ==
    /\ releaseJobs[j].at = "gate"
    /\ IF releaseJobs[j].plan = "none" \/ ~Allowed(j) THEN ReadsOn(j)
       ELSE JobTo(j, releaseJobs[j].plan, "approval")
    /\ UNCHANGED <<store, requests, rollout, counters>>

JobApproved(j) ==
    /\ releaseJobs[j].at = "approval"
    /\ \/ JobTo(j, releaseJobs[j].plan, "write")
       \/ ReadsOn(j)
    /\ UNCHANGED <<store, requests, rollout, counters>>

\* The executor refuses to promote a Rollout that is not at its final pause.
JobWrites(j) ==
    LET job == releaseJobs[j] IN
    /\ job.at = "write"
    /\ \/ /\ job.plan = "promote" => rollout[job.id] = "canary"
          /\ rollout' = [rollout EXCEPT ![job.id] =
                            CASE job.plan = "start" /\ job.progressive -> "canary"
                              [] job.plan = "start" /\ ~job.progressive -> "promoted"
                              [] job.plan = "promote" -> "promoted"
                              [] job.plan = "abort" ->
                                     IF rollout[job.id] = "canary" THEN "stable"
                                     ELSE rollout[job.id]]
          /\ JobTo(j, job.plan, "verify")
       \/ UNCHANGED rollout /\ ReadsOn(j)
    /\ UNCHANGED <<store, requests, counters>>

\* Mutant: a grey release whose Workload has recovered counts as validated.
SyncedAsRecovered(phase) ==
    CASE phase \in {"canary_validated", ""} -> "canary_validated"
      [] phase = "fully_promoted" -> "completed"
      [] phase = "rolled_back" -> "aborted"
\* _sync_release_from_ops_result, for a job that has recovered.
SyncedStatus(phase) ==
    CASE phase = "canary_validated" -> "canary_validated"
      [] phase = "fully_promoted" -> "completed"
      [] phase = "rolled_back" -> "aborted"
      [] OTHER -> "completed"
JobRecovers(j, phase) ==
    /\ releaseJobs' = [releaseJobs EXCEPT ![j].at = "done", ![j].verified = @ \cup {phase}]
    /\ IF KnownRelease(releaseJobs[j].id)
       THEN SetStatus(releaseJobs[j].id, SyncedStatus(phase))
       ELSE UNCHANGED store

\* The verification of the plan's command; an unresolved start or promotion
\* proposes its abort, everything else goes on reading.
JobVerifies(j) ==
    LET job == releaseJobs[j] IN
    /\ job.at = "verify"
    /\ \/ /\ job.progressive /\ job.plan = "start" /\ rollout[job.id] = "canary"
          /\ JobRecovers(j, "canary_validated") /\ UNCHANGED rollout
       \/ /\ job.progressive /\ job.plan = "start" /\ rollout[job.id] = "canary"
          /\ JobRecovers(j, "rolled_back") /\ rollout' = [rollout EXCEPT ![job.id] = "stable"]
       \/ /\ job.plan = "promote" /\ rollout[job.id] = "promoted"
          /\ JobRecovers(j, "fully_promoted") /\ UNCHANGED rollout
       \/ /\ job.plan = "abort"
          /\ JobRecovers(j, "rolled_back") /\ UNCHANGED rollout
       \/ /\ job.plan = (IF job.progressive THEN "none" ELSE job.plan)
          /\ job.plan \in {"start", "none"}
          /\ JobRecovers(j, "") /\ UNCHANGED rollout
       \/ /\ IF job.progressive /\ job.plan \in {"start", "promote"}
             THEN JobTo(j, "abort", "gate") ELSE ReadsOn(j)
          /\ UNCHANGED <<store, rollout>>
    /\ UNCHANGED <<requests, counters>>

ReleaseInit ==
    /\ data = NoData /\ givenIds = {}
    /\ files = <<NoFile, NoFile, NoFile>>
    /\ requests = {} /\ releaseJobs = <<>>
    /\ rollout = [r \in Releases |-> "stable"]
    /\ objectiveCount = 0 /\ saveFaults = 0 /\ releaseRestarts = 0

ReleaseNext ==
    \/ \E o \in Objectives : UpsertObjective(o)
    \/ \E r \in Releases :
         \/ \E channel \in Channels, progressive \in BOOLEAN, v \in Verdicts, risk \in BOOLEAN :
              CreateRelease(r, channel, progressive, v, risk)
         \/ ApproveRelease(r) \/ ExecuteReads(r) \/ PromoteReads(r) \/ AbortReads(r)
         \/ AnalysisCallback(r)
    \/ \E q \in requests : SubmitReleaseJob(q) \/ RecordSubmitted(q)
    \/ \E j \in DOMAIN releaseJobs :
         JobGate(j) \/ JobApproved(j) \/ JobWrites(j) \/ JobVerifies(j)
    \/ RestartReleases

ReleaseSpec == ReleaseInit /\ [][ReleaseNext]_releaseVars

-----------------------------------------------------------------------------
ReleasePhases == {"canary_validated", "fully_promoted", "rolled_back", ""}

Release ==
    [status : {"none", "blocked", "awaiting_approval", "approved", "executing",
               "canary_validated", "promoting", "aborting", "completed", "aborted"},
     channel : Channels, progressive : BOOLEAN, frozen : BOOLEAN,
     verdict : Verdicts \cup {"blocked", "emergency_review"}]
ReleaseData == [objective : Objectives \cup {DefaultObjective}, releases : [Releases -> Release]]

ReleaseTypeOK ==
    /\ data \in ReleaseData /\ givenIds \subseteq Releases
    /\ files \in Seq(ReleaseData \cup {NoFile}) /\ Len(files) = 3
    /\ requests \subseteq [op : {"start", "promote", "abort"}, id : Releases,
                           release : Release, at : {"submit", "record"}]
    /\ releaseJobs \in Seq([id : Releases, command : {"start", "promote", "abort"},
                            plan : {"start", "promote", "abort", "none"},
                            at : {"gate", "approval", "write", "verify", "done"},
                            class : {"application_release", "emergency_recovery"},
                            progressive : BOOLEAN, verified : SUBSET ReleasePhases])
    /\ rollout \in [Releases -> {"stable", "canary", "promoted"}]

(* What a release is recorded as, in memory and after a restart that had to *)
(* read whichever file is left, is what a job of this release was submitted *)
(* for or has verified: a file may be behind, no status runs ahead.         *)
Backed(jobs, r, status) ==
    LET Some(commands, phases) ==
            \E j \in DOMAIN jobs :
                /\ jobs[j].id = r
                /\ jobs[j].command \in commands \/ jobs[j].verified \cap phases # {}
    IN CASE status = "executing" -> Some({"start"}, {})
         [] status = "promoting" -> Some({"promote"}, {})
         [] status = "aborting" -> Some({"abort"}, {})
         [] status = "canary_validated" -> Some({}, {"canary_validated"})
         [] status = "completed" -> Some({}, {"fully_promoted", ""})
         [] status = "aborted" -> Some({}, {"rolled_back"})
         [] OTHER -> TRUE
StatusesAreBacked ==
    \A r \in Releases : Backed(releaseJobs, r, data.releases[r].status)

(* A promotion is only ever submitted after another job of the release has  *)
(* verified its canary, whatever restarts with older files, approvals given *)
(* again, aborts and late results of other jobs have made of its status.    *)
PromotionFollowsValidation ==
    \A j \in DOMAIN releaseJobs :
        releaseJobs[j].command = "promote" =>
            \E k \in DOMAIN releaseJobs :
                /\ k < j /\ releaseJobs[k].id = releaseJobs[j].id
                /\ "canary_validated" \in releaseJobs[k].verified
=============================================================================
