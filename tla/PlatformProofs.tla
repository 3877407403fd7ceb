---------------------------- MODULE PlatformProofs ----------------------------
(***************************************************************************)
(* Proofs about what the platform keeps from one incident to the next,      *)
(* for all releases and Skills and any history of requests, crashes and     *)
(* failed saves, about the questions and inspections that lead to a         *)
(* change, about the journal of a session and the registry of the clusters. *)
(* The last section puts them together: a behaviour of the instance that is *)
(* model-checked is one of every part.                                      *)
(***************************************************************************)
EXTENDS MCPlatform, HarnessPackagesProofs,
        FiniteSetTheorems, SequenceTheorems, WellFoundedInduction, TLAPS

-----------------------------------------------------------------------------
(* ReleaseGovernance. Every status that is in memory, on a path or in a     *)
(* request that waits has a job behind it.                                  *)

(* Requests and jobs of the release commands.                               *)
Ops == {"start", "promote", "abort"}
ReleaseRequests == [op : Ops, id : Releases, release : Release, at : {"submit", "record"}]
ReleaseJobs == [id : Releases, command : Ops, plan : Ops \cup {"none"},
                at : {"gate", "approval", "write", "verify", "done"},
                class : {"application_release", "emergency_recovery"},
                progressive : BOOLEAN, verified : SUBSET ReleasePhases]

(* The statuses of a store have jobs behind them.                           *)
AllBacked(jobs, d) == \A r \in Releases : Backed(jobs, r, d.releases[r].status)

(* Whichever path a restart reads, what it finds there has jobs behind it.  *)
FilesAreBacked ==
    \A n \in DOMAIN files : files[n] # NoFile => AllBacked(releaseJobs, files[n])

(* A promotion is asked for when a canary has been verified, and recorded   *)
(* like every command when its job has been submitted.                      *)
RequestBacked(jobs, q) ==
    /\ q.op = "promote" => Backed(jobs, q.id, "canary_validated")
    /\ q.at = "record" => \E j \in DOMAIN jobs : jobs[j].id = q.id /\ jobs[j].command = q.op
RequestsAreBacked == \A q \in requests : RequestBacked(releaseJobs, q)

(* What is asked to be approved, and then written, is a plan.               *)
WritesHaveAPlan ==
    \A j \in DOMAIN releaseJobs :
        releaseJobs[j].at \in {"approval", "write"} => releaseJobs[j].plan # "none"

(* The inductive invariant of the releases.                                 *)
ReleaseInv ==
    /\ ReleaseTypeOK /\ WritesHaveAPlan
    /\ StatusesAreBacked /\ FilesAreBacked /\ RequestsAreBacked
    /\ PromotionFollowsValidation

(* The jobs a step leaves: none is taken away, nor its release, its command *)
(* or what it has verified.                                                 *)
Grown(jobs, more) ==
    /\ DOMAIN jobs \subseteq DOMAIN more
    /\ \A j \in DOMAIN jobs : /\ more[j].id = jobs[j].id
                              /\ more[j].command = jobs[j].command
                              /\ jobs[j].verified \subseteq more[j].verified

-----------------------------------------------------------------------------
(* What the steps are made of.                                              *)

(* The error budget is used up or it is not.                                *)
LEMMA FreezeIsBoolean == FreezeChanges \in BOOLEAN
<1>1. CASE data.objective.total > 0
  <2>1. FreezeChanges = (data.objective.failed * 1000
                            >= data.objective.total * (1000 - TargetPermille))
    BY <1>1 DEF FreezeChanges, Exhausted
  <2> QED
    BY <2>1
<1>2. CASE ~(data.objective.total > 0)
  <2>1. FreezeChanges = (data.objective.downtime * 1000
                            >= WindowMinutes * (1000 - TargetPermille))
    BY <1>2 DEF FreezeChanges, Exhausted
  <2> QED
    BY <2>1
<1> QED
  BY <1>1, <1>2

(* A status stays backed when jobs are added and move on.                   *)
LEMMA BackedStays ==
    ASSUME NEW jobs, NEW more, Grown(jobs, more), NEW r, NEW status, Backed(jobs, r, status)
    PROVE  Backed(more, r, status)
<1> DEFINE Some(js, commands, phases) ==
        \E j \in DOMAIN js :
            /\ js[j].id = r
            /\ js[j].command \in commands \/ js[j].verified \cap phases # {}
<1>1. ASSUME NEW commands, NEW phases, Some(jobs, commands, phases)
      PROVE  Some(more, commands, phases)
  BY <1>1 DEF Grown
<1> QED
  BY <1>1 DEF Backed

LEMMA AllBackedStays ==
    ASSUME NEW jobs, NEW more, Grown(jobs, more), NEW d, AllBacked(jobs, d)
    PROVE  AllBacked(more, d)
BY BackedStays DEF AllBacked

(* A request has behind it what it had when it was read.                    *)
LEMMA RequestStays ==
    ASSUME NEW jobs, NEW more, Grown(jobs, more), NEW q, RequestBacked(jobs, q)
    PROVE  RequestBacked(more, q)
<1>1. q.op = "promote" => Backed(more, q.id, "canary_validated")
  BY BackedStays DEF RequestBacked
<1>2. q.at = "record" => \E j \in DOMAIN more : more[j].id = q.id /\ more[j].command = q.op
  BY DEF RequestBacked, Grown
<1> QED
  BY <1>1, <1>2 DEF RequestBacked

LEMMA SameGrown == Grown(releaseJobs, releaseJobs)
BY DEF Grown

(* A store that was never written is a store, and records nothing.          *)
LEMMA NoDataTyped ==
    NoData \in ReleaseData /\ \A jobs : AllBacked(jobs, NoData)
<1>1. NoRelease \in Release
  BY DEF NoRelease, Release, Channels, Verdicts
<1>2. \A r \in Releases : NoData.releases[r].status = "none"
  BY DEF NoData, NoRelease
<1>3. \A jobs : AllBacked(jobs, NoData)
  BY <1>2 DEF AllBacked, Backed
<1> QED
  BY <1>1, <1>3 DEF NoData, ReleaseData

(* A change of one release leaves the store well formed, and backed if its  *)
(* new status is.                                                           *)
LEMMA StoredTyped ==
    ASSUME NEW d \in ReleaseData, NEW r \in Releases, NEW release \in Release,
           NEW jobs, AllBacked(jobs, d), Backed(jobs, r, release.status)
    PROVE  /\ [d EXCEPT !.releases[r] = release] \in ReleaseData
           /\ AllBacked(jobs, [d EXCEPT !.releases[r] = release])
<1> DEFINE new == [d EXCEPT !.releases[r] = release]
<1>1. new \in ReleaseData
  BY DEF ReleaseData
<1>2. ASSUME NEW k \in Releases
      PROVE  new.releases[k] = IF k = r THEN release ELSE d.releases[k]
  BY DEF ReleaseData
<1>3. AllBacked(jobs, new)
  BY <1>2 DEF AllBacked
<1> QED
  BY <1>1, <1>3

(* A release with another status is a release.                              *)
LEMMA StatusTyped ==
    ASSUME NEW release \in Release,
           NEW status \in {"none", "blocked", "awaiting_approval", "approved", "executing",
                           "canary_validated", "promoting", "aborting", "completed", "aborted"}
    PROVE  /\ [release EXCEPT !.status = status] \in Release
           /\ [release EXCEPT !.status = status].status = status
BY DEF Release

(* What one step makes of the store, the files and the requests.            *)
StoreKept ==
    /\ data' \in ReleaseData /\ AllBacked(releaseJobs', data')
    /\ givenIds' \subseteq Releases
    /\ files' \in Seq(ReleaseData \cup {NoFile}) /\ Len(files') = 3
    /\ \A n \in DOMAIN files' : files'[n] # NoFile => AllBacked(releaseJobs', files'[n])

(* A save puts what is in memory on the path it goes to, if there is one.   *)
LEMMA SaveKeepsStore ==
    ASSUME ReleaseInv, Grown(releaseJobs, releaseJobs'), Save,
           data' \in ReleaseData, AllBacked(releaseJobs', data'), givenIds' \subseteq Releases
    PROVE  StoreKept
<1>1. PICK refused \in 0 .. Len(files) :
          IF refused < Len(files) THEN files' = [files EXCEPT ![refused + 1] = data']
          ELSE UNCHANGED files
  BY DEF Save
<1>2. files \in Seq(ReleaseData \cup {NoFile}) /\ Len(files) = 3
  BY DEF ReleaseInv, ReleaseTypeOK
<1>3. \A n \in DOMAIN files : files[n] # NoFile => AllBacked(releaseJobs', files[n])
  BY AllBackedStays DEF ReleaseInv, FilesAreBacked
<1>4. CASE refused < Len(files)
  <2>1. files' = [files EXCEPT ![refused + 1] = data']
    BY <1>1, <1>4
  <2>2. refused + 1 \in 1 .. Len(files) /\ data' \in ReleaseData \cup {NoFile}
    BY <1>2, <1>4
  <2>3. files' \in Seq(ReleaseData \cup {NoFile}) /\ Len(files') = 3
    <3> DEFINE Held == ReleaseData \cup {NoFile}
    <3>1. files \in Seq(Held) /\ refused + 1 \in 1 .. Len(files) /\ data' \in Held
      BY <1>2, <2>2
    <3> HIDE DEF Held
    <3>2. [files EXCEPT ![refused + 1] = data'] \in Seq(Held)
          /\ Len([files EXCEPT ![refused + 1] = data']) = Len(files)
      BY <3>1, ExceptSeq
    <3> QED
      BY <3>2, <2>1, <1>2 DEF Held
  <2>4. \A n \in DOMAIN files' : n \in DOMAIN files /\ files'[n] \in {files[n], data'}
    BY <2>1, <1>2
  <2> QED
    BY <2>3, <2>4, <1>3 DEF StoreKept
<1>5. CASE ~(refused < Len(files))
  BY <1>1, <1>2, <1>3, <1>5 DEF StoreKept
<1> QED
  BY <1>4, <1>5

(* A release is stored as something that has jobs behind it.                *)
LEMMA StoreKeepsStore ==
    ASSUME ReleaseInv, Grown(releaseJobs, releaseJobs'),
           NEW r \in Releases, NEW release \in Release, StoreRelease(r, release),
           Backed(releaseJobs', r, release.status), givenIds' \subseteq Releases
    PROVE  StoreKept
<1>1. data \in ReleaseData /\ AllBacked(releaseJobs', data)
  BY AllBackedStays DEF ReleaseInv, ReleaseTypeOK, StatusesAreBacked, AllBacked
<1>2. data' \in ReleaseData /\ AllBacked(releaseJobs', data')
  BY <1>1, StoredTyped DEF StoreRelease
<1> QED
  BY <1>2, SaveKeepsStore DEF StoreRelease

LEMMA SetStatusKeepsStore ==
    ASSUME ReleaseInv, Grown(releaseJobs, releaseJobs'), NEW r \in Releases,
           NEW status \in {"none", "blocked", "awaiting_approval", "approved", "executing",
                           "canary_validated", "promoting", "aborting", "completed", "aborted"},
           SetStatus(r, status), Backed(releaseJobs', r, status)
    PROVE  StoreKept
<1> DEFINE release == [data.releases[r] EXCEPT !.status = status]
<1>1. release \in Release /\ release.status = status
  <2>1. data.releases[r] \in Release
    BY DEF ReleaseInv, ReleaseTypeOK, ReleaseData
  <2> QED
    BY <2>1, StatusTyped
<1>2. StoreRelease(r, release) /\ givenIds' = givenIds
  BY DEF SetStatus
<1>3. givenIds' \subseteq Releases
  BY <1>2 DEF ReleaseInv, ReleaseTypeOK
<1> HIDE DEF release
<1> QED
  BY <1>1, <1>2, <1>3, StoreKeepsStore

(* The store a step leaves alone.                                           *)
LEMMA StoreAlone ==
    ASSUME ReleaseInv, Grown(releaseJobs, releaseJobs'), UNCHANGED store
    PROVE  StoreKept
<1>1. AllBacked(releaseJobs', data)
  BY AllBackedStays DEF ReleaseInv, StatusesAreBacked, AllBacked
<1>2. \A n \in DOMAIN files : files[n] # NoFile => AllBacked(releaseJobs', files[n])
  BY AllBackedStays DEF ReleaseInv, FilesAreBacked
<1> QED
  BY <1>1, <1>2 DEF StoreKept, ReleaseInv, ReleaseTypeOK, store

(* The statuses that need no job.                                           *)
LEMMA UnbackedStatuses ==
    ASSUME NEW jobs, NEW r
    PROVE  \A status \in {"none", "blocked", "awaiting_approval", "approved"} :
               Backed(jobs, r, status)
BY DEF Backed

-----------------------------------------------------------------------------
(* The requests.                                                            *)

(* The store that is loaded first satisfies the invariant.                  *)
LEMMA ReleaseInitInv == ReleaseInit => ReleaseInv
<1> SUFFICES ASSUME ReleaseInit PROVE ReleaseInv
  OBVIOUS
<1> USE DEF ReleaseInit
<1>1. data \in ReleaseData /\ AllBacked(releaseJobs, data)
  BY NoDataTyped
<1>2. files \in Seq(ReleaseData \cup {NoFile}) /\ Len(files) = 3
      /\ \A n \in DOMAIN files : files[n] = NoFile
  OBVIOUS
<1>3. releaseJobs \in Seq(ReleaseJobs) /\ DOMAIN releaseJobs = {}
  OBVIOUS
<1>4. ReleaseTypeOK
  BY <1>1, <1>2, <1>3 DEF ReleaseTypeOK, ReleaseJobs, Ops
<1> QED
  BY <1>1, <1>2, <1>3, <1>4
  DEF ReleaseInv, AllBacked, StatusesAreBacked, FilesAreBacked, RequestsAreBacked,
      WritesHaveAPlan, PromotionFollowsValidation

(* A step that changes only the store keeps the rest.                       *)
LEMMA StoreOnlyKeeps ==
    ASSUME ReleaseInv, UNCHANGED <<requests, releaseJobs, rollout>>, StoreKept
    PROVE  ReleaseInv'
<1>1. ReleaseTypeOK'
  BY DEF ReleaseInv, ReleaseTypeOK, StoreKept
<1>2. StatusesAreBacked' /\ FilesAreBacked'
  BY DEF StoreKept, StatusesAreBacked, FilesAreBacked, AllBacked
<1>3. RequestsAreBacked' /\ WritesHaveAPlan' /\ PromotionFollowsValidation'
  BY DEF ReleaseInv, RequestsAreBacked, WritesHaveAPlan, PromotionFollowsValidation
<1> QED
  BY <1>1, <1>2, <1>3 DEF ReleaseInv

(* An objective, a new release, its approval and an observation leave the   *)
(* commands alone.                                                          *)
LEMMA UpsertKeepsInv ==
    ASSUME ReleaseInv, NEW o \in Objectives, UpsertObjective(o)
    PROVE  ReleaseInv'
<1>1. UNCHANGED <<requests, releaseJobs, rollout, givenIds>>
  BY DEF UpsertObjective, cluster
<1>2. data' \in ReleaseData /\ data'.releases = data.releases
  BY DEF UpsertObjective, ReleaseInv, ReleaseTypeOK, ReleaseData
<1>3. AllBacked(releaseJobs', data')
  BY <1>1, <1>2 DEF AllBacked, ReleaseInv, StatusesAreBacked
<1>4. givenIds' \subseteq Releases /\ Grown(releaseJobs, releaseJobs')
  BY <1>1, SameGrown DEF ReleaseInv, ReleaseTypeOK
<1> QED
  BY <1>1, <1>2, <1>3, <1>4, SaveKeepsStore, StoreOnlyKeeps DEF UpsertObjective

LEMMA CreateKeepsInv ==
    ASSUME ReleaseInv, NEW r \in Releases, NEW channel \in Channels,
           NEW progressive \in BOOLEAN, NEW evaluated \in Verdicts, NEW risk \in BOOLEAN,
           CreateRelease(r, channel, progressive, evaluated, risk)
    PROVE  ReleaseInv'
<1> DEFINE verdict == VerdictFor(channel, evaluated, risk)
           release == [status |-> IF Blocks(verdict) THEN "blocked" ELSE "awaiting_approval",
                       channel |-> channel, progressive |-> progressive,
                       frozen |-> FreezeChanges, verdict |-> verdict]
<1>1. verdict \in Verdicts \cup {"blocked", "emergency_review"}
  BY DEF VerdictFor, Channels
<1>2. release \in Release /\ release.status \in {"blocked", "awaiting_approval"}
  BY <1>1, FreezeIsBoolean DEF Release
<1>3. StoreRelease(r, release)
  BY DEF CreateRelease
<1>4. UNCHANGED <<requests, releaseJobs, rollout>> /\ givenIds' \subseteq Releases
  BY DEF CreateRelease, cluster, ReleaseInv, ReleaseTypeOK
<1>5. Grown(releaseJobs, releaseJobs') /\ Backed(releaseJobs', r, release.status)
  BY <1>2, <1>4, SameGrown, UnbackedStatuses
<1> HIDE DEF release
<1> QED
  BY <1>2, <1>3, <1>4, <1>5, StoreKeepsStore, StoreOnlyKeeps

LEMMA ApproveKeepsInv ==
    ASSUME ReleaseInv, NEW r \in Releases, ApproveRelease(r)
    PROVE  ReleaseInv'
<1>1. UNCHANGED <<requests, releaseJobs, rollout>> /\ SetStatus(r, "approved")
  BY DEF ApproveRelease, cluster
<1>2. Grown(releaseJobs, releaseJobs') /\ Backed(releaseJobs', r, "approved")
  BY <1>1, SameGrown, UnbackedStatuses
<1> QED
  BY <1>1, <1>2, SetStatusKeepsStore, StoreOnlyKeeps

(* An observation is saved with what is in memory.                          *)
LEMMA SavedKeepsInv ==
    ASSUME ReleaseInv, UNCHANGED <<data, givenIds, requests, releaseJobs, rollout>>, Save
    PROVE  ReleaseInv'
<1>1. data' \in ReleaseData /\ AllBacked(releaseJobs', data') /\ givenIds' \subseteq Releases
  BY DEF ReleaseInv, ReleaseTypeOK, StatusesAreBacked, AllBacked
<1>2. Grown(releaseJobs, releaseJobs')
  BY SameGrown
<1> QED
  BY <1>1, <1>2, SaveKeepsStore, StoreOnlyKeeps

LEMMA CallbackKeepsInv ==
    ASSUME ReleaseInv, NEW r \in Releases, AnalysisCallback(r)
    PROVE  ReleaseInv'
BY SavedKeepsInv DEF AnalysisCallback, cluster

(* A request that is let in waits for its job.                              *)
LEMMA RequestKeepsInv ==
    ASSUME ReleaseInv, NEW op \in Ops, NEW r \in Releases,
           requests' = requests \cup {Asks(op, r)},
           op = "promote" => data.releases[r].status = "canary_validated",
           UNCHANGED <<store, cluster>>
    PROVE  ReleaseInv'
<1>1. /\ Asks(op, r) \in ReleaseRequests
      /\ Asks(op, r).op = op /\ Asks(op, r).id = r /\ Asks(op, r).at = "submit"
  BY DEF Asks, ReleaseRequests, ReleaseInv, ReleaseTypeOK, ReleaseData
<1>2. ReleaseTypeOK'
  BY <1>1 DEF ReleaseInv, ReleaseTypeOK, ReleaseRequests, Ops, store, cluster
<1>3. RequestBacked(releaseJobs, Asks(op, r))
  <2>1. op = "promote" => Backed(releaseJobs, r, "canary_validated")
    BY DEF ReleaseInv, StatusesAreBacked
  <2> QED
    BY <1>1, <2>1 DEF RequestBacked
<1>4. RequestsAreBacked'
  BY <1>3 DEF ReleaseInv, RequestsAreBacked, cluster
<1>5. StatusesAreBacked' /\ FilesAreBacked' /\ WritesHaveAPlan' /\ PromotionFollowsValidation'
  BY DEF ReleaseInv, StatusesAreBacked, FilesAreBacked, WritesHaveAPlan,
         PromotionFollowsValidation, store, cluster
<1> QED
  BY <1>2, <1>4, <1>5 DEF ReleaseInv

LEMMA AskKeepsInv ==
    ASSUME ReleaseInv, NEW r \in Releases, ExecuteReads(r) \/ AbortReads(r)
    PROVE  ReleaseInv'
<1>1. PICK op \in {"start", "abort"} :
          requests' = requests \cup {Asks(op, r)} /\ UNCHANGED <<store, cluster>>
  BY DEF ExecuteReads, AbortReads
<1> QED
  BY <1>1, RequestKeepsInv DEF Ops

(* A promotion is let in for a release that is recorded as validated; an    *)
(* unsafe analysis is saved and nothing else.                               *)
LEMMA PromoteKeepsInv ==
    ASSUME ReleaseInv, NEW r \in Releases, PromoteReads(r)
    PROVE  ReleaseInv'
<1>1. data.releases[r].status = "canary_validated" /\ UNCHANGED cluster
  BY DEF PromoteReads
<1>2. \/ requests' = requests \cup {Asks("promote", r)} /\ UNCHANGED store
      \/ UNCHANGED <<requests, data, givenIds>> /\ Save
  BY DEF PromoteReads
<1> QED
  BY <1>1, <1>2, RequestKeepsInv, SavedKeepsInv DEF Ops, cluster

(* The job has the release and the command of its request.                  *)
LEMMA SubmitKeepsInv ==
    ASSUME ReleaseInv, NEW q \in requests, SubmitReleaseJob(q)
    PROVE  ReleaseInv'
<1> DEFINE new == NewReleaseJob(q)
           newest == Len(releaseJobs) + 1
<1>1. q \in ReleaseRequests /\ requests \subseteq ReleaseRequests
  BY DEF ReleaseInv, ReleaseTypeOK, ReleaseRequests, Ops
<1>2. /\ new \in ReleaseJobs
      /\ new.id = q.id /\ new.command = q.op /\ new.at = "gate"
  BY <1>1 DEF NewReleaseJob, ReleaseJobs, ReleaseRequests, Release, Ops
<1>3. releaseJobs \in Seq(ReleaseJobs)
  BY DEF ReleaseInv, ReleaseTypeOK, ReleaseJobs, Ops
<1> HIDE DEF new
<1>4. releaseJobs' = Append(releaseJobs, new) /\ UNCHANGED <<store, rollout>>
  BY DEF SubmitReleaseJob, new
<1>5. requests' = (requests \ {q}) \cup {[q EXCEPT !.at = "record"]}
  BY DEF SubmitReleaseJob
<1>6. /\ releaseJobs' \in Seq(ReleaseJobs) /\ newest \in DOMAIN releaseJobs'
      /\ releaseJobs'[newest] = new
      /\ DOMAIN releaseJobs \subseteq DOMAIN releaseJobs'
      /\ \A j \in DOMAIN releaseJobs : j < newest /\ releaseJobs'[j] = releaseJobs[j]
      /\ \A j \in DOMAIN releaseJobs' : j # newest => j \in DOMAIN releaseJobs
  BY <1>2, <1>3, <1>4
<1>7. Grown(releaseJobs, releaseJobs')
  BY <1>6 DEF Grown
<1>8. /\ [q EXCEPT !.at = "record"] \in ReleaseRequests
      /\ [q EXCEPT !.at = "record"].id = q.id /\ [q EXCEPT !.at = "record"].op = q.op
  BY <1>1 DEF ReleaseRequests
<1>9. StoreKept
  BY <1>4, <1>7, StoreAlone
<1>10. ReleaseTypeOK'
  <2>1. requests' \subseteq ReleaseRequests
    BY <1>1, <1>5, <1>8
  <2> QED
    BY <2>1, <1>4, <1>6, <1>9
    DEF StoreKept, ReleaseInv, ReleaseTypeOK, ReleaseRequests, ReleaseJobs, Ops
<1>11. RequestsAreBacked'
  <2>1. RequestBacked(releaseJobs, q)
    BY DEF ReleaseInv, RequestsAreBacked
  <2>2. RequestBacked(releaseJobs', [q EXCEPT !.at = "record"])
    BY <2>1, <1>2, <1>6, <1>7, <1>8, RequestStays DEF RequestBacked
  <2>3. \A p \in requests : RequestBacked(releaseJobs', p)
    BY <1>7, RequestStays DEF ReleaseInv, RequestsAreBacked
  <2> QED
    BY <2>2, <2>3, <1>5 DEF RequestsAreBacked
<1>12. WritesHaveAPlan'
  BY <1>2, <1>6 DEF ReleaseInv, WritesHaveAPlan
<1>13. PromotionFollowsValidation'
  <2>1. ASSUME NEW j \in DOMAIN releaseJobs', releaseJobs'[j].command = "promote"
        PROVE  \E k \in DOMAIN releaseJobs :
                   /\ k < j /\ releaseJobs[k].id = releaseJobs'[j].id
                   /\ "canary_validated" \in releaseJobs[k].verified
    <3>1. CASE j = newest
      <4>1. Backed(releaseJobs, q.id, "canary_validated")
        BY <2>1, <3>1, <1>2, <1>6 DEF ReleaseInv, RequestsAreBacked, RequestBacked
      <4> QED
        BY <4>1, <3>1, <1>2, <1>6 DEF Backed
    <3>2. CASE j # newest
      BY <2>1, <3>2, <1>6 DEF ReleaseInv, PromotionFollowsValidation
    <3> QED
      BY <3>1, <3>2
  <2> QED
    BY <2>1, <1>6 DEF PromotionFollowsValidation
<1> QED
  BY <1>9, <1>10, <1>11, <1>12, <1>13
  DEF ReleaseInv, StoreKept, StatusesAreBacked, FilesAreBacked, AllBacked

(* The record of a request has its job behind it, and ends it.              *)
LEMMA RecordKeepsInv ==
    ASSUME ReleaseInv, NEW q \in requests, RecordSubmitted(q)
    PROVE  ReleaseInv'
<1>1. q \in ReleaseRequests
  BY DEF ReleaseInv, ReleaseTypeOK, ReleaseRequests, Ops
<1> DEFINE status == CASE q.op = "start" -> "executing"
                       [] q.op = "promote" -> "promoting"
                       [] q.op = "abort" -> "aborting"
<1>2. status \in {"executing", "promoting", "aborting"} /\ q.id \in Releases
  BY <1>1 DEF ReleaseRequests, Ops
<1>3. SetStatus(q.id, status) /\ requests' = requests \ {q} /\ UNCHANGED <<releaseJobs, rollout>>
  BY DEF RecordSubmitted, cluster
<1>4. Backed(releaseJobs', q.id, status)
  <2>1. \E j \in DOMAIN releaseJobs : releaseJobs[j].id = q.id /\ releaseJobs[j].command = q.op
    BY DEF ReleaseInv, RequestsAreBacked, RequestBacked, RecordSubmitted
  <2>2. CASE q.op = "start"
    BY <2>1, <2>2, <1>3 DEF Backed
  <2>3. CASE q.op = "promote"
    BY <2>1, <2>3, <1>3 DEF Backed
  <2>4. CASE q.op = "abort"
    BY <2>1, <2>4, <1>3 DEF Backed
  <2> QED
    BY <2>2, <2>3, <2>4, <1>1 DEF ReleaseRequests, Ops
<1> HIDE DEF status
<1>5. StoreKept
  <2>1. Grown(releaseJobs, releaseJobs')
    BY <1>3, SameGrown
  <2> QED
    BY <2>1, <1>2, <1>3, <1>4, SetStatusKeepsStore
<1>6. ReleaseTypeOK'
  BY <1>3, <1>5 DEF ReleaseInv, ReleaseTypeOK, StoreKept
<1>7. RequestsAreBacked' /\ WritesHaveAPlan' /\ PromotionFollowsValidation'
  BY <1>3 DEF ReleaseInv, RequestsAreBacked, WritesHaveAPlan, PromotionFollowsValidation
<1> QED
  BY <1>5, <1>6, <1>7 DEF ReleaseInv, StoreKept, StatusesAreBacked, FilesAreBacked, AllBacked

-----------------------------------------------------------------------------
(* The jobs.                                                                *)

(* A job with another place and plan is a job.                              *)
LEMMA JobTyped ==
    ASSUME ReleaseTypeOK, NEW j \in DOMAIN releaseJobs
    PROVE  releaseJobs[j] \in ReleaseJobs
<1>1. releaseJobs \in Seq(ReleaseJobs)
  BY DEF ReleaseTypeOK, ReleaseJobs, Ops
<1> QED
  BY <1>1

(* What one job becomes: its release and its command stay, and what it has  *)
(* verified.                                                                *)
LEMMA JobMoves ==
    ASSUME ReleaseTypeOK, NEW j \in DOMAIN releaseJobs, NEW new \in ReleaseJobs,
           releaseJobs' = [releaseJobs EXCEPT ![j] = new],
           new.id = releaseJobs[j].id, new.command = releaseJobs[j].command,
           releaseJobs[j].verified \subseteq new.verified
    PROVE  /\ releaseJobs' \in Seq(ReleaseJobs)
           /\ DOMAIN releaseJobs' = DOMAIN releaseJobs
           /\ \A k \in DOMAIN releaseJobs :
                 releaseJobs'[k] = IF k = j THEN new ELSE releaseJobs[k]
           /\ Grown(releaseJobs, releaseJobs')
<1>1. releaseJobs \in Seq(ReleaseJobs)
  BY DEF ReleaseTypeOK, ReleaseJobs, Ops
<1>2. /\ releaseJobs' \in Seq(ReleaseJobs)
      /\ DOMAIN releaseJobs' = DOMAIN releaseJobs
      /\ \A k \in DOMAIN releaseJobs :
            releaseJobs'[k] = IF k = j THEN new ELSE releaseJobs[k]
  BY <1>1
<1>3. Grown(releaseJobs, releaseJobs')
  BY <1>2 DEF Grown
<1> QED
  BY <1>2, <1>3

(* A job moves, with whatever it writes to the cluster and to the store.    *)
LEMMA JobKeepsInv ==
    ASSUME ReleaseInv, NEW j \in DOMAIN releaseJobs, NEW new \in ReleaseJobs,
           releaseJobs' = [releaseJobs EXCEPT ![j] = new],
           new.id = releaseJobs[j].id, new.command = releaseJobs[j].command,
           releaseJobs[j].verified \subseteq new.verified,
           new.at \in {"approval", "write"} => new.plan # "none",
           UNCHANGED requests,
           rollout' \in [Releases -> {"stable", "canary", "promoted"}],
           StoreKept
    PROVE  ReleaseInv'
<1>1. /\ releaseJobs' \in Seq(ReleaseJobs)
      /\ DOMAIN releaseJobs' = DOMAIN releaseJobs
      /\ \A k \in DOMAIN releaseJobs :
            releaseJobs'[k] = IF k = j THEN new ELSE releaseJobs[k]
      /\ Grown(releaseJobs, releaseJobs')
  BY JobMoves DEF ReleaseInv
<1>2. ReleaseTypeOK'
  BY <1>1 DEF ReleaseInv, ReleaseTypeOK, StoreKept, ReleaseJobs, Ops
<1>3. RequestsAreBacked'
  BY <1>1, RequestStays DEF ReleaseInv, RequestsAreBacked
<1>4. WritesHaveAPlan'
  BY <1>1 DEF ReleaseInv, WritesHaveAPlan
<1>5. PromotionFollowsValidation'
  BY <1>1 DEF ReleaseInv, PromotionFollowsValidation, Grown
<1> QED
  BY <1>2, <1>3, <1>4, <1>5
  DEF ReleaseInv, StoreKept, StatusesAreBacked, FilesAreBacked, AllBacked

(* A move to another place with another plan.                               *)
LEMMA MovedKeepsInv ==
    ASSUME ReleaseInv, NEW j \in DOMAIN releaseJobs, NEW plan \in Ops \cup {"none"},
           NEW at \in {"gate", "approval", "write", "verify"},
           JobTo(j, plan, at), at \in {"approval", "write"} => plan # "none",
           UNCHANGED <<requests, store>>,
           rollout' \in [Releases -> {"stable", "canary", "promoted"}]
    PROVE  ReleaseInv'
<1> DEFINE new == [releaseJobs[j] EXCEPT !.plan = plan, !.at = at]
<1>1. releaseJobs[j] \in ReleaseJobs /\ releaseJobs \in Seq(ReleaseJobs)
  BY JobTyped DEF ReleaseInv, ReleaseTypeOK, ReleaseJobs, Ops
<1>2. /\ new \in ReleaseJobs /\ new.id = releaseJobs[j].id
      /\ new.command = releaseJobs[j].command /\ new.verified = releaseJobs[j].verified
      /\ new.at = at /\ new.plan = plan
  BY <1>1 DEF ReleaseJobs
<1>3. releaseJobs' = [releaseJobs EXCEPT ![j] = new]
  BY <1>1 DEF JobTo
<1> HIDE DEF new
<1>4. Grown(releaseJobs, releaseJobs')
  BY <1>2, <1>3, JobMoves DEF ReleaseInv
<1>5. StoreKept
  BY <1>4, StoreAlone
<1> QED
  BY <1>2, <1>3, <1>5, JobKeepsInv

(* The gate, the write and the verification move one job on.                *)
LEMMA GateKeepsInv ==
    ASSUME ReleaseInv, NEW j \in DOMAIN releaseJobs, JobGate(j) \/ JobApproved(j)
    PROVE  ReleaseInv'
<1>1. releaseJobs[j].plan \in Ops \cup {"none"}
  BY JobTyped DEF ReleaseInv, ReleaseJobs
<1>2. PICK plan \in Ops \cup {"none"}, at \in {"approval", "write", "verify"} :
          JobTo(j, plan, at) /\ (at \in {"approval", "write"} => plan # "none")
  BY <1>1 DEF JobGate, JobApproved, ReadsOn, ReleaseInv, WritesHaveAPlan
<1>3. UNCHANGED <<requests, rollout>> /\ UNCHANGED store
  BY DEF JobGate, JobApproved
<1>4. rollout' \in [Releases -> {"stable", "canary", "promoted"}]
  BY <1>3 DEF ReleaseInv, ReleaseTypeOK
<1> QED
  BY <1>2, <1>3, <1>4, MovedKeepsInv

LEMMA WriteKeepsInv ==
    ASSUME ReleaseInv, NEW j \in DOMAIN releaseJobs, JobWrites(j)
    PROVE  ReleaseInv'
<1>1. releaseJobs[j] \in ReleaseJobs
  BY JobTyped DEF ReleaseInv
<1>2. PICK plan \in Ops \cup {"none"} : JobTo(j, plan, "verify")
  BY <1>1 DEF JobWrites, ReadsOn, ReleaseJobs
<1>3. UNCHANGED requests /\ UNCHANGED store
  BY DEF JobWrites
<1>4. rollout' \in [Releases -> {"stable", "canary", "promoted"}]
  <2>1. rollout \in [Releases -> {"stable", "canary", "promoted"}]
    BY DEF ReleaseInv, ReleaseTypeOK
  <2> DEFINE job == releaseJobs[j]
             next == CASE job.plan = "start" /\ job.progressive -> "canary"
                       [] job.plan = "start" /\ ~job.progressive -> "promoted"
                       [] job.plan = "promote" -> "promoted"
                       [] job.plan = "abort" ->
                              IF rollout[job.id] = "canary" THEN "stable"
                              ELSE rollout[job.id]
  <2>2. CASE UNCHANGED rollout
    BY <2>1, <2>2
  <2>3. CASE rollout' = [rollout EXCEPT ![job.id] = next] /\ JobTo(j, job.plan, "verify")
    <3>1. job.id \in Releases /\ job.plan \in Ops
      BY <1>1 DEF ReleaseInv, WritesHaveAPlan, JobWrites, ReleaseJobs
    <3>2. next \in {"stable", "canary", "promoted"}
      BY <2>1, <3>1, <1>1 DEF ReleaseJobs, Ops
    <3> HIDE DEF next
    <3> QED
      BY <2>1, <2>3, <3>1, <3>2
  <2> QED
    BY <2>2, <2>3 DEF JobWrites
<1> QED
  BY <1>2, <1>3, <1>4, MovedKeepsInv

(* The phases a job recovers with stand behind the status they are recorded *)
(* as.                                                                      *)
LEMMA SyncedIsBacked ==
    ASSUME NEW jobs, NEW r, NEW phase \in ReleasePhases, NEW j \in DOMAIN jobs,
           jobs[j].id = r, phase \in jobs[j].verified
    PROVE  /\ SyncedStatus(phase) \in {"canary_validated", "completed", "aborted"}
           /\ Backed(jobs, r, SyncedStatus(phase))
<1>1. CASE phase = "canary_validated"
  BY <1>1 DEF SyncedStatus, Backed
<1>2. CASE phase \in {"fully_promoted", ""}
  BY <1>2 DEF SyncedStatus, Backed
<1>3. CASE phase = "rolled_back"
  BY <1>3 DEF SyncedStatus, Backed
<1> QED
  BY <1>1, <1>2, <1>3 DEF ReleasePhases

(* A job that has recovered says so of its release, if there is one.        *)
LEMMA RecoveredKeepsInv ==
    ASSUME ReleaseInv, NEW j \in DOMAIN releaseJobs, NEW phase \in ReleasePhases,
           JobRecovers(j, phase), UNCHANGED requests,
           rollout' \in [Releases -> {"stable", "canary", "promoted"}]
    PROVE  ReleaseInv'
<1> DEFINE r == releaseJobs[j].id
           new == [releaseJobs[j] EXCEPT !.at = "done", !.verified = @ \cup {phase}]
<1>1. releaseJobs[j] \in ReleaseJobs /\ releaseJobs \in Seq(ReleaseJobs)
  BY JobTyped DEF ReleaseInv, ReleaseTypeOK, ReleaseJobs, Ops
<1>2. /\ new \in ReleaseJobs /\ new.id = releaseJobs[j].id
      /\ new.command = releaseJobs[j].command
      /\ new.verified = releaseJobs[j].verified \cup {phase}
      /\ new.at = "done"
  BY <1>1 DEF ReleaseJobs
<1>3. releaseJobs' = [releaseJobs EXCEPT ![j] = new]
  BY <1>1 DEF JobRecovers
<1> HIDE DEF new
<1>4. Grown(releaseJobs, releaseJobs') /\ j \in DOMAIN releaseJobs' /\ releaseJobs'[j] = new
  BY <1>1, <1>2, <1>3, JobMoves DEF ReleaseInv
<1>5. StoreKept
  <2>1. CASE KnownRelease(r)
    <3>1. SetStatus(r, SyncedStatus(phase)) /\ r \in Releases
      BY <2>1, <1>1 DEF JobRecovers, ReleaseJobs
    <3>2. /\ SyncedStatus(phase) \in {"canary_validated", "completed", "aborted"}
          /\ Backed(releaseJobs', r, SyncedStatus(phase))
      BY <1>2, <1>4, SyncedIsBacked
    <3> QED
      BY <3>1, <3>2, <1>4, SetStatusKeepsStore
  <2>2. CASE ~KnownRelease(r)
    BY <2>2, <1>4, StoreAlone DEF JobRecovers
  <2> QED
    BY <2>1, <2>2
<1> QED
  BY <1>2, <1>3, <1>5, JobKeepsInv

LEMMA VerifyKeepsInv ==
    ASSUME ReleaseInv, NEW j \in DOMAIN releaseJobs, JobVerifies(j)
    PROVE  ReleaseInv'
<1> DEFINE job == releaseJobs[j]
<1>1. UNCHANGED requests
  BY DEF JobVerifies
<1>2. rollout' \in [Releases -> {"stable", "canary", "promoted"}]
  <2>1. rollout \in [Releases -> {"stable", "canary", "promoted"}]
    BY DEF ReleaseInv, ReleaseTypeOK
  <2>2. UNCHANGED rollout \/ rollout' = [rollout EXCEPT ![job.id] = "stable"]
    BY DEF JobVerifies
  <2> QED
    BY <2>1, <2>2
<1>3. \/ \E phase \in ReleasePhases : JobRecovers(j, phase)
      \/ JobTo(j, "abort", "gate") /\ UNCHANGED store
      \/ JobTo(j, "none", "verify") /\ UNCHANGED store
  BY DEF JobVerifies, ReadsOn, ReleasePhases
<1>4. CASE \E phase \in ReleasePhases : JobRecovers(j, phase)
  BY <1>1, <1>2, <1>4, RecoveredKeepsInv
<1>5. CASE JobTo(j, "abort", "gate") /\ UNCHANGED store
  BY <1>1, <1>2, <1>5, MovedKeepsInv DEF Ops
<1>6. CASE JobTo(j, "none", "verify") /\ UNCHANGED store
  BY <1>1, <1>2, <1>6, MovedKeepsInv
<1> QED
  BY <1>3, <1>4, <1>5, <1>6

-----------------------------------------------------------------------------
(* A restart.                                                               *)

(* A restart reads a store that some path holds, or starts with none.       *)
LEMMA RestartReads ==
    ASSUME ReleaseTypeOK, RestartReleases
    PROVE  \/ data' = NoData
           \/ \E n \in DOMAIN files : files[n] # NoFile /\ data' = files[n]
<1>1. PICK unreadable \in SUBSET DOMAIN files :
          LET readable == {n \in DOMAIN files \ unreadable : files[n] # NoFile}
          IN data' = IF readable = {} THEN NoData
                     ELSE files[CHOOSE n \in readable : \A k \in readable : n <= k]
  BY DEF RestartReleases
<1> DEFINE readable == {n \in DOMAIN files \ unreadable : files[n] # NoFile}
           first == CHOOSE n \in readable : \A k \in readable : n <= k
<1>2. data' = IF readable = {} THEN NoData ELSE files[first]
  BY <1>1
<1>3. CASE readable # {}
  <2>1. readable \subseteq 1 .. 3
    BY DEF ReleaseTypeOK
  <2>2. \E n \in readable : \A k \in readable : n <= k
    <3>1. CASE 1 \in readable
      BY <3>1, <2>1
    <3>2. CASE 1 \notin readable /\ 2 \in readable
      BY <3>2, <2>1
    <3>3. CASE readable \subseteq {3}
      BY <3>3, <1>3
    <3> QED
      BY <3>1, <3>2, <3>3, <2>1
  <2>3. first \in readable
    BY <2>2
  <2> HIDE DEF first
  <2> QED
    BY <2>3, <1>2, <1>3
<1> QED
  BY <1>2, <1>3

(* What a restart finds has jobs behind it, and the jobs come back.         *)
LEMMA RestartKeepsInv ==
    ASSUME ReleaseInv, RestartReleases
    PROVE  ReleaseInv'
<1>1. UNCHANGED <<givenIds, files, rollout>> /\ requests' = {}
  BY DEF RestartReleases
<1>2. releaseJobs \in Seq(ReleaseJobs)
  BY DEF ReleaseInv, ReleaseTypeOK, ReleaseJobs, Ops
<1>3. releaseJobs' = [j \in DOMAIN releaseJobs |->
                          IF releaseJobs[j].at = "done" THEN releaseJobs[j]
                          ELSE [releaseJobs[j] EXCEPT !.at = "gate"]]
  BY DEF RestartReleases
<1>4. ASSUME NEW j \in DOMAIN releaseJobs
      PROVE  /\ releaseJobs'[j] \in ReleaseJobs
             /\ releaseJobs'[j].id = releaseJobs[j].id
             /\ releaseJobs'[j].command = releaseJobs[j].command
             /\ releaseJobs'[j].verified = releaseJobs[j].verified
             /\ releaseJobs'[j].at \in {"done", "gate"}
  <2>1. releaseJobs[j] \in ReleaseJobs
    BY <1>2
  <2> QED
    BY <2>1, <1>3 DEF ReleaseJobs
<1>5. DOMAIN releaseJobs' = DOMAIN releaseJobs
  BY <1>3
<1>6. releaseJobs' \in Seq(ReleaseJobs)
  BY <1>2, <1>3, <1>4
<1>7. Grown(releaseJobs, releaseJobs')
  BY <1>4, <1>5 DEF Grown
<1>8. data' \in ReleaseData /\ AllBacked(releaseJobs', data')
  <2>1. CASE data' = NoData
    BY <2>1, NoDataTyped
  <2>2. ASSUME NEW n \in DOMAIN files, files[n] # NoFile, data' = files[n]
        PROVE  data' \in ReleaseData /\ AllBacked(releaseJobs', data')
    <3>1. files[n] \in ReleaseData
      <4>1. files \in Seq(ReleaseData \cup {NoFile})
        BY DEF ReleaseInv, ReleaseTypeOK
      <4>2. files[n] \in ReleaseData \cup {NoFile}
        BY <4>1
      <4> QED
        BY <4>2, <2>2
    <3>2. AllBacked(releaseJobs, files[n])
      BY <2>2 DEF ReleaseInv, FilesAreBacked
    <3> QED
      BY <3>1, <3>2, <2>2, <1>7, AllBackedStays
  <2> QED
    BY <2>1, <2>2, RestartReads DEF ReleaseInv
<1>9. ReleaseTypeOK'
  BY <1>1, <1>6, <1>8 DEF ReleaseInv, ReleaseTypeOK, ReleaseJobs, Ops
<1>10. StatusesAreBacked' /\ FilesAreBacked'
  <2>1. \A n \in DOMAIN files : files[n] # NoFile => AllBacked(releaseJobs', files[n])
    BY <1>7, AllBackedStays DEF ReleaseInv, FilesAreBacked
  <2> QED
    BY <2>1, <1>1, <1>8 DEF StatusesAreBacked, FilesAreBacked, AllBacked
<1>11. PromotionFollowsValidation' /\ WritesHaveAPlan'
  BY <1>4, <1>5 DEF ReleaseInv, PromotionFollowsValidation, WritesHaveAPlan
<1> QED
  BY <1>1, <1>9, <1>10, <1>11 DEF ReleaseInv, RequestsAreBacked

-----------------------------------------------------------------------------
(* The theorems about releases.                                             *)

(* Every step keeps the invariant.                                          *)
LEMMA ReleaseStep == ReleaseInv /\ [ReleaseNext]_releaseVars => ReleaseInv'
<1> SUFFICES ASSUME ReleaseInv, [ReleaseNext]_releaseVars PROVE ReleaseInv'
  OBVIOUS
<1>1. CASE \E o \in Objectives : UpsertObjective(o)
  BY <1>1, UpsertKeepsInv
<1>2. ASSUME NEW r \in Releases, NEW channel \in Channels, NEW progressive \in BOOLEAN,
             NEW v \in Verdicts, NEW risk \in BOOLEAN,
             CreateRelease(r, channel, progressive, v, risk)
      PROVE  ReleaseInv'
  BY <1>2, CreateKeepsInv
<1>3. ASSUME NEW r \in Releases,
             \/ ApproveRelease(r) \/ ExecuteReads(r) \/ PromoteReads(r) \/ AbortReads(r)
             \/ AnalysisCallback(r)
      PROVE  ReleaseInv'
  BY <1>3, ApproveKeepsInv, AskKeepsInv, PromoteKeepsInv, CallbackKeepsInv
<1>4. ASSUME NEW q \in requests, SubmitReleaseJob(q) \/ RecordSubmitted(q)
      PROVE  ReleaseInv'
  BY <1>4, SubmitKeepsInv, RecordKeepsInv
<1>5. ASSUME NEW j \in DOMAIN releaseJobs,
             JobGate(j) \/ JobApproved(j) \/ JobWrites(j) \/ JobVerifies(j)
      PROVE  ReleaseInv'
  BY <1>5, GateKeepsInv, WriteKeepsInv, VerifyKeepsInv
<1>6. CASE RestartReleases
  BY <1>6, RestartKeepsInv
<1>7. CASE UNCHANGED releaseVars
  BY <1>7 DEF ReleaseInv, ReleaseTypeOK, StatusesAreBacked, FilesAreBacked,
              RequestsAreBacked, WritesHaveAPlan, PromotionFollowsValidation, releaseVars
<1> QED
  BY <1>1, <1>2, <1>3, <1>4, <1>5, <1>6, <1>7 DEF ReleaseNext

(* The inductive invariant of the releases: memory, every path and the      *)
(* requests between two awaits record nothing that the jobs do not show.    *)
THEOREM ReleaseInvariant == ReleaseSpec => []ReleaseInv
BY ReleaseInitInv, ReleaseStep, PTL DEF ReleaseSpec

(* The releases, requests and jobs are well formed, for every number of     *)
(* requests, jobs, faults and restarts.                                     *)
THEOREM ReleaseTypeCorrect == ReleaseSpec => []ReleaseTypeOK
<1>1. ReleaseInv => ReleaseTypeOK
  BY DEF ReleaseInv
<1> QED
  BY <1>1, ReleaseInvariant, PTL

(* No restart, whichever of the three paths it can read, brings back a      *)
(* status that no job of the release stands behind.                         *)
THEOREM StatusesBacked == ReleaseSpec => []StatusesAreBacked
<1>1. ReleaseInv => StatusesAreBacked
  BY DEF ReleaseInv
<1> QED
  BY <1>1, ReleaseInvariant, PTL

(* No job to promote a release is submitted before another job of this      *)
(* release has verified its canary.                                         *)
THEOREM PromotionsFollow == ReleaseSpec => []PromotionFollowsValidation
<1>1. ReleaseInv => PromotionFollowsValidation
  BY DEF ReleaseInv
<1> QED
  BY <1>1, ReleaseInvariant, PTL

-----------------------------------------------------------------------------
(* SkillRegistry. A Skill that is not behind is stored, in a package of     *)
(* its own while packages can be written, as enabled as it is; a learned    *)
(* one that is enabled and ready, in memory or on disk, was published.      *)

-----------------------------------------------------------------------------
(* The Skills in memory and on disk.                                        *)

(* A Skill, or none of the id.                                              *)
MaybeSkill == Skills \cup {NoSkill}

(* What a start makes of what it finds in the package of an id.             *)
Over(id, r) ==
    IF r # NoSkill THEN Merged(id, r)
    ELSE IF Legacy[id] # NoSkill THEN Merged(id, Legacy[id])
    ELSE IF id \in Shipped THEN Skill("shipped", TRUE, TRUE, TRUE)
    ELSE NoSkill

(* Skill s is stored in package r: a start would bring it back as enabled as *)
(* it is, from a package of its own as long as packages can be written.     *)
Stored(id, s, r, w) ==
    s # NoSkill => /\ Over(id, r) # NoSkill /\ Over(id, r).enabled = s.enabled
                   /\ w => r # NoSkill

(* A Skill that was learned is used after an operator has published it.     *)
ByOperator(id, s, by) == s # NoSkill /\ s.enabled /\ s.ready => id \in by

(* The inductive invariant of the registry.                                 *)
RegistryInv ==
    /\ skills \in [SkillIds -> MaybeSkill] /\ packages \in [SkillIds -> MaybeSkill]
    /\ writable \in BOOLEAN /\ behind \subseteq SkillIds /\ published \subseteq SkillIds
    /\ \A id \in SkillIds \ behind : Stored(id, skills[id], packages[id], writable)
    /\ \A id \in Learnables : /\ ByOperator(id, skills[id], published)
                              /\ ByOperator(id, packages[id], published)

(* What is made of booleans is a Skill.                                     *)
LEMMA SkillTyped ==
    ASSUME NEW policy \in Policies, NEW e \in BOOLEAN, NEW r \in BOOLEAN, NEW b \in BOOLEAN
    PROVE  /\ Skill(policy, e, r, b) \in Skills /\ Skill(policy, e, r, b) # NoSkill
           /\ Skill(policy, e, r, b).enabled = e /\ Skill(policy, e, r, b).ready = r
           /\ Skill(policy, e, r, b).builtin = b
<1>1. Skill(policy, e, r, b) \in Skills
  BY DEF Skill, Skills
<1> QED  BY <1>1, SkillsAssumption DEF Skill

(* Merging keeps whether a Skill is enabled.                                *)
LEMMA MergedKeeps ==
    ASSUME NEW id \in SkillIds, NEW r \in Skills
    PROVE  /\ Merged(id, r) \in Skills /\ Merged(id, r) # NoSkill
           /\ Merged(id, r).enabled = r.enabled
           /\ id \notin Shipped => Merged(id, r) = r
<1>1. r.enabled \in BOOLEAN /\ r # NoSkill
  BY SkillsAssumption DEF Skills
<1>2. CASE id \in Shipped
  <2> DEFINE e == r.enabled
  <2>1. Merged(id, r) = Skill("shipped", e, TRUE, TRUE)
    BY <1>2 DEF Merged
  <2>2. e \in BOOLEAN
    BY <1>1
  <2>3. r.enabled = e
    OBVIOUS
  <2> HIDE DEF e
  <2>4. Merged(id, r) \in Skills /\ Merged(id, r).enabled = e
    BY <2>1, <2>2 DEF Skill, Skills, Policies
  <2> QED  BY <1>2, <2>3, <2>4, SkillsAssumption
<1>3. CASE id \notin Shipped
  BY <1>1, <1>3 DEF Merged
<1> QED  BY <1>2, <1>3

(* A start brings back every Skill that has a package, as enabled as there, *)
(* and of a learned one nothing else.                                       *)
LEMMA OverKeeps ==
    ASSUME NEW id \in SkillIds, NEW r \in MaybeSkill
    PROVE  /\ Over(id, r) \in MaybeSkill
           /\ r # NoSkill => Over(id, r) # NoSkill /\ Over(id, r).enabled = r.enabled
           /\ id \in Learnables => Over(id, r) = r
<1>1. CASE r # NoSkill
  BY <1>1, MergedKeeps, SkillsAssumption DEF Over, MaybeSkill
<1>2. CASE r = NoSkill
  <2>1. Legacy[id] \in MaybeSkill
    BY SkillsAssumption DEF MaybeSkill
  <2>2. Skill("shipped", TRUE, TRUE, TRUE) \in MaybeSkill
    BY SkillTyped DEF Policies, MaybeSkill
  <2>3. Over(id, r) \in MaybeSkill
    BY <1>2, <2>1, <2>2, MergedKeeps DEF Over, MaybeSkill
  <2>4. id \in Learnables => Over(id, r) = NoSkill
    BY <1>2, SkillsAssumption DEF Over
  <2> QED  BY <1>2, <2>3, <2>4
<1> QED  BY <1>1, <1>2

(* What a start loads of an id depends on what it reads of its package.     *)
LEMMA LoadedIsOver ==
    ASSUME NEW seen, NEW id \in SkillIds
    PROVE  Loaded(seen)[id] = Over(id, seen[id])
BY DEF Loaded, Over

(* A start loads of every id what it reads, and nothing of the package where *)
(* it cannot; it leaves the old package, half of the new one, or the new one. *)
LEMMA BootLoads ==
    ASSUME NEW disk \in [SkillIds -> MaybeSkill], Boot(disk)
    PROVE  \E seen \in [SkillIds -> MaybeSkill] :
             /\ skills' = Loaded(seen) /\ writable' \in BOOLEAN /\ behind' \subseteq SkillIds
             /\ packages' = [id \in SkillIds |-> packages'[id]]
             /\ \A id \in SkillIds :
                   /\ seen[id] \in {disk[id], NoSkill}
                   /\ packages'[id] \in {disk[id], Bare(id), Loaded(seen)[id]}
                   /\ id \notin behind' => /\ seen[id] = disk[id]
                                           /\ packages'[id] \in {disk[id], Loaded(seen)[id]}
                   /\ writable' /\ skills'[id] # NoSkill => packages'[id] # NoSkill
<1>1. PICK unread \in SUBSET {id \in SkillIds : disk[id] # NoSkill} : BootReading(disk, unread)
  BY DEF Boot
<1> DEFINE seen == [id \in SkillIds |-> IF id \in unread THEN NoSkill ELSE disk[id]]
           due == Due(disk, seen)
           after(saved) == Rewritten(disk, seen, saved)
<1>2. /\ skills' = Loaded(seen)
      /\ \/ packages' = after(due) /\ writable' = TRUE /\ behind' = unread
         \/ /\ writable' = FALSE
            /\ \E torn \in due : \E saved \in SUBSET (due \ {torn}) :
                  /\ \E left \in {disk[torn], HalfWritten(disk, torn), Loaded(seen)[torn]} :
                        packages' = [after(saved) EXCEPT ![torn] = left]
                  /\ behind' = unread \cup {torn}
  BY <1>1 DEF BootReading
<1>3. seen \in [SkillIds -> MaybeSkill]
  BY DEF MaybeSkill
<1>4. \A id \in SkillIds : /\ seen[id] = IF id \in unread THEN NoSkill ELSE disk[id]
                           /\ id \in due <=> /\ Loaded(seen)[id] # NoSkill
                                             /\ \/ disk[id] = NoSkill
                                                \/ Outdated(id, IF seen[id] # NoSkill
                                                               THEN seen[id] ELSE Legacy[id])
  BY DEF Due
<1>5. due \subseteq SkillIds
  BY DEF Due
<1> HIDE DEF seen, due
<1>6. \A saved : /\ after(saved) = [id \in SkillIds |-> after(saved)[id]]
                   /\ \A id \in SkillIds :
                        after(saved)[id] = IF id \in saved THEN Loaded(seen)[id] ELSE disk[id]
  BY DEF Rewritten
<1> HIDE DEF after
<1>7. CASE packages' = after(due) /\ writable' = TRUE /\ behind' = unread
  <2>1. ASSUME NEW id \in SkillIds
        PROVE  /\ packages'[id] \in {disk[id], Loaded(seen)[id]}
               /\ skills'[id] # NoSkill => packages'[id] # NoSkill
    BY <1>2, <1>4, <1>6, <1>7
  <2> QED  BY <1>2, <1>3, <1>4, <1>6, <1>7, <2>1
<1>8. CASE /\ writable' = FALSE
           /\ \E torn \in due : \E saved \in SUBSET (due \ {torn}) :
                  /\ \E left \in {disk[torn], HalfWritten(disk, torn), Loaded(seen)[torn]} :
                        packages' = [after(saved) EXCEPT ![torn] = left]
                  /\ behind' = unread \cup {torn}
  <2>1. PICK torn \in due : \E saved \in SUBSET (due \ {torn}) :
                  /\ \E left \in {disk[torn], HalfWritten(disk, torn), Loaded(seen)[torn]} :
                        packages' = [after(saved) EXCEPT ![torn] = left]
                  /\ behind' = unread \cup {torn}
    BY <1>8
  <2>2. PICK saved \in SUBSET (due \ {torn}) :
          \E left \in {disk[torn], HalfWritten(disk, torn), Loaded(seen)[torn]} :
             packages' = [after(saved) EXCEPT ![torn] = left] /\ behind' = unread \cup {torn}
    BY <2>1
  <2>3. PICK left \in {disk[torn], HalfWritten(disk, torn), Loaded(seen)[torn]} :
             packages' = [after(saved) EXCEPT ![torn] = left] /\ behind' = unread \cup {torn}
    BY <2>2
  <2>4. left \in {disk[torn], Bare(torn), Loaded(seen)[torn]}
    BY <2>3 DEF HalfWritten
  <2>5. ASSUME NEW id \in SkillIds
        PROVE  packages'[id] = IF id = torn THEN left ELSE after(saved)[id]
    BY <1>6, <2>3, <2>5
  <2>6. packages' = [id \in SkillIds |-> packages'[id]] /\ behind' \subseteq SkillIds
    <3>1. behind' \subseteq SkillIds
      BY <1>5, <2>3
    <3>2. after(saved) = [id \in SkillIds |-> after(saved)[id]]
      BY <1>6
    <3>3. packages' = [id \in SkillIds |-> IF id = torn THEN left ELSE after(saved)[id]]
      BY <2>3, <3>2
    <3> QED  BY <3>1, <3>3
  <2>7. ASSUME NEW id \in SkillIds
        PROVE  /\ packages'[id] \in {disk[id], Bare(id), Loaded(seen)[id]}
               /\ id # torn => packages'[id] \in {disk[id], Loaded(seen)[id]}
    BY <1>6, <2>4, <2>5
  <2> QED  BY <1>2, <1>3, <1>4, <1>8, <2>3, <2>6, <2>7
<1> QED  BY <1>2, <1>7, <1>8

(* What the registry holds of an id is a Skill or nothing.                  *)
LEMMA RegistryTyped ==
    ASSUME RegistryInv, NEW id \in SkillIds
    PROVE  skills[id] \in MaybeSkill /\ packages[id] \in MaybeSkill
BY DEF RegistryInv

(* A step that changes the Skill and the package of one id.                 *)
LEMMA OneKeepsRegistry ==
    ASSUME RegistryInv, NEW id \in SkillIds, NEW s \in MaybeSkill, NEW r \in MaybeSkill,
           skills' = [skills EXCEPT ![id] = s], packages' = [packages EXCEPT ![id] = r],
           writable' \in BOOLEAN, writable' => writable,
           behind' \in {behind \ {id}, behind \cup {id}},
           published \subseteq published', published' \subseteq SkillIds,
           id \notin behind' => Stored(id, s, r, writable'),
           id \in Learnables => ByOperator(id, s, published') /\ ByOperator(id, r, published')
    PROVE  RegistryInv'
<1>1. skills' \in [SkillIds -> MaybeSkill] /\ packages' \in [SkillIds -> MaybeSkill]
  BY DEF RegistryInv
<1>2. /\ skills'[id] = s /\ packages'[id] = r
      /\ \A d \in SkillIds : d # id => skills'[d] = skills[d] /\ packages'[d] = packages[d]
  BY DEF RegistryInv
<1>3. ASSUME NEW d \in SkillIds \ behind'
      PROVE  Stored(d, skills'[d], packages'[d], writable')
  <2>1. CASE d = id
    BY <1>2, <1>3, <2>1
  <2>2. CASE d # id
    <3>1. d \in SkillIds \ behind
      BY <1>3, <2>2
    <3> QED  BY <1>2, <2>2, <3>1 DEF RegistryInv, Stored
  <2> QED  BY <2>1, <2>2
<1>4. ASSUME NEW d \in Learnables
      PROVE  ByOperator(d, skills'[d], published') /\ ByOperator(d, packages'[d], published')
  <2>1. CASE d = id
    BY <1>2, <2>1
  <2>2. CASE d # id
    BY <1>2, <2>2 DEF RegistryInv, ByOperator, SkillIds
  <2> QED  BY <2>1, <2>2
<1>5. behind' \subseteq SkillIds
  BY DEF RegistryInv
<1> QED  BY <1>1, <1>3, <1>4, <1>5 DEF RegistryInv

(* Whatever of a Skill reaches the disk: what is not written is remembered  *)
(* as behind.                                                               *)
LEMMA PersistKeepsRegistry ==
    ASSUME RegistryInv, NEW id \in SkillIds, NEW s \in Skills,
           skills' = [skills EXCEPT ![id] = s], Persist(id),
           published \subseteq published', published' \subseteq SkillIds,
           id \in Learnables => ByOperator(id, s, published')
    PROVE  RegistryInv'
<1>1. s \in MaybeSkill /\ s # NoSkill
  BY SkillsAssumption DEF MaybeSkill
<1>2. skills'[id] = s
  BY DEF RegistryInv
<1>3. packages[id] \in MaybeSkill /\ packages \in [SkillIds -> MaybeSkill]
  BY DEF RegistryInv
<1>4. id \in Learnables => ByOperator(id, packages[id], published')
  BY DEF RegistryInv, ByOperator
<1>5. CASE writable /\ packages' = [packages EXCEPT ![id] = s] /\ behind' = behind \ {id}
           /\ UNCHANGED writable
  <2>1. Stored(id, s, s, writable')
    BY <1>1, OverKeeps DEF Stored
  <2> QED  BY <1>1, <1>5, <2>1, OneKeepsRegistry DEF RegistryInv
<1>6. CASE /\ writable' = FALSE /\ behind' = behind \cup {id}
           /\ \E left \in {packages[id], HalfWritten(packages, id), s} :
                 packages' = [packages EXCEPT ![id] = left]
  <2>1. PICK left \in {packages[id], HalfWritten(packages, id), s} :
               packages' = [packages EXCEPT ![id] = left]
    BY <1>6
  <2>2. /\ Bare(id) \in MaybeSkill /\ ~Bare(id).ready
    BY SkillTyped DEF Bare, MaybeSkill, Policies
  <2>3. left \in MaybeSkill /\ (id \in Learnables => ByOperator(id, left, published'))
    BY <1>1, <1>3, <1>4, <2>2 DEF HalfWritten, ByOperator
  <2> QED  BY <1>1, <1>6, <2>1, <2>3, OneKeepsRegistry
<1>7. CASE ~writable /\ behind' = behind \cup {id} /\ UNCHANGED <<packages, writable>>
  <2>1. packages' = [packages EXCEPT ![id] = packages[id]]
    BY <1>3, <1>7
  <2>2. writable' \in BOOLEAN
    BY <1>7 DEF RegistryInv
  <2> QED  BY <1>1, <1>3, <1>4, <1>7, <2>1, <2>2, OneKeepsRegistry
<1> QED  BY <1>2, <1>5, <1>6, <1>7 DEF Persist

(* A start from any disk on which a learned Skill is published: what was    *)
(* not read and what is half written is behind, and not ready.              *)
LEMMA BootKeepsRegistry ==
    ASSUME NEW disk \in [SkillIds -> MaybeSkill], Boot(disk),
           \A id \in Learnables : ByOperator(id, disk[id], published),
           UNCHANGED published, published \subseteq SkillIds
    PROVE  RegistryInv'
<1>1. PICK seen \in [SkillIds -> MaybeSkill] :
             /\ skills' = Loaded(seen) /\ writable' \in BOOLEAN /\ behind' \subseteq SkillIds
             /\ packages' = [id \in SkillIds |-> packages'[id]]
             /\ \A id \in SkillIds :
                   /\ seen[id] \in {disk[id], NoSkill}
                   /\ packages'[id] \in {disk[id], Bare(id), Loaded(seen)[id]}
                   /\ id \notin behind' => /\ seen[id] = disk[id]
                                           /\ packages'[id] \in {disk[id], Loaded(seen)[id]}
                   /\ writable' /\ skills'[id] # NoSkill => packages'[id] # NoSkill
  BY BootLoads
<1>2. ASSUME NEW id \in SkillIds
      PROVE  /\ skills'[id] = Over(id, seen[id]) /\ skills'[id] \in MaybeSkill
             /\ Loaded(seen)[id] = Over(id, seen[id])
             /\ Bare(id) \in MaybeSkill /\ ~Bare(id).ready
             /\ packages'[id] \in MaybeSkill
  <2>1. Bare(id) \in MaybeSkill /\ ~Bare(id).ready
    BY SkillTyped DEF Bare, MaybeSkill, Policies
  <2>2. Loaded(seen)[id] = Over(id, seen[id]) /\ Over(id, seen[id]) \in MaybeSkill
    BY LoadedIsOver, OverKeeps
  <2> QED  BY <1>1, <2>1, <2>2
<1>3. skills' \in [SkillIds -> MaybeSkill] /\ packages' \in [SkillIds -> MaybeSkill]
  <2>1. skills' = [id \in SkillIds |-> skills'[id]]
    BY <1>1 DEF Loaded
  <2> QED  BY <1>1, <1>2, <2>1
<1>4. ASSUME NEW id \in SkillIds \ behind'
      PROVE  Stored(id, skills'[id], packages'[id], writable')
  <2> DEFINE s == Over(id, disk[id])
  <2>1. s \in MaybeSkill /\ (s # NoSkill => Over(id, s) # NoSkill /\ Over(id, s).enabled = s.enabled)
    BY OverKeeps
  <2>2. /\ skills'[id] = s /\ packages'[id] \in {disk[id], s}
        /\ writable' /\ s # NoSkill => packages'[id] # NoSkill
    BY <1>1, <1>2
  <2>3. Over(id, disk[id]) = s
    OBVIOUS
  <2> HIDE DEF s
  <2> QED  BY <2>1, <2>2, <2>3 DEF Stored
<1>5. ASSUME NEW id \in Learnables
      PROVE  ByOperator(id, skills'[id], published') /\ ByOperator(id, packages'[id], published')
  <2>1. id \in SkillIds /\ seen[id] \in MaybeSkill
    BY DEF SkillIds
  <2>2. Over(id, seen[id]) = seen[id]
    BY <2>1, OverKeeps
  <2>3. /\ skills'[id] \in {disk[id], NoSkill}
        /\ packages'[id] \in {disk[id], NoSkill, Bare(id)} /\ ~Bare(id).ready
    BY <1>1, <1>2, <2>1, <2>2
  <2> QED  BY <2>3 DEF ByOperator
<1> QED  BY <1>1, <1>3, <1>4, <1>5 DEF RegistryInv

-----------------------------------------------------------------------------
(* The operations of the registry.                                          *)

(* What an operator saves is published with it, if it is enabled.           *)
LEMMA UpsertKeepsRegistry ==
    ASSUME RegistryInv, NEW id \in SkillIds, NEW enabled \in BOOLEAN, Upsert(id, enabled)
    PROVE  RegistryInv'
<1> DEFINE s == Skill("operator", enabled, TRUE, FALSE)
<1>1. s \in Skills /\ s.enabled = enabled
  BY SkillTyped DEF Policies
<1>2. /\ skills' = [skills EXCEPT ![id] = s] /\ Persist(id)
      /\ published' = IF enabled THEN published \cup {id} ELSE published
  BY DEF Upsert
<1>3. published \subseteq published' /\ published' \subseteq SkillIds
  BY <1>2 DEF RegistryInv
<1>4. s.enabled => id \in published'
  BY <1>1, <1>2
<1> HIDE DEF s
<1> QED  BY <1>1, <1>2, <1>3, <1>4, PersistKeepsRegistry DEF ByOperator

(* What is learned is not enabled.                                          *)
LEMMA LearnKeepsRegistry ==
    ASSUME RegistryInv, NEW id \in SkillIds, Learn(id)
    PROVE  RegistryInv'
<1> DEFINE s == Skill("learned", FALSE, TRUE, FALSE)
<1>1. s \in Skills /\ s.enabled = FALSE
  BY SkillTyped DEF Policies
<1>2. /\ skills' = [skills EXCEPT ![id] = s] /\ Persist(id) /\ UNCHANGED published
  BY DEF Learn
<1> HIDE DEF s
<1> QED  BY <1>1, <1>2, PersistKeepsRegistry DEF ByOperator, RegistryInv

(* A built-in Skill is switched off.                                        *)
LEMMA DisableKeepsRegistry ==
    ASSUME RegistryInv, NEW id \in SkillIds, Disable(id)
    PROVE  RegistryInv'
<1> DEFINE s == [skills[id] EXCEPT !.enabled = FALSE]
<1>1. skills[id] \in Skills
  BY RegistryTyped DEF Disable, MaybeSkill
<1>2. s \in Skills /\ s.enabled = FALSE
  BY <1>1 DEF Skills
<1>3. skills' = [skills EXCEPT ![id] = s] /\ Persist(id) /\ UNCHANGED published
  BY DEF Disable
<1> HIDE DEF s
<1> QED  BY <1>2, <1>3, PersistKeepsRegistry DEF ByOperator, RegistryInv

(* The process ends in a write, and a new one starts.                       *)
LEMMA CutShortKeepsRegistry ==
    ASSUME RegistryInv, NEW id \in SkillIds, CutShort(id)
    PROVE  RegistryInv'
<1> DEFINE disk == [packages EXCEPT ![id] = HalfWritten(packages, id)]
<1>1. /\ Bare(id) \in MaybeSkill /\ ~Bare(id).ready
  BY SkillTyped DEF Bare, MaybeSkill, Policies
<1>2. HalfWritten(packages, id) \in {packages[id], Bare(id)}
  BY DEF HalfWritten
<1>3. disk \in [SkillIds -> MaybeSkill]
  BY <1>1, <1>2, RegistryTyped DEF RegistryInv
<1>4. ASSUME NEW d \in Learnables
      PROVE  ByOperator(d, disk[d], published)
  BY <1>1, <1>2 DEF RegistryInv, ByOperator, SkillIds
<1>5. Boot(disk) /\ UNCHANGED published /\ published \subseteq SkillIds
  BY DEF CutShort, RegistryInv
<1> HIDE DEF disk
<1> QED  BY <1>3, <1>4, <1>5, BootKeepsRegistry

(* An archive decides on disk and, its actions apart, in memory.            *)
LEMMA ImportKeepsRegistry ==
    ASSUME RegistryInv, NEW a \in Archives, Import(a) \/ ImportFails(a)
    PROVE  RegistryInv'
<1> DEFINE enabled == a.enabled
           ready == a.ready
           builtin == a.builtin
           acts == a.acts /\ ~a.foreign
           s == Skill("archive", enabled, acts, FALSE)
           r == Skill("archive", enabled, ready, builtin)
           id == a.id
<1>1. /\ id \in SkillIds /\ enabled \in BOOLEAN /\ ready \in BOOLEAN /\ builtin \in BOOLEAN
      /\ acts \in BOOLEAN
  BY SkillsAssumption
<1>2. published' = IF enabled THEN published \cup {id} ELSE published
  BY DEF Import, ImportFails
<1>3. Import(a) => /\ skills' = [skills EXCEPT ![id] = s] /\ packages' = [packages EXCEPT ![id] = r]
                   /\ behind' = behind \ {id} /\ UNCHANGED writable
  BY DEF Import
<1>4. ImportFails(a) => /\ skills' = skills
                        /\ packages' \in {[packages EXCEPT ![id] = r], [packages EXCEPT ![id] = NoSkill]}
                        /\ behind' = behind \cup {id} /\ UNCHANGED writable
  BY DEF ImportFails
<1> HIDE DEF enabled, ready, builtin, acts, id
<1>5. /\ s \in MaybeSkill /\ r \in MaybeSkill /\ r # NoSkill
      /\ s.enabled = enabled /\ r.enabled = enabled
  <2>1. s \in Skills /\ s.enabled = enabled
    BY <1>1 DEF Skill, Skills, Policies
  <2>2. r \in Skills /\ r.enabled = enabled
    BY <1>1 DEF Skill, Skills, Policies
  <2> HIDE DEF s, r
  <2> QED  BY <2>1, <2>2, SkillsAssumption DEF MaybeSkill
<1> HIDE DEF s, r
<1>6. /\ published \subseteq published' /\ published' \subseteq SkillIds
      /\ ByOperator(id, s, published') /\ ByOperator(id, r, published')
  BY <1>1, <1>2, <1>5 DEF RegistryInv, ByOperator
<1>7. writable \in BOOLEAN /\ NoSkill \in MaybeSkill
  BY DEF RegistryInv, MaybeSkill
<1>8. CASE Import(a)
  <2>1. Stored(id, s, r, writable)
    BY <1>1, <1>5, OverKeeps DEF Stored
  <2> QED  BY <1>1, <1>3, <1>5, <1>6, <1>7, <1>8, <2>1, OneKeepsRegistry
<1>9. CASE ImportFails(a)
  <2>1. PICK q \in {r, NoSkill} : packages' = [packages EXCEPT ![id] = q]
    BY <1>4, <1>9
  <2>2. skills' = [skills EXCEPT ![id] = skills[id]] /\ skills[id] \in MaybeSkill
    BY <1>1, <1>4, <1>9 DEF RegistryInv
  <2>3. id \in Learnables => ByOperator(id, skills[id], published') /\ ByOperator(id, q, published')
    BY <1>6, <2>1 DEF RegistryInv, ByOperator
  <2>4. q \in MaybeSkill /\ id \in behind' /\ behind' \in {behind \ {id}, behind \cup {id}}
        /\ writable' \in BOOLEAN /\ (writable' => writable)
    BY <1>4, <1>5, <1>7, <1>9, <2>1
  <2> QED  BY <1>1, <1>6, <2>1, <2>2, <2>3, <2>4, OneKeepsRegistry
<1> QED  BY <1>8, <1>9

(* A Skill that is removed leaves nothing to bring back.                    *)
LEMMA DiscardKeepsRegistry ==
    ASSUME RegistryInv, NEW id \in SkillIds, Discard(id)
    PROVE  RegistryInv'
<1>1. PICK r \in {packages[id], NoSkill} : packages' = [packages EXCEPT ![id] = r]
  <2>1. packages = [packages EXCEPT ![id] = packages[id]]
    BY DEF RegistryInv
  <2> QED  BY <2>1 DEF Discard
<1>2. /\ skills' = [skills EXCEPT ![id] = NoSkill] /\ UNCHANGED <<writable, behind, published>>
      /\ NoSkill \in MaybeSkill /\ r \in MaybeSkill
  BY <1>1, RegistryTyped DEF Discard, MaybeSkill
<1>3. behind' \in {behind \ {id}, behind \cup {id}} /\ writable' \in BOOLEAN
  BY <1>2 DEF RegistryInv
<1>4. Stored(id, NoSkill, r, writable')
  BY DEF Stored
<1>5. id \in Learnables => ByOperator(id, NoSkill, published') /\ ByOperator(id, r, published')
  BY <1>1, <1>2 DEF RegistryInv, ByOperator
<1> QED  BY <1>1, <1>2, <1>3, <1>4, <1>5, OneKeepsRegistry DEF RegistryInv

(* An export writes what is in memory.                                      *)
LEMMA ExportKeepsRegistry ==
    ASSUME RegistryInv, NEW id \in SkillIds, Export(id)
    PROVE  RegistryInv'
<1> DEFINE s == skills[id]
<1>1. /\ s \in MaybeSkill /\ s # NoSkill
      /\ packages' = [packages EXCEPT ![id] = s]
      /\ behind' = behind \ {id} /\ UNCHANGED <<writable, published>>
  BY RegistryTyped DEF Export
<1>2. skills' = [skills EXCEPT ![id] = s]
  BY DEF Export, RegistryInv
<1>3. Stored(id, s, s, writable')
  BY <1>1, OverKeeps DEF Stored
<1>4. id \in Learnables => ByOperator(id, s, published')
  BY <1>1 DEF RegistryInv, ByOperator
<1> HIDE DEF s
<1> QED  BY <1>1, <1>2, <1>3, <1>4, OneKeepsRegistry DEF RegistryInv

(* A start from the disk as it is.                                          *)
LEMMA RestartKeepsRegistry ==
    ASSUME RegistryInv, Restart
    PROVE  RegistryInv'
BY BootKeepsRegistry DEF Restart, RegistryInv

(* The disk is that of a first start.                                       *)
LEMMA RegistryInitInv ==
    ASSUME SkillsInit
    PROVE  RegistryInv
<1>1. /\ skills = Loaded([id \in SkillIds |-> NoSkill]) /\ packages = skills /\ writable = TRUE
      /\ behind = {} /\ published = {}
  BY DEF SkillsInit
<1>2. ASSUME NEW id \in SkillIds
      PROVE  skills[id] = Over(id, NoSkill) /\ skills[id] \in MaybeSkill
  BY <1>1, LoadedIsOver, OverKeeps DEF MaybeSkill
<1>3. skills \in [SkillIds -> MaybeSkill]
  <2>1. skills = [id \in SkillIds |-> skills[id]]
    BY <1>1 DEF Loaded
  <2> QED  BY <1>2, <2>1
<1>4. ASSUME NEW id \in SkillIds
      PROVE  Stored(id, skills[id], packages[id], writable)
  BY <1>1, <1>2, OverKeeps DEF Stored
<1>5. ASSUME NEW id \in Learnables
      PROVE  ByOperator(id, skills[id], published)
  <2>1. id \in SkillIds
    BY DEF SkillIds
  <2>2. skills[id] = NoSkill
    BY <1>2, <2>1, OverKeeps DEF MaybeSkill
  <2> QED  BY <2>2 DEF ByOperator
<1> QED  BY <1>1, <1>3, <1>4, <1>5 DEF RegistryInv

(* What becomes of incidents changes no Skill.                              *)
LEMMA RegistryStep ==
    ASSUME RegistryInv, [SkillsNext]_skillVars
    PROVE  RegistryInv'
<1>1. CASE RegistryNext
  BY <1>1, UpsertKeepsRegistry, LearnKeepsRegistry, CutShortKeepsRegistry,
     DisableKeepsRegistry, DiscardKeepsRegistry, ExportKeepsRegistry, ImportKeepsRegistry
     DEF RegistryNext
<1>2. CASE HistoryNext
  <2>1. UNCHANGED registryVars
    BY <1>2 DEF HistoryNext, Execute, EndPass
  <2> QED  BY <2>1 DEF registryVars, RegistryInv
<1>3. CASE Restart
  BY <1>3, RestartKeepsRegistry
<1>4. CASE UNCHANGED skillVars
  BY <1>4 DEF skillVars, RegistryInv
<1> QED  BY <1>1, <1>2, <1>3, <1>4 DEF SkillsNext

(* What is stored of a Skill, and of a learned one by whose decision, over  *)
(* every order of saves, failures, imports, exports and restarts.           *)
THEOREM RegistryInvariant == SkillsSpec => []RegistryInv
BY RegistryInitInv, RegistryStep, PTL DEF SkillsSpec

(* A start finds what was stored: also one after a write that was cut short, *)
(* because a Skill that is not behind has a package while there are writes. *)
LEMMA StartKeepsEnabled ==
    ASSUME RegistryInv, [SkillsNext]_skillVars, boots' # boots,
           NEW id \in SkillIds \ (behind \cup behind'), skills[id] # NoSkill
    PROVE  skills'[id] # NoSkill /\ skills'[id].enabled = skills[id].enabled
<1>1. PICK disk \in [SkillIds -> MaybeSkill] : Boot(disk) /\ disk[id] = packages[id]
  <2>1. CASE Restart
    BY <2>1 DEF Restart, RegistryInv
  <2>2. CASE \E d \in SkillIds : CutShort(d)
    <3>1. PICK d \in SkillIds : CutShort(d)
      BY <2>2
    <3> DEFINE disk == [packages EXCEPT ![d] = HalfWritten(packages, d)]
    <3>2. Boot(disk) /\ writable
      BY <3>1 DEF CutShort
    <3>3. packages[id] # NoSkill
      BY <3>2 DEF RegistryInv, Stored
    <3>4. disk[id] = packages[id]
      BY <3>3 DEF HalfWritten, RegistryInv
    <3>5. Bare(d) \in MaybeSkill
      BY <3>1, SkillTyped DEF Bare, MaybeSkill, Policies
    <3>6. disk \in [SkillIds -> MaybeSkill]
      BY <3>5, RegistryTyped DEF HalfWritten, RegistryInv
    <3> QED  BY <3>2, <3>4, <3>6
  <2>3. Restart \/ \E d \in SkillIds : CutShort(d)
    BY DEF SkillsNext, skillVars, RegistryNext, HistoryNext, Upsert, Learn, Disable, Discard,
           Export, Import, ImportFails, Execute, EndPass
  <2> QED  BY <2>1, <2>2, <2>3
<1>2. skills'[id] = Over(id, packages[id])
  BY <1>1, BootLoads, LoadedIsOver
<1> QED  BY <1>2 DEF RegistryInv, Stored

(* A Skill that was learned waits for an operator, and a restart leaves     *)
(* every Skill as enabled or disabled as it was.                            *)
THEOREM EnablingDecided == SkillsSpec => EnablingIsDecided
<1>1. RegistryInv => LearnedNeedsOperator
  BY DEF RegistryInv, LearnedNeedsOperator, ByOperator
<1>2. RegistryInv /\ [SkillsNext]_skillVars =>
        [boots' # boots =>
          \A id \in SkillIds \ (behind \cup behind') :
              skills[id] # NoSkill =>
                  skills'[id] # NoSkill /\ skills'[id].enabled = skills[id].enabled]_skillVars
  BY StartKeepsEnabled
<1> QED  BY <1>1, <1>2, RegistryInvariant, PTL
            DEF SkillsSpec, EnablingIsDecided, RestartKeepsEnabled

-----------------------------------------------------------------------------
(* The tallies of SkillRegistry. An incident that is counted as resolved    *)
(* was counted as handled before, and the receipt that says so may be       *)
(* forgotten in between: what is resolved, with what could still be, is     *)
(* never more than what was handled.                                        *)

-----------------------------------------------------------------------------
(* What became of incidents.                                                *)

(* What can become of an incident.                                          *)
Outcomes == {"handled", "resolved"}
(* A receipt of an incident that a Skill handled.                           *)
Receipt == [incident : Incidents, outcome : Outcomes]
(* Executions of Skills in incidents.                                       *)
Runs == [skill : SkillIds, incident : Incidents]

(* Incidents a Skill has handled that are not resolved, as far as receipts  *)
(* are kept.                                                                *)
Open(receipts) ==
    {i \in Incidents : \E n \in 1 .. Len(receipts) :
                          receipts[n].incident = i /\ receipts[n].outcome = "handled"}

(* What may still be counted as resolved was counted as handled.            *)
WellCounted(t) ==
    /\ t \in Tallies /\ Len(t.receipts) <= ReceiptLimit
    /\ IsFiniteSet(Open(t.receipts))
    /\ t.resolved + Cardinality(Open(t.receipts)) <= t.handled

(* The inductive invariant of the tallies.                                  *)
HistoryInv ==
    /\ tallies \in [SkillIds -> Tallies] /\ usageFile \in [SkillIds -> Tallies]
    /\ \A id \in SkillIds : WellCounted(tallies[id]) /\ WellCounted(usageFile[id])
    /\ running \subseteq Runs /\ tried \subseteq Runs

(* What a tally that is well counted holds.                                 *)
LEMMA WellCountedFields ==
    ASSUME NEW t, WellCounted(t)
    PROVE  /\ t.executed \in Nat /\ t.succeeded \in Nat /\ t.failed \in Nat
           /\ t.handled \in Nat /\ t.resolved \in Nat /\ t.receipts \in Seq(Receipt)
           /\ Len(t.receipts) <= ReceiptLimit /\ IsFiniteSet(Open(t.receipts))
           /\ t.resolved + Cardinality(Open(t.receipts)) <= t.handled
           /\ t = [executed |-> t.executed, succeeded |-> t.succeeded, failed |-> t.failed,
                   handled |-> t.handled, resolved |-> t.resolved, receipts |-> t.receipts]
BY DEF WellCounted, Tallies, Receipt, Outcomes

(* A tally is well counted by what is in it.                                *)
LEMMA TallyIsCounted ==
    ASSUME NEW x \in Nat, NEW s \in Nat, NEW f \in Nat, NEW h \in Nat, NEW r \in Nat,
           NEW receipts \in Seq(Receipt), Len(receipts) <= ReceiptLimit,
           IsFiniteSet(Open(receipts)), r + Cardinality(Open(receipts)) <= h
    PROVE  WellCounted([executed |-> x, succeeded |-> s, failed |-> f, handled |-> h,
                        resolved |-> r, receipts |-> receipts])
BY DEF WellCounted, Tallies, Receipt, Outcomes

(* Executions, successes and failures are counted beside it.                *)
LEMMA OtherCounts ==
    ASSUME NEW t, WellCounted(t)
    PROVE  /\ WellCounted([t EXCEPT !.executed = @ + 1])
           /\ WellCounted([t EXCEPT !.succeeded = @ + 1])
           /\ WellCounted([t EXCEPT !.failed = @ + 1])
<1> DEFINE x == t.executed  s == t.succeeded  f == t.failed  h == t.handled
           r == t.resolved  receipts == t.receipts
<1>1. /\ x \in Nat /\ s \in Nat /\ f \in Nat /\ h \in Nat /\ r \in Nat
      /\ receipts \in Seq(Receipt) /\ Len(receipts) <= ReceiptLimit
      /\ IsFiniteSet(Open(receipts)) /\ r + Cardinality(Open(receipts)) <= h
  BY WellCountedFields
<1>2. t = [executed |-> x, succeeded |-> s, failed |-> f, handled |-> h,
           resolved |-> r, receipts |-> receipts]
  BY WellCountedFields
<1> HIDE DEF x, s, f, h, r, receipts
<1>3. /\ [t EXCEPT !.executed = @ + 1] =
             [executed |-> x + 1, succeeded |-> s, failed |-> f, handled |-> h,
              resolved |-> r, receipts |-> receipts]
      /\ [t EXCEPT !.succeeded = @ + 1] =
             [executed |-> x, succeeded |-> s + 1, failed |-> f, handled |-> h,
              resolved |-> r, receipts |-> receipts]
      /\ [t EXCEPT !.failed = @ + 1] =
             [executed |-> x, succeeded |-> s, failed |-> f + 1, handled |-> h,
              resolved |-> r, receipts |-> receipts]
  BY <1>2
<1>4. x + 1 \in Nat /\ s + 1 \in Nat /\ f + 1 \in Nat
  BY <1>1
<1>5. WellCounted([executed |-> x + 1, succeeded |-> s, failed |-> f, handled |-> h,
                   resolved |-> r, receipts |-> receipts])
  BY <1>1, <1>4, TallyIsCounted
<1>6. WellCounted([executed |-> x, succeeded |-> s + 1, failed |-> f, handled |-> h,
                   resolved |-> r, receipts |-> receipts])
  BY <1>1, <1>4, TallyIsCounted
<1>7. WellCounted([executed |-> x, succeeded |-> s, failed |-> f + 1, handled |-> h,
                   resolved |-> r, receipts |-> receipts])
  BY <1>1, <1>4, TallyIsCounted
<1> QED  BY <1>3, <1>5, <1>6, <1>7

(* The outcome of an incident is that of a receipt of it.                   *)
LEMMA OutcomeIsOfReceipt ==
    ASSUME NEW t, t.receipts \in Seq(Receipt), NEW i \in Incidents
    PROVE  \/ /\ OutcomeOf(t, i) = "none"
              /\ \A n \in 1 .. Len(t.receipts) : t.receipts[n].incident # i
           \/ \E n \in 1 .. Len(t.receipts) :
                 t.receipts[n].incident = i /\ OutcomeOf(t, i) = t.receipts[n].outcome
<1> DEFINE r == CHOOSE r \in ToSet(t.receipts) : r.incident = i
<1>1. CASE \E n \in 1 .. Len(t.receipts) : t.receipts[n].incident = i
  <2>1. PICK n \in 1 .. Len(t.receipts) : t.receipts[n].incident = i
    BY <1>1
  <2>2. DOMAIN t.receipts = 1 .. Len(t.receipts)
    OBVIOUS
  <2>3. \E q \in ToSet(t.receipts) : q.incident = i
    BY <2>1, <2>2 DEF ToSet
  <2>4. r \in ToSet(t.receipts) /\ r.incident = i
    BY <2>3
  <2>5. OutcomeOf(t, i) = r.outcome
    BY <1>1 DEF OutcomeOf
  <2> QED  BY <2>2, <2>4, <2>5 DEF ToSet
<1>2. CASE ~\E n \in 1 .. Len(t.receipts) : t.receipts[n].incident = i
  BY <1>2 DEF OutcomeOf
<1> QED  BY <1>1, <1>2

(* Dropping the oldest receipt opens nothing.                               *)
LEMMA KeptOpensNothing ==
    ASSUME NEW receipts \in Seq(Receipt), Len(receipts) <= ReceiptLimit + 1
    PROVE  /\ Kept(receipts) \in Seq(Receipt) /\ Len(Kept(receipts)) <= ReceiptLimit
           /\ Open(Kept(receipts)) \subseteq Open(receipts)
<1>0. ReceiptLimit \in Nat \ {0}
  BY SkillsAssumption
<1>1. CASE Len(receipts) > ReceiptLimit
  <2>1. Kept(receipts) = SubSeq(receipts, 2, Len(receipts))
    BY <1>1 DEF Kept
  <2>2. /\ SubSeq(receipts, 2, Len(receipts)) \in Seq(Receipt)
        /\ Len(SubSeq(receipts, 2, Len(receipts))) = Len(receipts) - 1
        /\ \A n \in 1 .. Len(receipts) - 1 :
              SubSeq(receipts, 2, Len(receipts))[n] = receipts[n + 1]
    BY <1>0, <1>1
  <2> QED  BY <1>0, <1>1, <2>1, <2>2 DEF Open
<1>2. CASE Len(receipts) <= ReceiptLimit
  <2>1. Kept(receipts) = SubSeq(receipts, 1, Len(receipts))
    BY <1>0, <1>2 DEF Kept
  <2>2. SubSeq(receipts, 1, Len(receipts)) = receipts
    OBVIOUS
  <2> QED  BY <1>2, <2>1, <2>2
<1> QED  BY <1>0, <1>1, <1>2

(* The receipts after an outcome: an incident that was not there opens, one *)
(* that is resolved closes.                                                 *)
LEMMA ReceiptedOpens ==
    ASSUME NEW receipts \in Seq(Receipt), Len(receipts) <= ReceiptLimit,
           NEW i \in Incidents, NEW outcome \in Outcomes
    PROVE  LET new == Receipted(receipts, i, outcome) IN
           /\ new \in Seq(Receipt) /\ Len(new) <= ReceiptLimit
           /\ Open(new) \subseteq Open(receipts) \cup (IF outcome = "handled" THEN {i} ELSE {})
           /\ (outcome = "resolved" /\ \E n \in 1 .. Len(receipts) : receipts[n].incident = i) =>
                 i \notin Open(new)
<1> DEFINE new == Receipted(receipts, i, outcome)
           q == [incident |-> i, outcome |-> outcome]
<1>0. q \in Receipt /\ q.incident = i /\ q.outcome = outcome
  BY DEF Receipt
<1>1. CASE \E n \in 1 .. Len(receipts) : receipts[n].incident = i
  <2> DEFINE s == [n \in 1 .. Len(receipts) |-> IF receipts[n].incident = i THEN q ELSE receipts[n]]
  <2>1. new = s
    BY <1>1 DEF Receipted
  <2>2. \A n \in 1 .. Len(receipts) :
           /\ s[n] \in Receipt
           /\ receipts[n].incident = i => s[n] = q
           /\ receipts[n].incident # i => s[n] = receipts[n]
    BY <1>0
  <2>3. s \in Seq(Receipt) /\ Len(s) = Len(receipts)
    BY <2>2
  <2> HIDE DEF s, q, new
  <2> QED  BY <1>0, <2>1, <2>2, <2>3 DEF Open, Outcomes, new
<1>2. CASE ~\E n \in 1 .. Len(receipts) : receipts[n].incident = i
  <2> DEFINE s == Append(receipts, q)
  <2>1. new = Kept(s)
    BY <1>2 DEF Receipted
  <2>2. /\ s \in Seq(Receipt) /\ Len(s) = Len(receipts) + 1
        /\ \A n \in 1 .. Len(receipts) : s[n] = receipts[n]
        /\ s[Len(receipts) + 1] = q
    BY <1>0
  <2> HIDE DEF s, q, new
  <2>3. Open(s) \subseteq Open(receipts) \cup (IF outcome = "handled" THEN {i} ELSE {})
    BY <1>0, <2>2 DEF Open
  <2>4. Len(s) <= ReceiptLimit + 1
    BY <2>2, SkillsAssumption
  <2> QED  BY <1>2, <2>1, <2>2, <2>3, <2>4, KeptOpensNothing DEF new
<1> QED  BY <1>1, <1>2

(* A tally with other counts and receipts.                                  *)
Recounted(t, h, r, receipts) ==
    [t EXCEPT !.handled = h, !.resolved = r, !.receipts = receipts]

(* A tally with other counts is a tally.                                    *)
LEMMA RecountedTyped ==
    ASSUME NEW t \in Tallies, NEW h \in Nat, NEW r \in Nat, NEW receipts \in Seq(Receipt)
    PROVE  /\ Recounted(t, h, r, receipts) \in Tallies
           /\ Recounted(t, h, r, receipts).handled = h
           /\ Recounted(t, h, r, receipts).resolved = r
           /\ Recounted(t, h, r, receipts).receipts = receipts
<1> SUFFICES ASSUME NEW Q, receipts \in Q, Q = Seq(Receipt)
             PROVE  /\ Recounted(t, h, r, receipts) \in Tallies
                    /\ Recounted(t, h, r, receipts).handled = h
                    /\ Recounted(t, h, r, receipts).resolved = r
                    /\ Recounted(t, h, r, receipts).receipts = receipts
  OBVIOUS
<1>1. Tallies = [executed : Nat, succeeded : Nat, failed : Nat, handled : Nat,
                 resolved : Nat, receipts : Q]
  BY DEF Tallies, Receipt, Outcomes
<1> QED  BY <1>1 DEF Recounted

(* Counting an outcome keeps the tally.                                     *)
LEMMA CountedKeeps ==
    ASSUME NEW t, WellCounted(t), NEW i \in Incidents, NEW outcome \in Outcomes
    PROVE  WellCounted(Counted(t, i, outcome))
<1> DEFINE x == t.executed  s == t.succeeded  f == t.failed  h == t.handled
           r == t.resolved  receipts == t.receipts
           new == Receipted(receipts, i, outcome)
           before == OutcomeOf(t, i)
           up == IF before = "none" THEN 1 ELSE 0
           down == IF outcome = "resolved" THEN 1 ELSE 0
<1>1. /\ x \in Nat /\ s \in Nat /\ f \in Nat /\ h \in Nat /\ r \in Nat
      /\ receipts \in Seq(Receipt) /\ Len(receipts) <= ReceiptLimit
      /\ IsFiniteSet(Open(receipts)) /\ r + Cardinality(Open(receipts)) <= h
  BY WellCountedFields
<1>2. t = [executed |-> x, succeeded |-> s, failed |-> f, handled |-> h,
           resolved |-> r, receipts |-> receipts]
  BY WellCountedFields
<1>3. \/ before = "none" /\ \A n \in 1 .. Len(receipts) : receipts[n].incident # i
      \/ \E n \in 1 .. Len(receipts) :
            receipts[n].incident = i /\ before = receipts[n].outcome
  BY <1>1, OutcomeIsOfReceipt
<1>4. /\ new \in Seq(Receipt) /\ Len(new) <= ReceiptLimit
      /\ Open(new) \subseteq Open(receipts) \cup (IF outcome = "handled" THEN {i} ELSE {})
      /\ (outcome = "resolved" /\ \E n \in 1 .. Len(receipts) : receipts[n].incident = i) =>
            i \notin Open(new)
  BY <1>1, ReceiptedOpens
<1>5. Counted(t, i, outcome) =
        IF before \in {outcome, "resolved"} THEN t
        ELSE [t EXCEPT !.handled = h + up, !.resolved = r + down, !.receipts = new]
  BY DEF Counted
<1> HIDE DEF x, s, f, h, r, receipts, new, before
<1>6. CASE before \in {outcome, "resolved"}
  BY <1>5, <1>6
<1>7. CASE before \notin {outcome, "resolved"}
  <2>2. h + up \in Nat /\ r + down \in Nat
    BY <1>1
  <2>3. IsFiniteSet(Open(new)) /\ r + down + Cardinality(Open(new)) <= h + up
    <3> DEFINE old == Open(receipts)
    <3>0. IsFiniteSet(old) /\ Cardinality(old) \in Nat /\ r + Cardinality(old) <= h
      BY <1>1, FS_CardinalityType
    <3>1. CASE before = "none" /\ outcome = "handled"
      <4>1. IsFiniteSet(old \cup {i}) /\ Cardinality(old \cup {i}) <= Cardinality(old) + 1
        <5>1. /\ IsFiniteSet(old \cup {i})
              /\ Cardinality(old \cup {i}) \in {Cardinality(old), Cardinality(old) + 1}
          BY <3>0, FS_AddElement
        <5> QED  BY <3>0, <5>1
      <4>2. Open(new) \subseteq old \cup {i}
        BY <1>4, <3>1
      <4>3. IsFiniteSet(Open(new)) /\ Cardinality(Open(new)) <= Cardinality(old \cup {i})
        BY <4>1, <4>2, FS_Subset
      <4>4. Cardinality(Open(new)) \in Nat /\ Cardinality(old \cup {i}) \in Nat
        BY <4>1, <4>3, FS_CardinalityType
      <4> HIDE DEF old
      <4> QED  BY <1>1, <3>0, <3>1, <4>1, <4>3, <4>4
    <3>2. CASE before = "none" /\ outcome = "resolved"
      <4>1. Open(new) \subseteq old
        BY <1>4, <3>2
      <4>2. IsFiniteSet(Open(new)) /\ Cardinality(Open(new)) <= Cardinality(old)
        BY <3>0, <4>1, FS_Subset
      <4>3. Cardinality(Open(new)) \in Nat
        BY <4>2, FS_CardinalityType
      <4> HIDE DEF old
      <4> QED  BY <1>1, <3>0, <3>2, <4>2, <4>3
    <3>3. CASE before # "none"
      <4>1. PICK n \in 1 .. Len(receipts) : receipts[n].incident = i /\ before = receipts[n].outcome
        BY <1>3, <3>3
      <4>2. receipts[n] \in Receipt
        BY <1>1, <4>1
      <4>3. before = "handled" /\ outcome = "resolved"
        BY <1>7, <4>1, <4>2 DEF Receipt, Outcomes
      <4>4. i \in old
        BY <4>1, <4>3 DEF Open
      <4>5. Open(new) \subseteq old \ {i}
        BY <1>4, <4>1, <4>3
      <4>6. IsFiniteSet(old \ {i}) /\ Cardinality(old \ {i}) = Cardinality(old) - 1
        BY <3>0, <4>4, FS_RemoveElement
      <4>7. IsFiniteSet(Open(new)) /\ Cardinality(Open(new)) <= Cardinality(old \ {i})
        BY <4>5, <4>6, FS_Subset
      <4>8. Cardinality(Open(new)) \in Nat
        BY <4>7, FS_CardinalityType
      <4> HIDE DEF old
      <4> QED  BY <1>1, <3>0, <3>3, <4>3, <4>6, <4>7, <4>8
    <3> QED  BY <3>1, <3>2, <3>3 DEF Outcomes
  <2> DEFINE handled == h + up  resolved == r + down
             u == [t EXCEPT !.handled = handled, !.resolved = resolved, !.receipts = new]
  <2>4. Counted(t, i, outcome) = u
    BY <1>5, <1>7
  <2>5. /\ handled \in Nat /\ resolved \in Nat
        /\ IsFiniteSet(Open(new)) /\ resolved + Cardinality(Open(new)) <= handled
    BY <2>2, <2>3
  <2>6. t \in Tallies
    BY DEF WellCounted
  <2> HIDE DEF handled, resolved
  <2>7. u \in Tallies /\ u.handled = handled /\ u.resolved = resolved /\ u.receipts = new
    <3>1. handled \in Nat /\ resolved \in Nat /\ new \in Seq(Receipt)
      BY <1>4, <2>5
    <3>2. u = Recounted(t, handled, resolved, new)
      BY DEF Recounted
    <3> HIDE DEF u
    <3>3. u \in Tallies
      BY <2>6, <3>1, <3>2, RecountedTyped
    <3>4. u.handled = handled /\ u.resolved = resolved
      BY <2>6, <3>1, <3>2, RecountedTyped
    <3>5. u.receipts = new
      BY <2>6, <3>1, <3>2, RecountedTyped
    <3> QED  BY <3>3, <3>4, <3>5
  <2> HIDE DEF u
  <2> QED  BY <1>4, <2>4, <2>5, <2>7 DEF WellCounted
<1> QED  BY <1>6, <1>7

(* A pass that ends, and a recovery, count one outcome at a time.           *)
LEMMA EndedPassKeeps ==
    ASSUME NEW t, WellCounted(t), NEW r \in Runs, NEW recovered \in BOOLEAN
    PROVE  WellCounted(EndedPass(t, r, recovered))
<1>1. r.incident \in Incidents
  BY DEF Runs
<1>2. WellCounted(Counted(t, r.incident, "handled"))
  BY <1>1, CountedKeeps DEF Outcomes
<1> QED  BY <1>2, OtherCounts DEF EndedPass

(* A recovery counts as resolved what was handled.                          *)
LEMMA RecoveredKeeps ==
    ASSUME NEW t, WellCounted(t), NEW r \in Runs, NEW id, NEW hardened \in BOOLEAN
    PROVE  WellCounted(Recovered(t, r, id, hardened))
<1> DEFINE judged == IF id # r.skill THEN t
                     ELSE IF hardened THEN [t EXCEPT !.succeeded = @ + 1]
                     ELSE [t EXCEPT !.failed = @ + 1]
<1>1. WellCounted(judged)
  BY OtherCounts
<1>2. r.incident \in Incidents
  BY DEF Runs
<1>3. Recovered(t, r, id, hardened) \in {judged, Counted(judged, r.incident, "resolved")}
  BY DEF Recovered
<1> HIDE DEF judged
<1> QED  BY <1>1, <1>2, <1>3, CountedKeeps DEF Outcomes

-----------------------------------------------------------------------------
(* What is stored of the tallies is well counted as they are.               *)
LEMMA SaveKeepsHistory ==
    ASSUME HistoryInv, tallies' \in [SkillIds -> Tallies],
           \A id \in SkillIds : WellCounted(tallies'[id]),
           SaveUsage \/ (\/ tallies' = usageFile /\ UNCHANGED usageFile),
           running' \subseteq Runs, tried' \subseteq Runs
    PROVE  HistoryInv'
<1>1. usageFile' = tallies' \/ usageFile' = usageFile
  BY DEF SaveUsage
<1> QED  BY <1>1 DEF HistoryInv, WellCounted, Open

(* An execution is counted when it begins.                                  *)
LEMMA ExecuteKeepsHistory ==
    ASSUME HistoryInv, NEW id \in SkillIds, NEW incident \in Incidents, Execute(id, incident)
    PROVE  HistoryInv'
<1> DEFINE t == [tallies[id] EXCEPT !.executed = @ + 1]
<1>1. WellCounted(t)
  BY OtherCounts DEF HistoryInv
<1>2. tallies' = [tallies EXCEPT ![id] = t]
  BY DEF Execute
<1>3. t \in Tallies
  BY <1>1 DEF WellCounted
<1> HIDE DEF t
<1>4. /\ tallies' \in [SkillIds -> Tallies]
      /\ \A d \in SkillIds : WellCounted(tallies'[d])
  BY <1>1, <1>2, <1>3 DEF HistoryInv
<1>5. running' \subseteq Runs /\ tried' \subseteq Runs
  BY DEF Execute, HistoryInv, Runs
<1>6. SaveUsage
  BY DEF Execute
<1> QED  BY <1>4, <1>5, <1>6, SaveKeepsHistory

(* A pass that ends counts a success or a failure and an outcome.           *)
LEMMA EndPassKeepsHistory ==
    ASSUME HistoryInv, NEW r \in running, NEW recovered \in BOOLEAN, NEW hardened \in BOOLEAN,
           EndPass(r, recovered, hardened)
    PROVE  HistoryInv'
<1> DEFINE ended(id) == IF id = r.skill THEN EndedPass(tallies[id], r, recovered) ELSE tallies[id]
           after(id) == IF recovered THEN Recovered(ended(id), r, id, hardened) ELSE ended(id)
<1>1. r \in Runs
  BY DEF HistoryInv
<1>2. ASSUME NEW id \in SkillIds
      PROVE  WellCounted(after(id))
  <2>1. WellCounted(ended(id))
    BY <1>1, EndedPassKeeps DEF HistoryInv
  <2> HIDE DEF ended
  <2> QED  BY <1>1, <2>1, RecoveredKeeps
<1>3. tallies' = [id \in SkillIds |-> after(id)]
  BY DEF EndPass
<1> HIDE DEF after
<1>4. \A id \in SkillIds : after(id) \in Tallies
  BY <1>2 DEF WellCounted
<1>5. /\ tallies' \in [SkillIds -> Tallies]
      /\ \A id \in SkillIds : WellCounted(tallies'[id])
  BY <1>2, <1>3, <1>4
<1>6. running' \subseteq Runs /\ tried' \subseteq Runs /\ SaveUsage
  BY <1>1 DEF EndPass, HistoryInv
<1> QED  BY <1>5, <1>6, SaveKeepsHistory

(* A start reads the usage file that was written last.                      *)
LEMMA BootKeepsHistory ==
    ASSUME HistoryInv, NEW disk, Boot(disk)
    PROVE  HistoryInv'
<1>1. /\ tallies' = usageFile /\ usageFile' = usageFile /\ tried' = tried /\ running' = {}
  BY DEF Boot, BootReading
<1> QED  BY <1>1 DEF HistoryInv, WellCounted, Open

(* What a start loads is well counted.                                      *)
LEMMA HistoryInitInv ==
    ASSUME SkillsInit
    PROVE  HistoryInv
<1>1. <<>> \in Seq(Receipt) /\ Len(<<>>) = 0 /\ Open(<<>>) = {}
  BY DEF Open
<1>2. IsFiniteSet({}) /\ Cardinality({}) = 0
  BY FS_EmptySet
<1>3. WellCounted(NoTally)
  <2>1. <<>> \in Seq(Receipt) /\ Len(<<>>) <= ReceiptLimit /\ 0 \in Nat
        /\ IsFiniteSet(Open(<<>>)) /\ 0 + Cardinality(Open(<<>>)) <= 0
    <3>1. IsFiniteSet(Open(<<>>)) /\ Cardinality(Open(<<>>)) = 0
      BY <1>1, <1>2
    <3> QED  BY <1>1, <3>1, SkillsAssumption
  <2>2. /\ NoTally \in Tallies /\ NoTally.resolved = 0 /\ NoTally.handled = 0
        /\ NoTally.receipts = <<>>
    BY <2>1 DEF NoTally, Tallies, Receipt, Outcomes
  <2> QED  BY <2>1, <2>2 DEF WellCounted
<1>4. NoTally \in Tallies
  BY <1>3 DEF WellCounted
<1>5. tallies = [id \in SkillIds |-> NoTally] /\ usageFile = tallies /\ running = {} /\ tried = {}
  BY DEF SkillsInit
<1> QED  BY <1>3, <1>4, <1>5 DEF HistoryInv

(* Every step keeps the tallies well counted.                               *)
LEMMA HistoryStep ==
    ASSUME HistoryInv, [SkillsNext]_skillVars
    PROVE  HistoryInv'
<1>1. CASE UNCHANGED historyVars
  BY <1>1 DEF historyVars, HistoryInv, WellCounted, Open
<1>2. CASE \E disk : Boot(disk)
  BY <1>2, BootKeepsHistory
<1>3. CASE HistoryNext
  BY <1>3, ExecuteKeepsHistory, EndPassKeepsHistory DEF HistoryNext
<1>4. UNCHANGED historyVars \/ (\E disk : Boot(disk)) \/ HistoryNext
  BY DEF SkillsNext, RegistryNext, skillVars, historyVars, Upsert, Learn, CutShort, Disable,
         Discard, Export, Import, ImportFails, Restart
<1> QED  BY <1>1, <1>2, <1>3, <1>4

(* What is counted of incidents, in memory and in the usage file.           *)
THEOREM HistoryInvariant == SkillsSpec => []HistoryInv
BY HistoryInitInv, HistoryStep, PTL DEF SkillsSpec

(* A Skill never has more incidents resolved than handled, through retries  *)
(* of one incident, receipts that were dropped, and a usage file that a     *)
(* restart finds behind.                                                    *)
THEOREM OutcomesAlwaysAddUp == SkillsSpec => []OutcomesAddUp
<1>1. ASSUME HistoryInv, NEW id \in SkillIds
      PROVE  tallies[id].resolved <= tallies[id].handled
  <2> DEFINE t == tallies[id]
  <2>1. WellCounted(t)
    BY <1>1 DEF HistoryInv
  <2>2. /\ t.handled \in Nat /\ t.resolved \in Nat /\ IsFiniteSet(Open(t.receipts))
        /\ t.resolved + Cardinality(Open(t.receipts)) <= t.handled
    BY <2>1, WellCountedFields
  <2>3. Cardinality(Open(t.receipts)) \in Nat
    BY <2>2, FS_CardinalityType
  <2> HIDE DEF t
  <2>4. t.resolved <= t.handled
    BY <2>2, <2>3
  <2> QED  BY <2>4 DEF t
<1>2. HistoryInv => OutcomesAddUp
  BY <1>1 DEF OutcomesAddUp
<1> QED  BY <1>2, HistoryInvariant, PTL

-----------------------------------------------------------------------------
(* The ranking of Skills. A penalty for a failure weighs more than all that *)
(* history can be worth.                                                    *)

(* A Skill whose incidents are not counted yet has no outcome.              *)
Unjudged(t) == t.handled = 0 => t.receipts = <<>> /\ t.succeeded = 0 /\ t.failed = 0

(* The invariant of the ranking.                                            *)
RankInv ==
    /\ HistoryInv
    /\ \A id \in SkillIds : Unjudged(tallies[id]) /\ Unjudged(usageFile[id])

(* An outcome that is counted was handled.                                  *)
LEMMA CountedIsHandled ==
    ASSUME NEW t, WellCounted(t), Unjudged(t), NEW incident \in Incidents,
           NEW outcome \in Outcomes
    PROVE  Counted(t, incident, outcome).handled > 0
<1> DEFINE before == OutcomeOf(t, incident)
           u == Counted(t, incident, outcome)
<1>1. t.handled \in Nat /\ t \in Tallies
  BY WellCountedFields DEF WellCounted
<1>2. CASE t.handled = 0
  <2>1. before = "none"
    BY <1>2 DEF Unjudged, OutcomeOf
  <2>2. u.handled = t.handled + 1
    BY <1>1, <2>1 DEF Counted, Tallies, Outcomes
  <2> QED  BY <1>2, <2>2
<1>3. CASE t.handled > 0
  <2>1. u.handled \in {t.handled, t.handled + 1}
    BY <1>1 DEF Counted, Tallies
  <2> QED  BY <1>1, <1>3, <2>1
<1> QED  BY <1>1, <1>2, <1>3

(* A pass that ends was handled, whatever it brought.                       *)
LEMMA EndedIsHandled ==
    ASSUME NEW t, WellCounted(t), Unjudged(t), NEW r \in Runs, NEW recovered \in BOOLEAN
    PROVE  EndedPass(t, r, recovered).handled > 0
<1> DEFINE u == Counted(t, r.incident, "handled")
<1>1. r.incident \in Incidents
  BY DEF Runs
<1>2. u.handled > 0 /\ u \in Tallies
  BY <1>1, CountedIsHandled, CountedKeeps DEF Outcomes, WellCounted
<1> HIDE DEF u
<1>3. [u EXCEPT !.failed = @ + 1].handled = u.handled
  BY <1>2 DEF Tallies
<1> QED  BY <1>2, <1>3 DEF EndedPass, u

(* What a recovery counts was handled, or is as it was.                     *)
LEMMA RecoveredIsJudged ==
    ASSUME NEW t, WellCounted(t), Unjudged(t), NEW r \in Runs, NEW id, NEW hardened \in BOOLEAN,
           id = r.skill => t.handled > 0
    PROVE  Unjudged(Recovered(t, r, id, hardened))
<1> DEFINE judged == IF id # r.skill THEN t
                     ELSE IF hardened THEN [t EXCEPT !.succeeded = @ + 1]
                     ELSE [t EXCEPT !.failed = @ + 1]
<1>1. WellCounted(judged)
  BY OtherCounts
<1>2. t \in Tallies
  BY DEF WellCounted
<1>3. Unjudged(judged)
  <2>1. CASE id # r.skill
    BY <2>1
  <2>2. CASE id = r.skill
    <3>1. judged.handled = t.handled
      BY <1>2, <2>2 DEF Tallies
    <3> HIDE DEF judged
    <3>2. t.handled > 0 /\ t.handled \in Nat
      BY <1>2, <2>2 DEF Tallies
    <3> QED  BY <3>1, <3>2 DEF Unjudged
  <2> QED  BY <2>1, <2>2
<1>4. r.incident \in Incidents
  BY DEF Runs
<1>5. Recovered(t, r, id, hardened) \in {judged, Counted(judged, r.incident, "resolved")}
  BY DEF Recovered
<1> HIDE DEF judged
<1>6. Counted(judged, r.incident, "resolved").handled > 0
  BY <1>1, <1>3, <1>4, CountedIsHandled DEF Outcomes
<1>7. Unjudged(Counted(judged, r.incident, "resolved"))
  BY <1>6 DEF Unjudged
<1> QED  BY <1>3, <1>5, <1>7

(* Every step leaves outcomes with Skills that were handled only.           *)
LEMMA RankStep ==
    ASSUME RankInv, [SkillsNext]_skillVars
    PROVE  RankInv'
<1>1. HistoryInv'
  BY HistoryStep DEF RankInv
<1>2. CASE UNCHANGED historyVars
  BY <1>1, <1>2 DEF historyVars, RankInv, Unjudged
<1>3. CASE \E disk : Boot(disk)
  <2>1. tallies' = usageFile /\ usageFile' = usageFile
    BY <1>3 DEF Boot, BootReading
  <2> QED  BY <1>1, <2>1 DEF RankInv, Unjudged
<1>4. ASSUME \A id \in SkillIds : Unjudged(tallies'[id]), SaveUsage
      PROVE  RankInv'
  <2>1. usageFile' = tallies' \/ usageFile' = usageFile
    BY <1>4 DEF SaveUsage
  <2> QED  BY <1>1, <1>4, <2>1 DEF RankInv, Unjudged
<1>5. ASSUME NEW id \in SkillIds, NEW incident \in Incidents, Execute(id, incident)
      PROVE  RankInv'
  <2>1. tallies \in [SkillIds -> Tallies] /\ SaveUsage
        /\ tallies' = [tallies EXCEPT ![id].executed = @ + 1]
    BY <1>5 DEF Execute, RankInv, HistoryInv
  <2>2. ASSUME NEW d \in SkillIds  PROVE Unjudged(tallies'[d])
    <3>1. tallies[d] \in Tallies /\ Unjudged(tallies[d])
      BY <2>1 DEF RankInv
    <3>2. /\ tallies'[d].handled = tallies[d].handled
          /\ tallies'[d].receipts = tallies[d].receipts
          /\ tallies'[d].succeeded = tallies[d].succeeded
          /\ tallies'[d].failed = tallies[d].failed
      BY <2>1, <3>1 DEF Tallies
    <3> QED  BY <3>1, <3>2 DEF Unjudged
  <2> QED  BY <1>4, <2>1, <2>2
<1>6. ASSUME NEW r \in running, NEW recovered \in BOOLEAN, NEW hardened \in BOOLEAN,
             EndPass(r, recovered, hardened)
      PROVE  RankInv'
  <2> DEFINE ended(id) == IF id = r.skill THEN EndedPass(tallies[id], r, recovered)
                          ELSE tallies[id]
             after(id) == IF recovered THEN Recovered(ended(id), r, id, hardened) ELSE ended(id)
  <2>1. r \in Runs
    BY DEF RankInv, HistoryInv
  <2>2. ASSUME NEW id \in SkillIds
        PROVE  Unjudged(after(id))
    <3>1. WellCounted(tallies[id]) /\ Unjudged(tallies[id])
      BY DEF RankInv, HistoryInv
    <3>2. WellCounted(ended(id))
      BY <2>1, <3>1, EndedPassKeeps
    <3>3. id = r.skill => ended(id).handled > 0
      BY <2>1, <3>1, EndedIsHandled
    <3>4. id # r.skill => Unjudged(ended(id))
      BY <3>1
    <3> HIDE DEF ended
    <3>5. ended(id).handled \in Nat
      BY <3>2, WellCountedFields
    <3>6. Unjudged(ended(id))
      BY <3>3, <3>4, <3>5 DEF Unjudged
    <3>7. Unjudged(Recovered(ended(id), r, id, hardened))
      BY <2>1, <3>2, <3>3, <3>6, RecoveredIsJudged
    <3> QED  BY <3>6, <3>7
  <2>3. tallies' = [id \in SkillIds |-> after(id)] /\ SaveUsage
    BY <1>6 DEF EndPass
  <2> HIDE DEF after
  <2> QED  BY <1>4, <2>2, <2>3
<1>7. UNCHANGED historyVars \/ (\E disk : Boot(disk)) \/ HistoryNext
  BY DEF SkillsNext, RegistryNext, skillVars, historyVars, Upsert, Learn, CutShort, Disable,
         Discard, Export, Import, ImportFails, Restart
<1> QED  BY <1>2, <1>3, <1>5, <1>6, <1>7 DEF HistoryNext

(* No Skill was judged before it was used.                                  *)
THEOREM RankInvariant == SkillsSpec => []RankInv
<1>1. SkillsInit => RankInv
  BY HistoryInitInv DEF RankInv, SkillsInit, NoTally, Unjudged
<1> QED  BY <1>1, RankStep, PTL DEF SkillsSpec

-----------------------------------------------------------------------------
(* What the parts of a score are.                                           *)

(* Least is that one.                                                       *)
LEMMA LeastIsOne ==
    ASSUME NEW S, S \subseteq Nat, S # {}
    PROVE  Least(S) \in S
BY LeastNat DEF Least

(* A share of a whole, in ten-thousandths.                                  *)
LEMMA ShareBound ==
    ASSUME NEW a \in Nat, NEW b \in Nat \ {0}, a <= 10000 * b
    PROVE  a \div b \in Nat /\ a \div b <= 10000
OBVIOUS

(* How many hypotheses there are.                                           *)
LEMMA HypothesesTyped ==
    ASSUME NEW s \in Signals
    PROVE  Hypotheses[s] \in Nat
<1> DEFINE filled == {n \in 1 .. Len(Asked[s].lists) : Asked[s].lists[n] > 0}
<1>1. Asked[s].lists \in Seq(Nat)
  BY RankingAssumption
<1>2. Hypotheses[s] = IF filled # {} THEN Capped(Asked[s].lists[Least(filled)], 8)
                      ELSE IF Asked[s].rootCause THEN 1 ELSE 0
  BY DEF Hypotheses
<1>3. filled \subseteq Nat /\ \A n \in filled : Asked[s].lists[n] \in Nat
  BY <1>1
<1>4. filled # {} => Asked[s].lists[Least(filled)] \in Nat
  BY <1>3, LeastIsOne
<1> HIDE DEF filled
<1>5. filled # {} => Capped(Asked[s].lists[Least(filled)], 8) \in Nat
  BY <1>4 DEF Capped
<1> QED  BY <1>2, <1>5

(* How much of the evidence a Skill asks for is there.                      *)
LEMMA ReadinessTyped ==
    ASSUME NEW id \in SkillIds, NEW s \in Signals
    PROVE  Readiness[s][id] \in Nat /\ Readiness[s][id] <= 10000
<1> DEFINE c == Cardinality(Checks(id))
           a == Cardinality(Absences(id, s))
<1>1. Readiness[s][id] = IF Checks(id) = {} THEN 10000 ELSE ((c - a) * 10000) \div c
  BY DEF Readiness
<1>2. IsFiniteSet(Checks(id))
  <2> DEFINE one == [e \in Traits[id].requires |-> {e}]
             T == {{e} : e \in Traits[id].requires}
  <2>0. one \in Surjection(Traits[id].requires, T)
    BY DEF Surjection
  <2>1. IsFiniteSet(T)
    BY <2>0, RankingAssumption, FS_Surjection
  <2>2. IsFiniteSet(Traits[id].anyOf)
    BY RankingAssumption
  <2> QED  BY <2>1, <2>2, FS_Union DEF Checks
<1>3. c \in Nat /\ a \in Nat /\ a <= c
  BY <1>2, FS_Subset, FS_CardinalityType DEF Absences
<1>4. Checks(id) # {} => c # 0
  BY <1>2, FS_EmptySet
<1> HIDE DEF c, a
<1>5. CASE Checks(id) # {}
  <2> DEFINE p == (c - a) * 10000
  <2>1. p \in Nat /\ p <= 10000 * c /\ c \in Nat \ {0}
    BY <1>3, <1>4, <1>5
  <2> HIDE DEF p
  <2>2. p \div c \in Nat /\ p \div c <= 10000
    BY <2>1, ShareBound
  <2> USE DEF p
  <2> QED  BY <1>1, <1>5, <2>2
<1> QED  BY <1>1, <1>5

(* What collecting the rest of it is worth.                                 *)
LEMMA GainTyped ==
    ASSUME NEW id \in SkillIds, NEW s \in Signals
    PROVE  Gain[s][id] \in Nat /\ Gain[s][id] <= 10000
<1> DEFINE r == Readiness[s][id]
           k == Above0(Hypotheses[s] - 1)
           m == Capped(k, 3)
<1>1. r \in Nat /\ r <= 10000 /\ Hypotheses[s] \in Nat
  BY ReadinessTyped, HypothesesTyped
<1>2. k \in Nat
  BY <1>1 DEF Above0
<1>3. Gain[s][id] = ((10000 - r) * m) \div 3
  BY DEF Gain
<1> HIDE DEF r, k
<1>4. m \in {0, 1, 2, 3}
  BY <1>2 DEF Capped
<1> HIDE DEF m
<1> DEFINE p == (10000 - r) * m
<1>5. p \in Nat /\ p <= 10000 * 3
  BY <1>1, <1>4
<1> HIDE DEF p
<1>6. p \div 3 \in Nat /\ p \div 3 <= 10000
  BY <1>5
<1> QED  BY <1>3, <1>6 DEF p

(* How well a Skill is aligned with the hypotheses.                         *)
LEMMA AlignedTyped ==
    ASSUME NEW id \in SkillIds, NEW s \in Signals
    PROVE  Aligned[s][id] \in Nat /\ Aligned[s][id] <= 10000
<1> DEFINE x == (IF Hypotheses[s] > 0 THEN Asked[s].alignment[id] \div 2 ELSE 0) + Prior(id, s) \div 2
<1>1. Asked[s].alignment[id] \in Nat
  BY RankingAssumption
<1>2. Asked[s].alignment[id] \div 2 \in Nat
  BY <1>1
<1>3. Prior(id, s) \in {0, 5800, 10000}
  BY DEF Prior
<1>4. Prior(id, s) \div 2 \in Nat
  BY <1>3
<1>5. x \in Nat
  BY <1>2, <1>4
<1>6. Aligned[s][id] = Capped(x, 10000)
  BY DEF Aligned
<1> HIDE DEF x
<1> QED  BY <1>5, <1>6 DEF Capped

(* The confidence in a Skill, whatever its history.                         *)
LEMMA ConfidenceTyped ==
    ASSUME NEW id \in SkillIds, NEW s \in Signals
    PROVE  Confidence[s][id] \in Nat /\ Confidence[s][id] <= 9900
<1> DEFINE e == Asked[s].semantic[id]
           a == Aligned[s][id]
           r == Readiness[s][id]
           n == IF Hypotheses[s] > 0 THEN e * 35 + a * 35 + r * 30 ELSE e * 60 + r * 40
<1>1. e \in Nat /\ a \in Nat /\ r \in Nat
  BY AlignedTyped, ReadinessTyped, RankingAssumption
<1>2. Confidence[s][id] = Capped(n \div 100, 9900)
  BY DEF Confidence
<1> HIDE DEF e, a, r
<1>3. n \in Nat
  BY <1>1
<1> HIDE DEF n
<1>4. n \div 100 \in Nat
  BY <1>3
<1> QED  BY <1>2, <1>4 DEF Capped

(* How likely a Skill is to succeed: a share, since no more incidents are   *)
(* resolved than handled, and none that was not executed has succeeded.     *)
LEMMA PosteriorTyped ==
    ASSUME NEW t, WellCounted(t), Unjudged(t)
    PROVE  Posterior(t) \in Nat /\ Posterior(t) <= 10000
<1>1. /\ t.handled \in Nat /\ t.resolved \in Nat /\ t.executed \in Nat
      /\ t.resolved <= t.handled
  <2>1. Cardinality(Open(t.receipts)) \in Nat
    BY WellCountedFields, FS_CardinalityType
  <2> QED  BY <2>1, WellCountedFields
<1>2. CASE t.handled > 0
  <2> DEFINE p == (t.resolved + 1) * 10000
             q == t.handled + 2
  <2>1. p \in Nat /\ q \in Nat \ {0} /\ p <= 10000 * q
    BY <1>1, <1>2
  <2>2. Posterior(t) = p \div q
    BY <1>2 DEF Posterior
  <2> HIDE DEF p, q
  <2> QED  BY <2>1, <2>2, ShareBound
<1>3. CASE ~(t.handled > 0) /\ t.executed > 0
  <2>1. t.succeeded = 0
    BY <1>1, <1>3 DEF Unjudged
  <2> DEFINE p == (t.succeeded + 1) * 10000
             q == t.executed + 2
  <2>2. p \in Nat /\ q \in Nat \ {0} /\ p <= 10000 * q
    BY <1>1, <2>1
  <2>3. Posterior(t) = p \div q
    BY <1>3 DEF Posterior
  <2> HIDE DEF p, q
  <2> QED  BY <2>2, <2>3, ShareBound
<1> QED  BY <1>2, <1>3 DEF Posterior

(* How reliable a Skill was is a share as well, and never nothing.          *)
LEMMA ReliabilityTyped ==
    ASSUME NEW t, WellCounted(t), Unjudged(t)
    PROVE  Reliability(t) \in Nat /\ 1000 <= Reliability(t) /\ Reliability(t) <= 10000
<1> DEFINE failures == IF t.handled > 0 THEN ((t.handled - t.resolved) * 10000) \div t.handled
                       ELSE (t.failed * 10000) \div t.executed
           scaled == (Posterior(t) * (100000 - 35 * (failures \div 10))) \div 100000
<1>1. /\ t.handled \in Nat /\ t.resolved \in Nat /\ t.executed \in Nat
      /\ t.resolved <= t.handled /\ Posterior(t) \in Nat
  <2>1. Cardinality(Open(t.receipts)) \in Nat
    BY WellCountedFields, FS_CardinalityType
  <2> QED  BY <2>1, WellCountedFields, PosteriorTyped
<1>2. Reliability(t) = IF t.executed = 0 THEN 7000
                       ELSE IF scaled < 1000 THEN 1000 ELSE Capped(scaled, 10000)
  BY DEF Reliability
<1>3. t.executed # 0 => failures \in Int
  <2>1. CASE t.handled > 0
    <3>1. (t.handled - t.resolved) * 10000 \in Int
      BY <1>1
    <3> QED  BY <1>1, <2>1, <3>1
  <2>2. CASE ~(t.handled > 0) /\ t.executed # 0
    <3>1. t.failed * 10000 \in Int
      BY <1>1, <2>2 DEF Unjudged
    <3> QED  BY <1>1, <2>2, <3>1
  <2> QED  BY <2>1, <2>2
<1> HIDE DEF failures
<1>4. t.executed # 0 => scaled \in Int
  <2> SUFFICES ASSUME t.executed # 0  PROVE scaled \in Int
    OBVIOUS
  <2> DEFINE g == failures \div 10
  <2>1. g \in Int
    BY <1>3
  <2> HIDE DEF g
  <2>2. Posterior(t) * (100000 - 35 * g) \in Int
    BY <1>1, <2>1
  <2> QED  BY <2>2 DEF g
<1> HIDE DEF scaled
<1>5. t.executed # 0 /\ ~(scaled < 1000) => 
        /\ Capped(scaled, 10000) \in Nat /\ 1000 <= Capped(scaled, 10000)
        /\ Capped(scaled, 10000) <= 10000
  BY <1>4 DEF Capped
<1> QED  BY <1>2, <1>5

(* How the risk of a Skill scores.                                          *)
LEMMA RiskScoreTyped ==
    ASSUME NEW id
    PROVE  RiskScore(id) \in Nat /\ 4500 <= RiskScore(id) /\ RiskScore(id) <= 10000
BY DEF RiskScore

(* How far its role puts a Skill back.                                      *)
LEMMA RolePenaltyTyped ==
    ASSUME NEW id \in SkillIds, NEW s \in Signals
    PROVE  RolePenalty[s][id] \in Nat
<1> DEFINE a == IF Asked[s].concrete /\ ~Asked[s].inspecting /\ Traits[id].role = "inspection"
                THEN 1800 ELSE 0
           b == IF Traits[id].role = "supporting" /\ Prior(id, s) < 5000 THEN 1200 ELSE 0
<1>1. a \in Nat /\ b \in Nat
  OBVIOUS
<1>2. RolePenalty[s][id] = a + b
  BY DEF RolePenalty
<1> HIDE DEF a, b
<1> QED  BY <1>1, <1>2

(* What a score is made of without history.                                 *)
LEMMA FitTyped ==
    ASSUME NEW id \in SkillIds, NEW s \in Signals
    PROVE  /\ Fit[s][id] \in Nat /\ 36000 <= Fit[s][id]
           /\ Hypotheses[s] > 0 => Fit[s][id] <= 800000
           /\ ~(Hypotheses[s] > 0) => Fit[s][id] <= 720000
<1> DEFINE e == Asked[s].semantic[id]
           a == Aligned[s][id]
           r == Readiness[s][id]
           g == Gain[s][id]
           k == RiskScore(id)
           w == Weights[s]
<1>1. /\ e \in Nat /\ a \in Nat /\ r \in Nat /\ g \in Nat
      /\ e <= 10000 /\ a <= 10000 /\ r <= 10000 /\ g <= 10000
  BY AlignedTyped, ReadinessTyped, GainTyped, RankingAssumption
<1>2. k \in Nat /\ 4500 <= k /\ k <= 10000
  BY RiskScoreTyped
<1>3. w = IF Hypotheses[s] > 0
          THEN [semantic |-> 22, aligned |-> 28, ready |-> 18, success |-> 10, safe |-> 8,
                recent |-> 10]
          ELSE [semantic |-> 38, aligned |-> 0, ready |-> 20, success |-> 14, safe |-> 10,
                recent |-> 14]
  BY DEF Weights
<1>4. Fit[s][id] = e * w.semantic + a * w.aligned + r * w.ready + k * w.safe + g * 4
  BY DEF Fit
<1> HIDE DEF e, a, r, g, w, k
<1>5. CASE Hypotheses[s] > 0
  <2>1. w.semantic = 22 /\ w.aligned = 28 /\ w.ready = 18 /\ w.safe = 8
    BY <1>3, <1>5
  <2> QED  BY <1>1, <1>2, <1>4, <1>5, <2>1
<1>6. CASE ~(Hypotheses[s] > 0)
  <2>1. w.semantic = 38 /\ w.aligned = 0 /\ w.ready = 20 /\ w.safe = 10
    BY <1>3, <1>6
  <2> QED  BY <1>1, <1>2, <1>4, <1>6, <2>1
<1> QED  BY <1>5, <1>6

(* Who fits as well and is no riskier has no less of it.                    *)
LEMMA SameFitIsFit ==
    ASSUME NEW x \in SkillIds, NEW y \in SkillIds, NEW s \in Signals, SameFit(y, x, s)
    PROVE  Fit[s][x] <= Fit[s][y]
<1> DEFINE f == Asked[s].semantic[x] * Weights[s].semantic + Aligned[s][x] * Weights[s].aligned
                + Readiness[s][x] * Weights[s].ready
           g == Gain[s][x] * 4
           kx == RiskScore(x)
           ky == RiskScore(y)
           w == Weights[s]
<1>1. Fit[s][x] = f + kx * w.safe + g /\ Fit[s][y] = f + ky * w.safe + g
  BY DEF Fit, SameFit
<1>2. kx \in Nat /\ ky \in Nat /\ kx <= ky
  BY RiskScoreTyped DEF SameFit
<1>3. w.safe \in {8, 10}
  BY DEF Weights
<1>4. f \in Int /\ g \in Int
  <2> DEFINE e == Asked[s].semantic[x]
             a == Aligned[s][x]
             r == Readiness[s][x]
  <2>1. e \in Nat /\ a \in Nat /\ r \in Nat /\ Gain[s][x] \in Nat
    BY AlignedTyped, ReadinessTyped, GainTyped, RankingAssumption
  <2>2. w.semantic \in Nat /\ w.aligned \in Nat /\ w.ready \in Nat
    BY DEF Weights
  <2> HIDE DEF e, a, r, w
  <2>3. e * w.semantic + a * w.aligned + r * w.ready \in Int /\ Gain[s][x] * 4 \in Int
    BY <2>1, <2>2
  <2> QED  BY <2>3 DEF e, a, r, w
<1> HIDE DEF f, g, kx, ky, w
<1>5. kx * w.safe <= ky * w.safe /\ kx * w.safe \in Int /\ ky * w.safe \in Int
  BY <1>2, <1>3
<1> QED  BY <1>1, <1>4, <1>5

(* All the parts of a score, before the role of the Skill is considered.    *)
ScoreParts(id, s) ==
    Fit[s][id] + Posterior(tallies[id]) * Weights[s].success
        + Reliability(tallies[id]) * Weights[s].recent

(* What the parts of a score come to: history is worth 2660 of it.          *)
LEMMA HistoryWorth ==
    ASSUME RankInv, NEW x \in SkillIds, NEW y \in SkillIds, NEW s \in Signals,
           SameFit(y, x, s)
    PROVE  /\ ScoreParts(x, s) \in Nat /\ ScoreParts(y, s) \in Nat
           /\ ScoreParts(x, s) <= 1000000 /\ 46000 <= ScoreParts(y, s)
           /\ ScoreParts(x, s) <= ScoreParts(y, s) + 266000
<1> DEFINE fx == Fit[s][x]
           fy == Fit[s][y]
           w == Weights[s]
           px == Posterior(tallies[x])
           py == Posterior(tallies[y])
           lx == Reliability(tallies[x])
           ly == Reliability(tallies[y])
<1>1. /\ px \in Nat /\ py \in Nat /\ lx \in Nat /\ ly \in Nat
      /\ px <= 10000 /\ lx <= 10000 /\ 1000 <= ly
  BY PosteriorTyped, ReliabilityTyped DEF RankInv, HistoryInv
<1>2. fx <= fy
  BY SameFitIsFit
<1>3. /\ fx \in Nat /\ fy \in Nat /\ 36000 <= fy
      /\ Hypotheses[s] > 0 => fx <= 800000
      /\ ~(Hypotheses[s] > 0) => fx <= 720000
  BY FitTyped
<1>4. /\ ScoreParts(x, s) = fx + px * w.success + lx * w.recent
      /\ ScoreParts(y, s) = fy + py * w.success + ly * w.recent
  BY DEF ScoreParts
<1>5. IF Hypotheses[s] > 0 THEN w.success = 10 /\ w.recent = 10
      ELSE w.success = 14 /\ w.recent = 14
  BY DEF Weights
<1> HIDE DEF fx, fy, w, px, py, lx, ly
<1>6. CASE Hypotheses[s] > 0
  BY <1>1, <1>2, <1>3, <1>4, <1>5, <1>6
<1>7. CASE ~(Hypotheses[s] > 0)
  BY <1>1, <1>2, <1>3, <1>4, <1>5, <1>7
<1> QED  BY <1>6, <1>7

(* The score, of what is left after the penalties.                          *)
Blended(left, c) == Capped((left * 65 + c * 35) \div 100, 9900)

(* More is left, more it scores, below the cap.                             *)
LEMMA RankedGrows ==
    ASSUME NEW u \in Nat, NEW v \in Nat, NEW c \in Nat,
           u <= v, u <= 7000, c <= 9900
    PROVE  /\ Blended(u, c) <= Blended(v, c) /\ (u + 300 <= v => Blended(u, c) < Blended(v, c))
           /\ Blended(u, c) \in Nat /\ Blended(v, c) \in Nat
<1> DEFINE i == (u * 65 + c * 35) \div 100
           j == (v * 65 + c * 35) \div 100
<1>1. i \in Nat /\ j \in Nat /\ i <= j /\ i < 9900 /\ (u + 300 <= v => i < j)
  OBVIOUS
<1>2. Blended(u, c) = Capped(i, 9900) /\ Blended(v, c) = Capped(j, 9900)
  BY DEF Blended
<1> HIDE DEF i, j
<1>3. Capped(i, 9900) = i /\ Capped(j, 9900) = IF 9900 <= j THEN 9900 ELSE j
  BY <1>1 DEF Capped
<1> QED  BY <1>1, <1>2, <1>3, SMTT(20)

(* A score is what is left of the parts, and the confidence in the Skill.   *)
LEMMA ScoreRanked ==
    ASSUME NEW id, NEW s
    PROVE  Score(id, s) =
               Blended(Above0(RawScore(id, s) - FailurePenalty(id, s)), Confidence[s][id])
BY DEF Score, Blended

(* The confidence is that of the fit.                                       *)
LEMMA FitIsConfidence ==
    ASSUME NEW x \in SkillIds, NEW y \in SkillIds, NEW s \in Signals, SameFit(y, x, s)
    PROVE  Confidence[s][y] = Confidence[s][x]
<1> DEFINE confidence(e, a, r) ==
              Capped((IF Hypotheses[s] > 0 THEN e * 35 + a * 35 + r * 30
                      ELSE e * 60 + r * 40) \div 100, 9900)
<1>1. /\ Confidence[s][x] = confidence(Asked[s].semantic[x], Aligned[s][x], Readiness[s][x])
      /\ Confidence[s][y] = confidence(Asked[s].semantic[y], Aligned[s][y], Readiness[s][y])
  BY DEF Confidence
<1> HIDE DEF confidence
<1> QED  BY <1>1 DEF SameFit

(* Whatever the history, a Skill that failed yields.                        *)
LEMMA FailedYields ==
    ASSUME RankInv
    PROVE  FailedSkillYields
<1> SUFFICES ASSUME NEW s \in Signals, NEW x \in SkillIds \cap Attempted[s],
                    NEW y \in SkillIds \ Attempted[s],
                    ~Continues(x), SameFit(y, x, s)
             PROVE  \/ Score(x, s) < Score(y, s)
                    \/ RolePenalty[s][y] > 0 /\ Score(x, s) = Score(y, s)
  <2>1. ASSUME NEW p \in Rivals
        PROVE  /\ p.query \in Signals /\ p.failed \in SkillIds \cap Attempted[p.query]
               /\ p.fresh \in SkillIds \ Attempted[p.query]
               /\ SameFit(p.fresh, p.failed, p.query)
    BY DEF Rivals
  <2> QED  BY <2>1 DEF FailedSkillYields
<1> DEFINE a == ScoreParts(x, s) \div 100
           b == ScoreParts(y, s) \div 100
           p == RolePenalty[s][x]
           q == RolePenalty[s][y]
           c == Confidence[s][x]
<1>1. x \in SkillIds /\ y \in SkillIds
  OBVIOUS
<1>2. FailurePenalty(x, s) = 3000 /\ FailurePenalty(y, s) = 0
  BY DEF FailurePenalty
<1>3. Confidence[s][y] = c
  BY <1>1, FitIsConfidence
<1> DEFINE u == Above0(RawScore(x, s) - 3000)
           v == RawScore(y, s)
<1>4. RawScore(x, s) = Above0(a - p) /\ RawScore(y, s) = Above0(b - q)
  BY DEF RawScore, ScoreParts
<1>5. a \in Nat /\ b \in Nat /\ a <= 10000 /\ 460 <= b /\ a <= b + 2660
  <2> DEFINE m == ScoreParts(x, s)
             n == ScoreParts(y, s)
  <2>1. m \in Nat /\ n \in Nat /\ m <= 1000000 /\ 46000 <= n /\ m <= n + 266000
    BY <1>1, HistoryWorth, SMT
  <2> HIDE DEF m, n
  <2>2. /\ m \div 100 \in Nat /\ n \div 100 \in Nat /\ m \div 100 <= 10000
        /\ 460 <= n \div 100 /\ m \div 100 <= n \div 100 + 2660
    BY <2>1, SMT
  <2> QED  BY <2>2 DEF m, n
<1>6. p \in Nat /\ q \in Nat /\ q <= p
  BY <1>1, RolePenaltyTyped DEF SameFit
<1>7. c \in Nat /\ c <= 9900
  BY <1>1, ConfidenceTyped
<1>8. u = Above0(Above0(a - p) - 3000) /\ v = Above0(b - q)
  BY <1>4
<1>9. Score(x, s) = Blended(u, c)
  BY <1>2, ScoreRanked
<1>10. Score(y, s) = Blended(Above0(v - 0), c)
  BY <1>2, <1>3, ScoreRanked
<1> HIDE DEF a, b, p, q, c, u, v
(* 3000 is more than the 2660 that history is worth.                        *)
<1>11. u \in Nat /\ v \in Nat /\ u <= v /\ u <= 7000 /\ (q = 0 => u + 300 <= v)
  BY <1>5, <1>6, <1>8, SMTT(20) DEF Above0
<1>12. Above0(v - 0) = v
  BY <1>11 DEF Above0
<1>13. /\ Blended(u, c) <= Blended(v, c) /\ (u + 300 <= v => Blended(u, c) < Blended(v, c))
       /\ Blended(u, c) \in Nat /\ Blended(v, c) \in Nat
  BY <1>7, <1>11, RankedGrows
<1>14. /\ Score(x, s) <= Score(y, s) /\ (q = 0 => Score(x, s) < Score(y, s))
       /\ Score(x, s) \in Nat /\ Score(y, s) \in Nat
  BY <1>9, <1>10, <1>11, <1>12, <1>13
<1>15. Score(x, s) < Score(y, s) \/ (q > 0 /\ Score(x, s) = Score(y, s))
  BY <1>6, <1>14
<1> QED  BY <1>15 DEF q

(* What became of incidents adds up, and what failed yields.                *)
THEOREM HistorySound == SkillsSpec => []HistoryIsSound
<1>1. RankInv /\ OutcomesAddUp => HistoryIsSound
  BY FailedYields DEF HistoryIsSound
<1> QED  BY <1>1, RankInvariant, OutcomesAlwaysAddUp, PTL


-----------------------------------------------------------------------------
(* ChatDiagnosis. The Pod whose evidence is read is of the target from      *)
(* the moment it is picked, and what is put up is bound to the target       *)
(* whatever was proposed.                                                   *)

(* What is known of the Pod a question is about.                            *)
ChatContexts == [source : {"", "local", "rancher", "kubeconfig"}, pods : SUBSET ChatPods, pod : ChatPods \cup {""},
                 deep : BOOLEAN]
(* Changes of the catalogue.                                                *)
KnownChanges == {x \in ChatChange : x.type \in Catalog}
(* Questions on their way.                                                  *)
ChatRecords == [stage : ChatStages, ask : ChatQuestion, cx : ChatContexts,
                cause : {"", "known", "unknown", "missing"}, changes : SUBSET KnownChanges,
                replaced : SUBSET KnownChanges, skilled : BOOLEAN, approval : BOOLEAN,
                incident : BOOLEAN, postmortem : BOOLEAN]

(* The Pod of the evidence is the one that is named, or leads to what is.   *)
Leads(pod, ask) ==
    \/ ask.pod # "" /\ Sits[pod].name = ask.pod
    \/ ask.workload # "" /\ MatchesWorkload(pod, ask.workload)
    \/ ask.workload = "" /\ ask.pod = ""

(* A change of an answer is of what is named, or of the Pod of the evidence. *)
IsBound(x, ask, pod) ==
    /\ ask.workload # "" /\ x.type \in BoundSteps =>
           x.workload \in {ask.workload} \cup (IF pod # "" THEN {Sits[pod].workload} ELSE {})
    /\ ask.pod # "" /\ x.type \in PodSteps => x.pod = ask.pod

(* One that a Skill brings may be of what the model named in a change that  *)
(* is not bound, and rebuild the Pod of the evidence.                       *)
IsSkillBound(x, r) ==
    LET pod == r.cx.pod
        owner == IF pod # "" THEN {Sits[pod].workload} ELSE {}
        unbound == {y.workload : y \in {y \in r.replaced : y.type \notin BoundSteps}}
    IN
    /\ r.ask.workload # "" /\ x.type \in BoundSteps =>
           x.workload \in {r.ask.workload} \cup owner \cup unbound
    /\ r.ask.pod # "" /\ x.type \in PodSteps =>
           x.pod = r.ask.pod \/ (pod # "" /\ x.pod = Sits[pod].name)

(* The stages after the decision whether a plan needs approval.             *)
Planning == {"decided", "healing", "postmortem", "summarize", "answered"}

(* A question at any stage: what was found leads to its target, a plan waits *)
(* for its approval, and the answer is bound.                               *)
ChatSound(r) ==
    /\ r \in ChatRecords
    /\ r.stage \in {"idle", "asked"} => r.cx.pod = ""
    /\ r.stage = "asked" => r.ask.cluster \in DOMAIN Access \cup {"all"}
    /\ r.stage \in {"selected", "looking"} => r.cx.pod # ""
    /\ r.cx.pod # "" => Leads(r.cx.pod, r.ask)
    /\ r.stage \in Planning /\ r.changes # {} => r.approval \/ r.skilled
    /\ r.stage = "answered" /\ ~r.skilled =>
           \A x \in r.changes : IsBound(x, r.ask, r.cx.pod)
    /\ r.stage = "answered" /\ r.skilled => \A x \in r.changes : IsSkillBound(x, r)
    /\ r.skilled => r.stage = "answered"

(* The inductive invariant of the chat.                                     *)
ChatInv ==
    /\ alive \subseteq ChatPods /\ traces \subseteq Chats /\ chatMoves \in 0 .. MaxChatMoves
    /\ written = {}
    /\ chats \in [Chats -> ChatRecords]
    /\ \A c \in Chats : ChatSound(chats[c])

(* A question that was not asked, or that failed.                           *)
LEMMA UnaskedSound ==
    ASSUME NEW stage \in {"idle", "failed"}, NEW ask \in ChatQuestion
    PROVE  /\ Unasked \in ChatRecords /\ ChatSound(Unasked)
           /\ ChatSound([Unasked EXCEPT !.stage = stage, !.ask = ask])
<1>1. NoContext \in ChatContexts /\ NoContext.pod = ""
  BY DEF NoContext, Context, ChatContexts
<1>2. NoQuestion \in ChatQuestion
  BY ChatAssumption DEF NoQuestion, ChatQuestion
<1>3. /\ Unasked \in ChatRecords /\ Unasked.cx = NoContext /\ Unasked.changes = {}
      /\ Unasked.stage = "idle" /\ Unasked.skilled = FALSE
  BY <1>1, <1>2 DEF Unasked, ChatRecords, ChatStages
<1>4. ChatSound(Unasked)
  BY <1>1, <1>3 DEF ChatSound, Planning
<1> DEFINE r == [Unasked EXCEPT !.stage = stage, !.ask = ask]
<1>5. /\ r \in ChatRecords /\ r.stage = stage /\ r.cx = Unasked.cx
      /\ r.changes = Unasked.changes /\ r.skilled = Unasked.skilled
  BY <1>3 DEF ChatRecords, ChatStages
<1> HIDE DEF r
<1>6. ChatSound(r)
  BY <1>1, <1>3, <1>5 DEF ChatSound, Planning
<1> QED  BY <1>3, <1>4, <1>6 DEF r

(* What was never asked is a question.                                      *)
LEMMA NothingAsked == NoQuestion \in ChatQuestion
BY ChatAssumption DEF NoQuestion, ChatQuestion

(* A step of one question.                                                  *)
LEMMA OneChatMoves ==
    ASSUME ChatInv, NEW c \in Chats, NEW r, ChatSound(r), chats' = [chats EXCEPT ![c] = r],
           traces' \subseteq Chats, UNCHANGED <<alive, written, chatMoves>>
    PROVE  ChatInv'
<1>1. r \in ChatRecords
  BY DEF ChatSound
<1>2. chats' \in [Chats -> ChatRecords] /\ \A d \in Chats : chats'[d] \in {r, chats[d]}
  BY <1>1 DEF ChatInv
<1>3. \A d \in Chats : ChatSound(chats'[d])
  BY <1>2 DEF ChatInv
<1> QED  BY <1>2, <1>3 DEF ChatInv

(* A question that begins has nothing yet.                                  *)
LEMMA AskedSound ==
    ASSUME NEW r, ChatSound(r), r.stage = "idle", NEW ask \in ChatQuestion,
           NEW stage \in {"asked", "graph"},
           stage = "asked" => ask.cluster \in DOMAIN Access \cup {"all"}
    PROVE  ChatSound([r EXCEPT !.ask = ask, !.stage = stage])
<1> DEFINE new == [r EXCEPT !.ask = ask, !.stage = stage]
<1>1. r \in ChatRecords
  BY DEF ChatSound
<1>2. /\ new \in ChatRecords /\ new.stage = stage /\ new.ask = ask /\ new.cx = r.cx
      /\ new.skilled = r.skilled
  BY <1>1 DEF ChatRecords, ChatStages
<1> HIDE DEF new
<1>3. ChatSound(new)
  BY <1>2 DEF ChatSound, Planning
<1> QED  BY <1>3 DEF new

(* Another context: of the Pod that leads to the target, or of none.        *)
LEMMA FoundSound ==
    ASSUME NEW r, ChatSound(r), NEW cx \in ChatContexts,
           NEW stage \in {"selected", "graph", "looking", "collected"},
           cx.pod # "" => Leads(cx.pod, r.ask), r.stage # "answered",
           stage \in {"selected", "looking"} => cx.pod # ""
    PROVE  ChatSound([r EXCEPT !.stage = stage, !.cx = cx])
<1> DEFINE new == [r EXCEPT !.stage = stage, !.cx = cx]
<1>1. r \in ChatRecords
  BY DEF ChatSound
<1>2. /\ new \in ChatRecords /\ new.stage = stage /\ new.ask = r.ask /\ new.cx = cx
      /\ new.skilled = r.skilled
  BY <1>1 DEF ChatRecords, ChatStages
<1> HIDE DEF new
<1>3. ChatSound(new)
  BY <1>2 DEF ChatSound, Planning
<1> QED  BY <1>3 DEF new

(* The next stage, where nothing else changes.                              *)
LEMMA MovedSound ==
    ASSUME NEW r, ChatSound(r),
           NEW stage \in ChatStages \ {"idle", "asked", "selected", "looking", "answered"},
           stage \in Planning => r.stage \in Planning, r.stage # "answered"
    PROVE  ChatSound([r EXCEPT !.stage = stage])
<1> DEFINE new == [r EXCEPT !.stage = stage]
<1>1. r \in ChatRecords
  BY DEF ChatSound
<1>2. /\ new \in ChatRecords /\ new.stage = stage /\ new.ask = r.ask /\ new.cx = r.cx
      /\ new.changes = r.changes /\ new.approval = r.approval /\ new.skilled = r.skilled
  BY <1>1 DEF ChatRecords
<1> HIDE DEF new
<1>3. ChatSound(new)
  BY <1>2 DEF ChatSound
<1> QED  BY <1>3 DEF new

(* Which Pod is found for a question.                                       *)
LEMMA RepresentativeLeads ==
    ASSUME NEW candidates \in SUBSET ChatPods, NEW ask \in ChatQuestion
    PROVE  /\ \A p \in Representative(candidates, ask) : p \in ChatPods /\ Leads(p, ask)
           /\ \A p \in EvidencePod(candidates, ask) : p \in ChatPods /\ Leads(p, ask)
BY DEF Representative, EvidencePod, MostTelling, Leads, MatchesWorkload

(* What an inventory shows is a context.                                    *)
LEMMA ContextTyped ==
    ASSUME NEW source \in {"", "local", "rancher", "kubeconfig"}, NEW candidates \in SUBSET ChatPods,
           NEW pod \in ChatPods \cup {""}
    PROVE  /\ Context(source, candidates, pod, FALSE) \in ChatContexts
           /\ Context(source, candidates, pod, FALSE).pod = pod
BY DEF Context, ChatContexts

(* An inventory that shows nothing leads to no Pod.                         *)
LEMMA NothingFound == NoContext \in ChatContexts /\ NoContext.pod = ""
BY ContextTyped DEF NoContext

(* What is known of one question.                                           *)
LEMMA ChatTyped ==
    ASSUME ChatInv, NEW c \in Chats
    PROVE  /\ ChatSound(chats[c]) /\ chats[c] \in ChatRecords /\ chats[c].ask \in ChatQuestion
           /\ chats[c].cx \in ChatContexts /\ chats[c].changes \subseteq KnownChanges
BY DEF ChatInv, ChatRecords

(* A question is asked, and its target comes from it.                       *)
LEMMA AskKeepsChat ==
    ASSUME ChatInv, NEW c \in Chats, NEW ask \in Questions, AskChat(c, ask)
    PROVE  ChatInv'
<1> DEFINE stage == IF ask.cluster \in DOMAIN Access \cup {"all"} THEN "asked" ELSE "graph"
           r == [chats[c] EXCEPT !.ask = ask, !.stage = stage]
<1>1. ask \in ChatQuestion
  BY ChatAssumption
<1>2. chats' = [chats EXCEPT ![c] = r]
  BY ChatTyped DEF AskChat, ChatInv, ChatRecords
<1>3. chats[c].stage = "idle" /\ UNCHANGED <<alive, traces, written, chatMoves>>
  BY DEF AskChat
<1>4. stage \in {"asked", "graph"} /\ (stage = "asked" => ask.cluster \in DOMAIN Access \cup {"all"})
  OBVIOUS
<1> HIDE DEF stage
<1>5. ChatSound(r)
  BY <1>1, <1>3, <1>4, ChatTyped, AskedSound
<1> HIDE DEF r
<1> QED  BY <1>2, <1>3, <1>5, OneChatMoves DEF ChatInv

(* The inventory picks a Pod of the target.                                 *)
LEMMA InventoryKeepsChat ==
    ASSUME ChatInv, NEW c \in Chats, Inventory(c)
    PROVE  ChatInv'
<1> DEFINE ask == chats[c].ask
           candidates == ChatListing(ask)
<1>1. /\ ask \in ChatQuestion /\ ChatSound(chats[c]) /\ candidates \in SUBSET ChatPods
      /\ chats[c].stage = "asked"
  BY ChatTyped DEF ChatListing, ChatInv, Inventory
<1>2. SourceOf(ask) \in {"rancher", "kubeconfig"}
  BY <1>1, ChatAssumption DEF SourceOf, Inventory, ChatSound
<1>3. PICK stage \in {"selected", "graph"}, cx \in ChatContexts :
        /\ chats' = [chats EXCEPT ![c].stage = stage, ![c].cx = cx]
        /\ cx.pod # "" => Leads(cx.pod, ask)
        /\ stage = "selected" => cx.pod # ""
  <2>1. CASE \E p \in Representative(candidates, ask) :
               chats' = [chats EXCEPT ![c].stage = "selected",
                             ![c].cx = Context(SourceOf(ask), candidates, p, FALSE)]
    <3>1. PICK p \in Representative(candidates, ask) :
               chats' = [chats EXCEPT ![c].stage = "selected",
                             ![c].cx = Context(SourceOf(ask), candidates, p, FALSE)]
      BY <2>1
    <3>2. p \in ChatPods /\ Leads(p, ask)
      BY <1>1, RepresentativeLeads
    <3>3. p # ""
      BY <3>2, ChatAssumption
    <3> DEFINE cx == Context(SourceOf(ask), candidates, p, FALSE)
    <3>4. cx \in ChatContexts /\ cx.pod = p
      <4>1. SourceOf(ask) \in {"", "local", "rancher", "kubeconfig"} /\ p \in ChatPods \cup {""}
        BY <1>2, <3>2
      <4> HIDE DEF ask, candidates
      <4> QED  BY <1>1, <4>1, ContextTyped
    <3> HIDE DEF cx
    <3>5. chats' = [chats EXCEPT ![c].stage = "selected", ![c].cx = cx]
      BY <3>1 DEF cx
    <3> QED  BY <3>2, <3>3, <3>4, <3>5
  <2> DEFINE listed == IF ask.cluster = "all" THEN candidates ELSE {}
  <2>2. CASE \E cx \in {Context(SourceOf(ask), listed, "", FALSE), NoContext} :
               chats' = [chats EXCEPT ![c].stage = "graph", ![c].cx = cx]
    <3>1. \A cx \in {Context(SourceOf(ask), listed, "", FALSE), NoContext} :
             cx \in ChatContexts /\ cx.pod = ""
      <4>1. SourceOf(ask) \in {"", "local", "rancher", "kubeconfig"} /\ "" \in ChatPods \cup {""}
        BY <1>2
      <4>2. listed \in SUBSET ChatPods
        BY <1>1
      <4> DEFINE source == SourceOf(ask)  none == ""
      <4> HIDE DEF ask, listed, source, none
      <4>3. Context(source, listed, none, FALSE) \in ChatContexts
            /\ Context(source, listed, none, FALSE).pod = none
        BY ZenonT(30), <4>1, <4>2, ContextTyped DEF source, none
      <4> QED  BY <4>3, NothingFound DEF source, none
    <3> QED  BY <2>2, <3>1
  <2> QED  BY <2>1, <2>2 DEF Inventory
<1> DEFINE r == [chats[c] EXCEPT !.stage = stage, !.cx = cx]
<1>4. chats' = [chats EXCEPT ![c] = r]
  BY <1>3, ChatTyped DEF ChatInv, ChatRecords
<1>5. ChatSound(r)
  BY <1>1, <1>3, FoundSound
<1> HIDE DEF r
<1> QED  BY <1>4, <1>5, OneChatMoves DEF ChatInv, Inventory

(* What the answer is bound to does not depend on the cluster.              *)
LEMMA DeepenKeepsChat ==
    ASSUME ChatInv, NEW c \in Chats, Deepen(c)
    PROVE  ChatInv'
<1> DEFINE old == chats[c]
           p == old.cx.pod
           deep == p \in alive
           ask == IF old.ask.cluster = "all"
                  THEN [old.ask EXCEPT !.cluster = Sits[p].cluster, !.namespace = Sits[p].namespace]
                  ELSE old.ask
           cx == [old.cx EXCEPT !.deep = deep]
           r == [old EXCEPT !.stage = "graph", !.cx = cx, !.ask = ask]
<1>1. /\ ChatSound(old) /\ old \in ChatRecords /\ old.ask \in ChatQuestion
      /\ old.cx \in ChatContexts /\ old.stage = "selected"
  BY ChatTyped DEF Deepen
<1>2. p \in ChatPods /\ Leads(p, old.ask)
  BY <1>1 DEF ChatSound, ChatContexts
<1>3. ask \in ChatQuestion /\ Leads(p, ask)
  <2>1. Sits[p].cluster \in Words /\ Sits[p].namespace \in Words
    BY <1>2, ChatAssumption
  <2>2. ask \in ChatQuestion /\ ask.workload = old.ask.workload /\ ask.pod = old.ask.pod
    BY <1>1, <2>1 DEF ChatQuestion
  <2> HIDE DEF ask
  <2> QED  BY <1>2, <2>2 DEF Leads
<1>4. cx \in ChatContexts /\ cx.pod = p
  <2>1. deep \in BOOLEAN
    OBVIOUS
  <2> HIDE DEF deep
  <2> QED  BY <1>1, <2>1 DEF ChatContexts
<1>5. chats' = [chats EXCEPT ![c] = r]
  <2> HIDE DEF deep, ask
  <2> QED  BY <1>1 DEF Deepen, ChatInv, ChatRecords, deep, ask
<1>6. ChatSound(r)
  <2> HIDE DEF ask, cx
  <2>1. /\ r \in ChatRecords /\ r.stage = "graph" /\ r.ask = ask /\ r.cx = cx
        /\ r.skilled = old.skilled
    BY <1>1, <1>3, <1>4 DEF ChatRecords, ChatStages
  <2> HIDE DEF r
  <2> QED  BY <1>1, <1>3, <1>4, <2>1 DEF ChatSound, Planning
<1> HIDE DEF r
<1> QED  BY <1>5, <1>6, OneChatMoves DEF ChatInv, Deepen

(* Without an inventory there is no Pod.                                    *)
LEMMA ContextFailsKeepsChat ==
    ASSUME ChatInv, NEW c \in Chats, ContextFails(c)
    PROVE  ChatInv'
<1> DEFINE cx == IF chats[c].ask.cluster = "all" THEN Context("rancher", {}, "", FALSE) ELSE NoContext
           r == [chats[c] EXCEPT !.stage = "graph", !.cx = cx]
<1>1. cx \in ChatContexts /\ cx.pod = ""
  BY ContextTyped, NothingFound
<1>2. chats' = [chats EXCEPT ![c] = r]
  BY ChatTyped DEF ContextFails, ChatInv, ChatRecords
<1> HIDE DEF cx
<1>3. ChatSound(r)
  BY <1>1, ChatTyped, FoundSound DEF ContextFails
<1> HIDE DEF r
<1> QED  BY <1>2, <1>3, OneChatMoves DEF ChatInv, ContextFails

(* What came along is kept; in the local cluster the Pod is of the target.  *)
LEMMA CollectKeepsChat ==
    ASSUME ChatInv, NEW c \in Chats, CollectContext(c)
    PROVE  ChatInv'
<1> DEFINE old == chats[c]
           local == {p \in alive : Sits[p].cluster = "local" /\ Sits[p].namespace = old.ask.namespace}
<1>0. /\ ChatSound(old) /\ old \in ChatRecords /\ old.ask \in ChatQuestion
      /\ old.cx \in ChatContexts /\ old.stage = "graph" /\ local \in SUBSET ChatPods
  BY ChatTyped DEF CollectContext, ChatInv
<1>1. traces' \subseteq Chats /\ UNCHANGED <<alive, written, chatMoves>>
  BY DEF CollectContext, ChatInv
<1>2. CASE chats' = [chats EXCEPT ![c].stage = "collected"]
  <2> DEFINE r == [old EXCEPT !.stage = "collected"]
  <2>1. chats' = [chats EXCEPT ![c] = r]
    BY <1>0, <1>2 DEF ChatInv
  <2>2. ChatSound(r)
    BY <1>0, MovedSound DEF ChatStages, Planning
  <2> HIDE DEF r
  <2> QED  BY <1>1, <2>1, <2>2, OneChatMoves
<1>3. CASE \E p \in EvidencePod(local, old.ask)
                    \cup (IF EvidencePod(local, old.ask) = {} THEN {""} ELSE {}) :
              chats' = [chats EXCEPT ![c].stage = IF p = "" THEN "collected" ELSE "looking",
                                     ![c].cx = Context("local", local, p, FALSE)]
  <2>1. PICK p \in EvidencePod(local, old.ask) \cup {""} :
              chats' = [chats EXCEPT ![c].stage = IF p = "" THEN "collected" ELSE "looking",
                                     ![c].cx = Context("local", local, p, FALSE)]
    BY <1>3
  <2> DEFINE stage == IF p = "" THEN "collected" ELSE "looking"
             cx == Context("local", local, p, FALSE)
             r == [old EXCEPT !.stage = stage, !.cx = cx]
  <2>2. p \in ChatPods \cup {""} /\ (p # "" => Leads(p, old.ask))
    BY <1>0, <2>1, RepresentativeLeads
  <2>3. cx \in ChatContexts /\ cx.pod = p
    BY <1>0, <2>2, ContextTyped
  <2>4. stage \in {"collected", "looking"} /\ (stage = "looking" => p # "")
    OBVIOUS
  <2>5. chats' = [chats EXCEPT ![c] = r]
    BY <1>0, <2>1 DEF ChatInv, ChatRecords
  <2> HIDE DEF stage, cx
  <2>6. ChatSound(r)
    BY <1>0, <2>2, <2>3, <2>4, FoundSound
  <2> HIDE DEF r
  <2> QED  BY <1>1, <2>5, <2>6, OneChatMoves
<1> QED  BY <1>2, <1>3 DEF CollectContext

(* Looking at the state of the Pod changes no target.                       *)
LEMMA LookKeepsChat ==
    ASSUME ChatInv, NEW c \in Chats, Look(c)
    PROVE  ChatInv'
<1> DEFINE old == chats[c]
           deep == old.cx.pod \in alive
           cx == [old.cx EXCEPT !.deep = deep]
           r == [old EXCEPT !.stage = "collected", !.cx = cx]
<1>1. /\ ChatSound(old) /\ old \in ChatRecords /\ old.cx \in ChatContexts
      /\ old.stage = "looking"
  BY ChatTyped DEF Look
<1>2. cx \in ChatContexts /\ cx.pod = old.cx.pod
  <2>1. deep \in BOOLEAN
    OBVIOUS
  <2> HIDE DEF deep
  <2> QED  BY <1>1, <2>1 DEF ChatContexts
<1>3. chats' = [chats EXCEPT ![c] = r]
  BY <1>1 DEF Look, ChatInv, ChatRecords
<1> HIDE DEF cx
<1>4. ChatSound(r)
  <2>1. cx.pod # "" => Leads(cx.pod, old.ask)
    BY <1>1, <1>2 DEF ChatSound
  <2> QED  BY <1>1, <1>2, <2>1, FoundSound
<1> HIDE DEF r
<1> QED  BY <1>3, <1>4, OneChatMoves DEF ChatInv, Look

(* A question fails: its target is all that is left.                        *)
LEMMA FailureKeepsChat ==
    ASSUME ChatInv, NEW c \in Chats, GraphRaises(c) \/ CauseMissing(c)
    PROVE  ChatInv'
<1> DEFINE r == [Unasked EXCEPT !.stage = "failed", !.ask = chats[c].ask]
<1>1. /\ chats' = [chats EXCEPT ![c] = r] /\ traces' \subseteq Chats
      /\ UNCHANGED <<alive, written, chatMoves>>
  BY DEF GraphRaises, CauseMissing, ChatInv
<1>2. ChatSound(r)
  BY ChatTyped, UnaskedSound
<1> HIDE DEF r
<1> QED  BY <1>1, <1>2, OneChatMoves

(* The engine's changes are in the catalogue.                               *)
LEMMA StepKnown ==
    ASSUME NEW type \in Catalog, NEW at, at.namespace \in Words, at.workload \in Words,
           at.pod \in Words
    PROVE  Step(type, at) \in KnownChanges
<1>1. type \in Words /\ "" \in Words
  BY ChatAssumption
<1> QED  BY <1>1 DEF Step, KnownChanges, ChatChange

(* The repairs of the engine are in the catalogue.                          *)
LEMMA RepairsKnown ==
    ASSUME NEW e, NEW r, NEW at, at.namespace \in Words, at.workload \in Words, at.pod \in Words
    PROVE  Repairs(e, r, at) \subseteq KnownChanges /\ Step("recreate_pod", at) \in KnownChanges
<1>1. /\ Step("patch_workload", at) \in KnownChanges
      /\ Step("rollback_workload", at) \in KnownChanges
      /\ Step("patch_service_account", at) \in KnownChanges
      /\ Step("create_configmap", at) \in KnownChanges
      /\ Step("scale_out", at) \in KnownChanges
      /\ Step("cordon_node", at) \in KnownChanges
      /\ Step("recreate_pod", at) \in KnownChanges
  BY StepKnown DEF Catalog, BoundSteps, RenamedSteps, WorkloadSteps, PodSteps
<1> QED  BY <1>1 DEF Repairs

(* So is the plan it makes.                                                 *)
LEMMA EnginePlanKnown ==
    ASSUME NEW e, NEW at, at.namespace \in Words, at.workload \in Words, at.pod \in Words
    PROVE  EnginePlan(e, at) \subseteq KnownChanges
BY RepairsKnown DEF EnginePlan

(* The target of a plan is named by the question or by its Pod.             *)
LEMMA TargetTyped ==
    ASSUME NEW ask \in ChatQuestion, NEW p \in ChatPods \cup {""}
    PROVE  /\ TargetIn(ask, p).namespace \in Words /\ TargetIn(ask, p).workload \in Words
           /\ TargetIn(ask, p).pod \in Words
<1>1. ask.namespace \in Words /\ ask.workload \in Words /\ ask.pod \in Words
  BY DEF ChatQuestion
<1>2. p # "" => Sits[p].workload \in Words /\ Sits[p].name \in Words
  BY ChatAssumption
<1> DEFINE workload == IF ask.workload # "" \/ p = "" THEN ask.workload ELSE Sits[p].workload
           pod == IF ask.pod # "" \/ p = "" THEN ask.pod ELSE Sits[p].name
<1>3. workload \in Words /\ pod \in Words
  BY <1>1, <1>2
<1>4. /\ TargetIn(ask, p).namespace = ask.namespace /\ TargetIn(ask, p).workload = workload
      /\ TargetIn(ask, p).pod = pod
  BY DEF TargetIn
<1> HIDE DEF workload, pod
<1> QED  BY <1>1, <1>3, <1>4

(* Without a model the cause is known or not.                               *)
LEMMA FallbackTyped ==
    ASSUME NEW e
    PROVE  Fallback(e).cause \in {"known", "unknown"}
BY DEF Fallback

(* What is put up are changes of the catalogue: the model's, or the engine's. *)
LEMMA DiagnosisTyped ==
    ASSUME NEW cx \in ChatContexts, NEW ask \in ChatQuestion, NEW answer,
           \/ answer \in Answers
           \/ answer.changes = {} /\ answer.cause \in {"known", "unknown"},
           NEW p \in TargetPods(cx), NEW e
    PROVE  /\ answer.cause \in {"known", "unknown", "missing"}
           /\ Adopted(answer, EnginePlan(e, TargetIn(ask, p))) \subseteq KnownChanges
<1>1. answer.cause \in {"known", "unknown", "missing"} /\ answer.changes \subseteq ChatChange
  BY ChatAssumption
<1>2. p \in ChatPods \cup {""}
  BY DEF TargetPods, ChatContexts
<1>3. EnginePlan(e, TargetIn(ask, p)) \subseteq KnownChanges
  BY <1>2, TargetTyped, EnginePlanKnown
<1> QED  BY <1>1, <1>3 DEF Adopted, KnownChanges

(* A diagnosis has a cause and a plan.                                      *)
LEMMA DiagnoseKeepsChat ==
    ASSUME ChatInv, NEW c \in Chats, Diagnose(c)
    PROVE  ChatInv'
<1> DEFINE old == chats[c]
           ask == old.ask
           cx == old.cx
           without == Fallback(EvidenceIn(cx, ask, {}))
           none == [cause |-> without.cause, terms |-> without.terms, changes |-> {}]
           plan(answer, p) ==
               Adopted(answer, EnginePlan(EvidenceIn(cx, ask, answer.terms), TargetIn(ask, p)))
<1>0. /\ ChatSound(old) /\ old \in ChatRecords /\ ask \in ChatQuestion /\ cx \in ChatContexts
      /\ old.stage = "collected" /\ UNCHANGED <<alive, traces, written, chatMoves>>
  BY ChatTyped DEF Diagnose
<1>1. PICK answer \in Answers \cup {none}, p \in TargetPods(cx) :
         chats' = [chats EXCEPT ![c].stage = "diagnosed", ![c].cause = answer.cause,
                                ![c].changes = plan(answer, p)]
  BY DEF Diagnose
<1>2. \/ answer \in Answers
      \/ answer.changes = {} /\ answer.cause \in {"known", "unknown"}
  BY FallbackTyped
<1> DEFINE cause == answer.cause
           changes == plan(answer, p)
           r == [old EXCEPT !.stage = "diagnosed", !.cause = cause, !.changes = changes]
<1> HIDE DEF none, cx, ask
<1>3. cause \in {"known", "unknown", "missing"} /\ changes \subseteq KnownChanges
  BY <1>0, <1>2, DiagnosisTyped
<1> HIDE DEF cause, changes, plan
<1>4. chats' = [chats EXCEPT ![c] = r]
  BY <1>0, <1>1 DEF ChatInv, ChatRecords, cause, changes
<1>5. /\ r \in ChatRecords /\ r.stage = "diagnosed" /\ r.ask = old.ask /\ r.cx = old.cx
      /\ r.skilled = old.skilled
  BY <1>0, <1>3 DEF ChatRecords, ChatStages
<1> HIDE DEF r
<1>6. ChatSound(r)
  BY <1>0, <1>5 DEF ChatSound, Planning
<1> QED  BY <1>0, <1>4, <1>6, OneChatMoves DEF ChatInv

(* A plan waits for an approval.                                            *)
LEMMA DecideKeepsChat ==
    ASSUME ChatInv, NEW c \in Chats, DecideAction(c)
    PROVE  ChatInv'
<1> DEFINE old == chats[c]
           approval == old.changes # {}
           r == [old EXCEPT !.stage = "decided", !.approval = approval]
<1>0. /\ ChatSound(old) /\ old \in ChatRecords /\ old.stage = "diagnosed"
      /\ UNCHANGED <<alive, traces, written, chatMoves>>
  BY ChatTyped DEF DecideAction
<1>1. chats' = [chats EXCEPT ![c] = r]
  BY <1>0 DEF DecideAction, ChatInv, ChatRecords
<1>2. approval \in BOOLEAN /\ (old.changes # {} => approval)
  OBVIOUS
<1> HIDE DEF approval
<1>3. /\ r \in ChatRecords /\ r.stage = "decided" /\ r.ask = old.ask /\ r.cx = old.cx
      /\ r.changes = old.changes /\ r.approval = approval /\ r.skilled = old.skilled
  BY <1>0, <1>2 DEF ChatRecords, ChatStages
<1> HIDE DEF r
<1>4. ChatSound(r)
  BY <1>0, <1>2, <1>3 DEF ChatSound, Planning
<1> QED  BY <1>0, <1>1, <1>4, OneChatMoves DEF ChatInv

(* The agents are told of the plan that waits.                              *)
LEMMA AgentsKeepChat ==
    ASSUME ChatInv, NEW c \in Chats,
           CallHealingAgent(c) \/ CallIncidentAgent(c) \/ CallPostmortemAgent(c)
    PROVE  ChatInv'
<1> DEFINE old == chats[c]
<1>0. /\ ChatSound(old) /\ old \in ChatRecords /\ old.stage \in Planning \ {"answered"}
      /\ UNCHANGED <<alive, traces, written, chatMoves>>
  BY ChatTyped DEF CallHealingAgent, CallIncidentAgent, CallPostmortemAgent, Planning
<1>1. PICK r \in ChatRecords :
        /\ chats' = [chats EXCEPT ![c] = r]
        /\ r.stage \in {"healing", "postmortem", "summarize"} /\ r.ask = old.ask /\ r.cx = old.cx
        /\ r.changes = old.changes /\ r.approval = old.approval /\ r.skilled = old.skilled
  <2>1. CASE CallHealingAgent(c)
    <3> DEFINE r == [old EXCEPT !.stage = "healing"]
    <3>1. chats' = [chats EXCEPT ![c] = r]
      BY <2>1 DEF CallHealingAgent, ChatInv
    <3>2. /\ r \in ChatRecords /\ r.stage = "healing" /\ r.ask = old.ask /\ r.cx = old.cx
          /\ r.changes = old.changes /\ r.approval = old.approval /\ r.skilled = old.skilled
      BY <1>0 DEF ChatRecords, ChatStages
    <3> HIDE DEF r
    <3> QED  BY <3>1, <3>2
  <2>2. CASE CallIncidentAgent(c)
    <3> DEFINE stage == IF old.ask.severe THEN "postmortem" ELSE "summarize"
               r == [old EXCEPT !.incident = TRUE, !.stage = stage]
    <3>1. chats' = [chats EXCEPT ![c] = r]
      BY <1>0, <2>2 DEF CallIncidentAgent, ChatInv, ChatRecords
    <3>2. stage \in {"postmortem", "summarize"}
      OBVIOUS
    <3> HIDE DEF stage
    <3>3. /\ r \in ChatRecords /\ r.stage = stage /\ r.ask = old.ask /\ r.cx = old.cx
          /\ r.changes = old.changes /\ r.approval = old.approval /\ r.skilled = old.skilled
      BY <1>0, <3>2 DEF ChatRecords, ChatStages
    <3> HIDE DEF r
    <3> QED  BY <3>1, <3>2, <3>3
  <2>3. CASE CallPostmortemAgent(c)
    <3> DEFINE r == [old EXCEPT !.postmortem = TRUE, !.stage = "summarize"]
    <3>1. chats' = [chats EXCEPT ![c] = r]
      BY <1>0, <2>3 DEF CallPostmortemAgent, ChatInv, ChatRecords
    <3>2. /\ r \in ChatRecords /\ r.stage = "summarize" /\ r.ask = old.ask /\ r.cx = old.cx
          /\ r.changes = old.changes /\ r.approval = old.approval /\ r.skilled = old.skilled
      BY <1>0 DEF ChatRecords, ChatStages
    <3> HIDE DEF r
    <3> QED  BY <3>1, <3>2
  <2> QED  BY <2>1, <2>2, <2>3
<1>2. ChatSound(r)
  BY <1>0, <1>1 DEF ChatSound
<1> QED  BY <1>0, <1>1, <1>2, OneChatMoves DEF ChatInv

(* A change of the answer is of the target, or placed where the Pod is that *)
(* was found.                                                               *)
LEMMA PlacedIsBound ==
    ASSUME NEW x \in KnownChanges, NEW ask \in ChatQuestion, NEW cx \in ChatContexts,
           ~Foreign(x, ask)
    PROVE  LET y == Placed(Rebound(x, ask), cx) IN
           y \in KnownChanges /\ IsBound(y, ask, cx.pod)
<1> DEFINE z == Rebound(x, ask)
           y == Placed(z, cx)
<1>1. BoundSteps \cap PodSteps = {}
  BY DEF BoundSteps, WorkloadSteps, PodSteps
<1>2. x \in ChatChange /\ x.type \in Catalog /\ ask.workload \in Words /\ ask.pod \in Words
      /\ ask.namespace \in Words
  BY DEF KnownChanges, ChatQuestion
<1>3. /\ z \in ChatChange /\ z.type = x.type
      /\ ask.workload # "" /\ z.type \in BoundSteps => z.workload = ask.workload
      /\ ask.pod # "" /\ z.type \in PodSteps => z.pod = ask.pod
  <2>1. CASE ask.workload # "" /\ x.type \in BoundSteps
    BY <1>1, <1>2, <2>1 DEF Rebound, ChatChange
  <2>2. CASE ~(ask.workload # "" /\ x.type \in BoundSteps) /\ ask.pod # "" /\ x.type \in PodSteps
    BY <1>2, <2>2 DEF Rebound, ChatChange
  <2>3. CASE /\ ~(ask.workload # "" /\ x.type \in BoundSteps)
             /\ ~(ask.pod # "" /\ x.type \in PodSteps)
    BY <1>2, <2>3 DEF Rebound
  <2> QED  BY <2>1, <2>2, <2>3
<1> HIDE DEF z
<1>4. /\ y \in ChatChange /\ y.type = z.type /\ y.pod = z.pod
      /\ y.workload \in {z.workload} \cup (IF cx.pod # "" THEN {Sits[cx.pod].workload} ELSE {})
  <2>1. CASE cx.source \notin {"rancher", "kubeconfig"} \/ cx.pod = ""
    BY <1>3, <2>1 DEF Placed
  <2>2. CASE ~(cx.source \notin {"rancher", "kubeconfig"} \/ cx.pod = "")
    <3>1. cx.pod \in ChatPods
      BY <2>2 DEF ChatContexts
    <3>2. Sits[cx.pod].namespace \in Words /\ Sits[cx.pod].workload \in Words
      BY <3>1, ChatAssumption
    <3> DEFINE workload == IF z.type \in RenamedSteps THEN Sits[cx.pod].workload ELSE z.workload
               namespace == Sits[cx.pod].namespace
    <3>3. y = [z EXCEPT !.namespace = namespace, !.workload = workload]
      BY <1>3, <2>2 DEF Placed, ChatChange
    <3>4. workload \in Words /\ workload \in {z.workload, Sits[cx.pod].workload} /\ namespace \in Words
      BY <1>3, <3>2 DEF ChatChange
    <3> HIDE DEF workload, namespace, y
    <3>5. y \in ChatChange /\ y.type = z.type /\ y.pod = z.pod /\ y.workload = workload
      BY <1>3, <3>3, <3>4 DEF ChatChange
    <3> QED  BY <2>2, <3>4, <3>5
  <2> QED  BY <2>1, <2>2
<1> HIDE DEF y
<1>5. y \in KnownChanges
  BY <1>2, <1>3, <1>4 DEF KnownChanges
<1>6. IsBound(y, ask, cx.pod)
  BY <1>3, <1>4 DEF IsBound
<1> QED  BY <1>5, <1>6 DEF y, z

(* A Skill has a target of the words there are: that of the first change    *)
(* left, or the one that is asked for, or the owner of the Pod.             *)
LEMMA SkillTargetTyped ==
    ASSUME NEW ask \in ChatQuestion, NEW cx \in ChatContexts, NEW first,
           first.namespace \in Words, first.workload \in Words
    PROVE  LET at == SkillTarget(ask, cx, first) IN
           /\ at.namespace \in Words /\ at.workload \in Words /\ at.pod \in Words
           /\ ask.workload # "" =>
                 \/ at.workload \in {ask.workload} \cup (IF cx.pod # "" THEN {Sits[cx.pod].workload} ELSE {})
                 \/ first.workload # "" /\ at.workload = first.workload
           /\ \/ at.pod = ask.pod
              \/ cx.pod # "" /\ at.pod = Sits[cx.pod].name
<1>1. ask.namespace \in Words /\ ask.workload \in Words /\ ask.pod \in Words
  BY DEF ChatQuestion
<1>2. cx.pod # "" => /\ Sits[cx.pod].namespace \in Words /\ Sits[cx.pod].workload \in Words
                     /\ Sits[cx.pod].name \in Words
  BY ChatAssumption DEF ChatContexts
<1> DEFINE managed == cx.source \in {"rancher", "kubeconfig"} /\ cx.pod # ""
           own == IF managed THEN Sits[cx.pod].workload
                  ELSE IF ask.workload # "" THEN ask.workload
                  ELSE IF ask.pod = "" /\ cx.pod # "" THEN Sits[cx.pod].workload ELSE ask.pod
           namespace == IF first.namespace # "" THEN first.namespace
                        ELSE IF managed THEN Sits[cx.pod].namespace ELSE ask.namespace
           workload == IF first.workload # "" THEN first.workload ELSE own
           pod == IF cx.pod # "" THEN Sits[cx.pod].name ELSE ask.pod
           at == SkillTarget(ask, cx, first)
<1>3. /\ own \in Words
      /\ ask.workload # "" =>
            own \in {ask.workload} \cup (IF cx.pod # "" THEN {Sits[cx.pod].workload} ELSE {})
  BY <1>1, <1>2
<1>4. namespace \in Words /\ pod \in Words
  BY <1>1, <1>2
<1>5. at.namespace = namespace /\ at.workload = workload /\ at.pod = pod
  BY DEF SkillTarget
<1> HIDE DEF own
<1>6. /\ workload \in Words
      /\ workload = own \/ (first.workload # "" /\ workload = first.workload)
  BY <1>3
<1>7. \/ pod = ask.pod
      \/ cx.pod # "" /\ pod = Sits[cx.pod].name
  OBVIOUS
<1> HIDE DEF namespace, workload, pod, at
<1> QED  BY <1>3, <1>4, <1>5, <1>6, <1>7 DEF at

(* What a Skill brings is of the catalogue, and of the target it has.       *)
LEMMA BroughtIsOfTarget ==
    ASSUME NEW at, at.namespace \in Words, at.workload \in Words, at.pod \in Words,
           NEW own \in Brought(at), NEW x \in own
    PROVE  /\ x \in KnownChanges
           /\ x.type \in BoundSteps => x.workload = at.workload
           /\ x.type \in PodSteps => x.pod = at.pod
<1> DEFINE types == {"create_configmap", "cordon_node", "patch_workload", "rollback_workload",
                     "scale_out", "patch_service_account", "recreate_pod"}
           hardened == [Step("patch_workload_runtime_security", at) EXCEPT !.workload = at.workload]
<1>1. (\E type \in types : x = Step(type, at)) \/ x = hardened
  BY DEF Brought
<1>2. "" \in Words /\ \A type \in Catalog : type \in Words
  BY ChatAssumption
<1>3. CASE \E type \in types : x = Step(type, at)
  <2>1. PICK type \in types : x = Step(type, at)
    BY <1>3
  <2>2. type \in Catalog
    BY DEF Catalog, BoundSteps, RenamedSteps, PodSteps, WorkloadSteps
  <2>3. x \in KnownChanges
    BY <2>1, <2>2, StepKnown
  <2>4. /\ x.type = type
        /\ type \in WorkloadSteps => x.workload = at.workload
        /\ type = "recreate_pod" => x.pod = at.pod
    BY <2>1 DEF Step
  <2>5. /\ type \in BoundSteps => type \in WorkloadSteps
        /\ type \in PodSteps => type = "recreate_pod"
    BY DEF BoundSteps, PodSteps
  <2> QED  BY <2>3, <2>4, <2>5
<1>4. CASE x = hardened
  <2>1. "patch_workload_runtime_security" \in Catalog \ (BoundSteps \cup PodSteps)
    BY DEF Catalog, BoundSteps, RenamedSteps, PodSteps, WorkloadSteps
  <2>2. x = [type |-> "patch_workload_runtime_security", namespace |-> at.namespace,
             workload |-> at.workload, pod |-> ""]
    BY <1>4 DEF Step, WorkloadSteps
  <2>3. x \in KnownChanges
    BY <1>2, <2>1, <2>2 DEF KnownChanges, ChatChange
  <2> QED  BY <2>1, <2>2, <2>3
<1> QED  BY <1>1, <1>3, <1>4

(* What is put up is bound to the target, or brought by a Skill for it.     *)
LEMMA SummarizeKeepsChat ==
    ASSUME ChatInv, NEW c \in Chats, Summarize(c)
    PROVE  ChatInv'
<1> DEFINE old == chats[c]
           ask == old.ask
           cx == old.cx
           bound == {Placed(x, cx) : x \in BoundTo(ask, old.changes)}
           firsts == IF bound = {} THEN {[namespace |-> "", workload |-> ""]} ELSE bound
<1>0. /\ ChatSound(old) /\ old \in ChatRecords /\ ask \in ChatQuestion /\ cx \in ChatContexts
      /\ old.stage = "summarize" /\ old.changes \subseteq KnownChanges
      /\ traces' \subseteq Chats /\ UNCHANGED <<alive, written, chatMoves>>
  BY ChatTyped DEF Summarize, ChatInv
<1>1. \/ \E grant \in Grants :
            chats' = [chats EXCEPT ![c].stage = "answered",
                                   ![c].changes = {x \in bound : x.type \in grant}]
      \/ \E grant \in Grants : \E first \in firsts : \E own \in Brought(SkillTarget(ask, cx, first)) :
            chats' = [chats EXCEPT ![c].stage = "answered", ![c].skilled = TRUE,
                                   ![c].replaced = bound,
                                   ![c].changes = {x \in own : x.type \in grant}]
  BY DEF Summarize
<1> HIDE DEF ask, cx
<1>2. ASSUME NEW y \in bound
      PROVE  y \in KnownChanges /\ IsBound(y, ask, cx.pod) /\ old.changes # {}
  <2>1. PICK z \in BoundTo(ask, old.changes) : y = Placed(z, cx)
    OBVIOUS
  <2>2. PICK x \in old.changes : ~Foreign(x, ask) /\ z = Rebound(x, ask)
    BY DEF BoundTo
  <2> QED  BY <1>0, <2>1, <2>2, PlacedIsBound
<1>3. ASSUME NEW first \in firsts, NEW own \in Brought(SkillTarget(ask, cx, first)), NEW x \in own
      PROVE  /\ x \in KnownChanges
             /\ ask.workload # "" /\ x.type \in BoundSteps =>
                   x.workload \in {ask.workload}
                       \cup (IF cx.pod # "" THEN {Sits[cx.pod].workload} ELSE {})
                       \cup {y.workload : y \in {y \in bound : y.type \notin BoundSteps}}
             /\ ask.pod # "" /\ x.type \in PodSteps =>
                   x.pod = ask.pod \/ (cx.pod # "" /\ x.pod = Sits[cx.pod].name)
  <2> DEFINE at == SkillTarget(ask, cx, first)
  <2>1. /\ first.namespace \in Words /\ first.workload \in Words
        /\ first.workload # "" => first \in bound
    <3>1. CASE first \in bound
      BY <1>2, <3>1 DEF KnownChanges, ChatChange
    <3>2. CASE first = [namespace |-> "", workload |-> ""]
      BY <3>2, ChatAssumption
    <3> QED  BY <3>1, <3>2
  <2>2. /\ at.namespace \in Words /\ at.workload \in Words /\ at.pod \in Words
        /\ ask.workload # "" =>
              \/ at.workload \in {ask.workload} \cup (IF cx.pod # "" THEN {Sits[cx.pod].workload} ELSE {})
              \/ first.workload # "" /\ at.workload = first.workload
        /\ at.pod = ask.pod \/ (cx.pod # "" /\ at.pod = Sits[cx.pod].name)
    <3> HIDE DEF firsts, bound, at
    <3>1. /\ first.namespace \in Words /\ first.workload \in Words
          /\ ask \in ChatQuestion /\ cx \in ChatContexts
      BY <1>0, <2>1
    <3> QED  BY <3>1, SkillTargetTyped DEF at
  <2>3. /\ x \in KnownChanges
        /\ x.type \in BoundSteps => x.workload = at.workload
        /\ x.type \in PodSteps => x.pod = at.pod
    <3> HIDE DEF firsts, bound
    <3> QED  BY <2>2, BroughtIsOfTarget
  <2> HIDE DEF at, bound, firsts
  <2>4. first \in bound /\ first.type \in BoundSteps /\ ask.workload # "" =>
           first.workload \in {ask.workload} \cup (IF cx.pod # "" THEN {Sits[cx.pod].workload} ELSE {})
    BY <1>2 DEF IsBound
  <2> QED  BY <2>1, <2>2, <2>3, <2>4
<1> HIDE DEF bound, firsts
<1>4. CASE \E grant \in Grants :
              chats' = [chats EXCEPT ![c].stage = "answered",
                                     ![c].changes = {x \in bound : x.type \in grant}]
  <2>1. PICK changes \in SUBSET bound :
           chats' = [chats EXCEPT ![c].stage = "answered", ![c].changes = changes]
    <3>1. \A grant \in Grants : {x \in bound : x.type \in grant} \in SUBSET bound
      OBVIOUS
    <3> QED  BY <1>4, <3>1
  <2> DEFINE r == [old EXCEPT !.stage = "answered", !.changes = changes]
  <2>2. chats' = [chats EXCEPT ![c] = r]
    BY <1>0, <2>1 DEF ChatInv, ChatRecords
  <2>3. changes \subseteq KnownChanges
    BY <1>2
  <2>4. /\ r \in ChatRecords /\ r.stage = "answered" /\ r.ask = ask /\ r.cx = cx
        /\ r.changes = changes /\ r.approval = old.approval /\ r.skilled = old.skilled
    BY <1>0, <2>3 DEF ChatRecords, ChatStages, ask, cx
  <2> HIDE DEF r
  <2>5. ChatSound(r)
    BY <1>0, <1>2, <2>4 DEF ChatSound, Planning, ask, cx
  <2> QED  BY <1>0, <2>2, <2>5, OneChatMoves
<1>5. CASE \E grant \in Grants : \E first \in firsts : \E own \in Brought(SkillTarget(ask, cx, first)) :
              chats' = [chats EXCEPT ![c].stage = "answered", ![c].skilled = TRUE,
                                     ![c].replaced = bound,
                                     ![c].changes = {x \in own : x.type \in grant}]
  <2>1. PICK grant \in Grants : \E first \in firsts : \E own \in Brought(SkillTarget(ask, cx, first)) :
              chats' = [chats EXCEPT ![c].stage = "answered", ![c].skilled = TRUE,
                                     ![c].replaced = bound,
                                     ![c].changes = {x \in own : x.type \in grant}]
    BY <1>5
  <2>2. PICK first \in firsts : \E own \in Brought(SkillTarget(ask, cx, first)) :
              chats' = [chats EXCEPT ![c].stage = "answered", ![c].skilled = TRUE,
                                     ![c].replaced = bound,
                                     ![c].changes = {x \in own : x.type \in grant}]
    BY <2>1
  <2>3. PICK own \in Brought(SkillTarget(ask, cx, first)) :
              chats' = [chats EXCEPT ![c].stage = "answered", ![c].skilled = TRUE,
                                     ![c].replaced = bound,
                                     ![c].changes = {x \in own : x.type \in grant}]
    BY <2>2
  <2> DEFINE changes == {x \in own : x.type \in grant}
             r == [old EXCEPT !.stage = "answered", !.skilled = TRUE, !.replaced = bound,
                              !.changes = changes]
  <2>4. bound \subseteq KnownChanges
    BY <1>2
  <2>5. changes \subseteq KnownChanges /\ changes \subseteq own
    BY <1>3
  <2> HIDE DEF changes
  <2>6. chats' = [chats EXCEPT ![c] = r]
    BY <1>0, <2>3 DEF ChatInv, ChatRecords, changes
  <2>7. /\ r \in ChatRecords /\ r.stage = "answered" /\ r.ask = ask /\ r.cx = cx
        /\ r.changes = changes /\ r.skilled = TRUE /\ r.replaced = bound
    BY <1>0, <2>4, <2>5 DEF ChatRecords, ChatStages, ask, cx
  <2> HIDE DEF r
  <2>8. \A x \in r.changes : IsSkillBound(x, r)
    BY <1>3, <2>5, <2>7 DEF IsSkillBound
  <2>9. ChatSound(r)
    BY <1>0, <2>7, <2>8 DEF ChatSound, Planning, ask, cx
  <2> QED  BY <1>0, <2>6, <2>9, OneChatMoves
<1> QED  BY <1>1, <1>4, <1>5


(* The healing agent runs dry, and Pods come and go.                        *)
LEMMA AroundKeepsChat ==
    ASSUME ChatInv,
           \/ \E task \in Tasks : HandleTask(task)
           \/ \E p \in ChatPods : PodComesOrGoes(p)
    PROVE  ChatInv'
<1>0. MaxChatMoves \in Nat
  BY ChatAssumption
<1>1. CASE \E task \in Tasks : HandleTask(task)
  BY <1>1 DEF HandleTask, DryRun, ChatInv
<1>2. CASE \E p \in ChatPods : PodComesOrGoes(p)
  BY <1>0, <1>2 DEF PodComesOrGoes, ChatInv
<1> QED  BY <1>1, <1>2

(* Nothing was asked.                                                       *)
LEMMA ChatInitInv ==
    ASSUME ChatInit
    PROVE  ChatInv
<1>1. Unasked \in ChatRecords /\ ChatSound(Unasked)
  BY NothingAsked, UnaskedSound
<1>2. chats \in [Chats -> ChatRecords] /\ \A c \in Chats : ChatSound(chats[c])
  BY <1>1 DEF ChatInit
<1>3. MaxChatMoves \in Nat
  BY ChatAssumption
<1>4. 0 \in 0 .. MaxChatMoves
  BY <1>3
<1> QED  BY <1>2, <1>4 DEF ChatInit, ChatInv

(* Every step keeps the invariant.                                          *)
LEMMA ChatStep ==
    ASSUME ChatInv, [ChatNext]_chatVars
    PROVE  ChatInv'
<1>1. CASE UNCHANGED chatVars
  BY <1>1 DEF chatVars, ChatInv
<1>2. CASE ChatNext
  BY <1>2, AskKeepsChat, InventoryKeepsChat, DeepenKeepsChat, ContextFailsKeepsChat,
     CollectKeepsChat, LookKeepsChat, FailureKeepsChat, DiagnoseKeepsChat, DecideKeepsChat,
     AgentsKeepChat, SummarizeKeepsChat, AroundKeepsChat DEF ChatNext
<1> QED  BY <1>1, <1>2

(* Every question keeps to its target, at every stage.                      *)
THEOREM ChatInvariant == ChatSpec => []ChatInv
BY ChatInitInv, ChatStep, PTL DEF ChatSpec

(* Type correctness for all Pods, questions and answers of a model.         *)
THEOREM ChatTypeCorrect == ChatSpec => []ChatTypeOK
<1>1. ChatInv => ChatTypeOK
  BY DEF ChatInv, ChatTypeOK, ChatRecords, ChatContexts, KnownChanges
<1> QED  BY <1>1, ChatInvariant, PTL

(* Whatever the model proposes, whatever Pods go meanwhile and whatever a   *)
(* Skill brings: evidence and changes are of the target, of the owner of    *)
(* its Pod, or of what an unbound change named; and nothing is written.     *)
THEOREM AnswersBound == ChatSpec => []AnswersAreBound
<1>1. ASSUME ChatInv, NEW c \in Chats, Answered(c)
      PROVE  LET pod == chats[c].cx.pod IN
             /\ chats[c].changes # {} => chats[c].approval \/ chats[c].skilled
             /\ pod # "" => Leads(pod, chats[c].ask)
             /\ chats[c].skilled \in BOOLEAN
             /\ ~chats[c].skilled => \A x \in chats[c].changes : IsBound(x, chats[c].ask, pod)
             /\ chats[c].skilled => \A x \in chats[c].changes : IsSkillBound(x, chats[c])
  BY <1>1, ChatTyped DEF ChatSound, ChatRecords, Planning, Answered
<1>2. ChatInv => AnswersAreBound
  BY <1>1 DEF ChatInv, AnswersAreBound, Leads, IsBound, IsSkillBound, Unbound, AskedOf
<1> QED  BY <1>2, ChatInvariant, PTL

-----------------------------------------------------------------------------
(* Inspections. A finding keeps to its Pod and its owner, and a listing     *)
(* that was assessed has a finding for every suspect: that survives the     *)
(* router because it never drops one.                                       *)

(* Findings, with the changes of their plan.                                *)
Findings == [subject : Pods \cup Workloads, pod : Pods \cup {None}, workload : Workloads,
             category : Categories, texts : SUBSET Texts, changes : SUBSET Changes,
             hinted : SUBSET Experts]
(* What a listing shows of Pods.                                            *)
PodListings == UNION {[D -> PodStates] : D \in SUBSET Pods}
(* The events that were read.                                               *)
EventReads == UNION {[D -> SUBSET Texts] : D \in SUBSET Pods}
(* Inspections under way.                                                   *)
Inspecting == [stage : {"idle", "scanning", "routing"},
               scope : {{}} \cup UNION Deployments, production : BOOLEAN,
               listing : PodListings, events : EventReads, findings : SUBSET Findings]
(* Previews under way or answered.                                          *)
Previews == [stage : {"idle", "collecting", "answered"},
             subject : Pods \cup Workloads \cup {None}, finding : Findings \cup {None},
             changes : SUBSET Changes, skill : Experts \cup {None}]

(* A finding is of a Pod and its owner, or of a Workload.                   *)
Anchored(f) ==
    /\ f \in Findings /\ f.workload = Target(f.subject)
    /\ f.pod = IF f.subject \in Pods THEN f.subject ELSE None

(* The findings of a listing report its suspects.                           *)
Reported(i) ==
    \A p \in Suspects(i) : \E f \in insp[i].findings : f.pod = p /\ f.category # "none"

(* The inductive invariant of the inspections.                              *)
InspectionInv ==
    /\ pods \in [Pods -> PodStates] /\ scopes \in Deployments /\ usable \subseteq Experts
    /\ insp \in [Inspectors -> Inspecting]
    /\ \A i \in Inspectors : /\ DOMAIN insp[i].events \subseteq DOMAIN insp[i].listing
                             /\ \A f \in insp[i].findings : Anchored(f)
                             /\ insp[i].stage = "routing" => Reported(i)
    /\ \A f \in last : Anchored(f)
    /\ previews \in [Viewers -> Previews]
    /\ \A v \in Viewers : previews[v].stage = "collecting" =>
          Anchored(previews[v].finding) /\ previews[v].subject = previews[v].finding.subject

-----------------------------------------------------------------------------
(* Events make a Pod that looks suspicious no less so.                      *)
LEMMA EventsExplain ==
    ASSUME NEW pod, NEW events, NEW fewer, fewer \subseteq events
    PROVE  /\ Classified(pod, fewer) # "none" => Classified(pod, events) # "none"
           /\ Classified(pod, events) # "none" => Classified(pod, events) \in Categories
BY DEF Classified, Categories, Primary

(* A change of a Workload or a Pod.                                         *)
LEMMA ChangeTyped ==
    ASSUME NEW type \in Types, NEW target \in Workloads \cup Pods \cup {None}
    PROVE  Change(type, target) \in Changes
BY DEF Change, Changes

(* The template of a finding holds changes.                                 *)
LEMMA TemplateTyped ==
    ASSUME NEW category, NEW texts, NEW w \in Workloads
    PROVE  Template(category, texts, w) \subseteq Changes
<1>1. Change("patch", w) \in Changes /\ Change("restart", w) \in Changes
  BY ChangeTyped DEF Types
<1> QED  BY <1>1 DEF Template

(* What the engine proves holds changes.                                    *)
LEMMA ProvenTyped ==
    ASSUME NEW runbook, NEW w \in Workloads, NEW pod \in Pods \cup {None}
    PROVE  Proven(runbook, w, pod) \subseteq Changes
<1>1. /\ Change("patch", w) \in Changes /\ Change("recreate", pod) \in Changes
      /\ Change("other", None) \in Changes
  BY ChangeTyped DEF Types
<1> QED  BY <1>1 DEF Proven

(* What a Skill leaves of a plan holds changes.                             *)
LEMMA AttachedTyped ==
    ASSUME NEW changes \in SUBSET Changes, NEW s, NEW verdict, NEW w \in Workloads
    PROVE  Attached(changes, s, verdict, w) \in SUBSET Changes
<1>1. Change("patch", w) \in Changes
  BY ChangeTyped DEF Types
<1> QED  BY <1>1 DEF Attached

(* A finding is of its subject.                                             *)
LEMMA FindingAnchored ==
    ASSUME NEW subject \in Pods \cup Workloads, NEW pod \in Pods \cup {None},
           NEW w \in Workloads, NEW category \in Categories, NEW texts \in SUBSET Texts,
           NEW changes \in SUBSET Changes,
           w = Target(subject), pod = IF subject \in Pods THEN subject ELSE None
    PROVE  LET f == Finding(subject, pod, w, category, texts, changes) IN
           Anchored(f) /\ f.pod = pod /\ f.category = category
BY DEF Finding, Findings, Anchored

(* What a Skill leaves of a plan, and what the router prefers.              *)
LEMMA OtherChanges ==
    ASSUME NEW f, Anchored(f), NEW changes \in SUBSET Changes
    PROVE  LET g == [f EXCEPT !.changes = changes] IN
           Anchored(g) /\ g.pod = f.pod /\ g.category = f.category
BY DEF Findings, Anchored

(* What the router prefers leaves a finding where it is.                    *)
LEMMA OtherHints ==
    ASSUME NEW f, Anchored(f), NEW hinted \in SUBSET Experts
    PROVE  LET g == [f EXCEPT !.hinted = hinted] IN
           Anchored(g) /\ g.pod = f.pod /\ g.category = f.category
BY DEF Findings, Anchored

(* So does the Skill that fits it.                                          *)
LEMMA AttachAnchored ==
    ASSUME NEW f, Anchored(f), NEW changes \in SUBSET Changes, NEW s, NEW verdict
    PROVE  LET g == Attach(f, changes, s, verdict) IN
           Anchored(g) /\ g.pod = f.pod /\ g.category = f.category
<1> DEFINE left == Attached(changes, s, verdict, f.workload)
<1>1. left \in SUBSET Changes
  BY AttachedTyped DEF Anchored, Findings
<1> HIDE DEF left
<1> QED  BY <1>1, OtherChanges DEF Attach, left

-----------------------------------------------------------------------------
(* A step of one inspection.                                                *)
LEMMA OneInspectionMoves ==
    ASSUME InspectionInv, NEW i \in Inspectors, NEW r \in Inspecting,
           insp' = [insp EXCEPT ![i] = r],
           DOMAIN r.events \subseteq DOMAIN r.listing,
           \A f \in r.findings : Anchored(f),
           r.stage = "routing" => Reported(i)',
           \A f \in last' : Anchored(f),
           UNCHANGED <<pods, scopes, usable, previews>>
    PROVE  InspectionInv'
<1>1. /\ insp' \in [Inspectors -> Inspecting] /\ insp'[i] = r
      /\ \A j \in Inspectors \ {i} : insp'[j] = insp[j]
  BY DEF InspectionInv
<1>2. ASSUME NEW j \in Inspectors
      PROVE  /\ DOMAIN insp'[j].events \subseteq DOMAIN insp'[j].listing
             /\ \A f \in insp'[j].findings : Anchored(f)
             /\ insp'[j].stage = "routing" => Reported(j)'
  <2>1. CASE j = i
    BY <1>1, <2>1
  <2>2. CASE j # i
    <3>1. insp'[j] = insp[j]
      BY <1>1, <2>2
    <3> QED  BY <3>1 DEF InspectionInv, Reported, Suspects
  <2> QED  BY <2>1, <2>2
<1> QED  BY <1>1, <1>2 DEF InspectionInv

(* What is known of one inspection.                                         *)
LEMMA InspectionTyped ==
    ASSUME InspectionInv, NEW i \in Inspectors
    PROVE  /\ insp[i] \in Inspecting /\ DOMAIN insp[i].listing \subseteq Pods
           /\ DOMAIN insp[i].events \subseteq DOMAIN insp[i].listing
           /\ \A p \in DOMAIN insp[i].listing : insp[i].listing[p] \in PodStates
           /\ \A p \in DOMAIN insp[i].events : insp[i].events[p] \in SUBSET Texts
<1>1. /\ insp[i] \in Inspecting /\ insp[i].listing \in PodListings /\ insp[i].events \in EventReads
      /\ DOMAIN insp[i].events \subseteq DOMAIN insp[i].listing
  BY DEF InspectionInv, Inspecting
<1>2. PICK D \in SUBSET Pods : insp[i].listing \in [D -> PodStates]
  BY <1>1 DEF PodListings
<1>3. PICK E \in SUBSET Pods : insp[i].events \in [E -> SUBSET Texts]
  BY <1>1 DEF EventReads
<1> QED  BY <1>1, <1>2, <1>3

(* An inspection that does nothing.                                         *)
LEMMA IdleTyped ==
    /\ Idle \in Inspecting /\ Idle.stage = "idle" /\ Idle.findings = {}
    /\ DOMAIN Idle.events = {} /\ DOMAIN Idle.listing = {}
<1> DEFINE nothing == [p \in {} |-> None]
<1>1. nothing \in [{} -> PodStates] /\ nothing \in [{} -> SUBSET Texts] /\ DOMAIN nothing = {}
  OBVIOUS
<1>2. nothing \in PodListings /\ nothing \in EventReads
  BY <1>1 DEF PodListings, EventReads
<1> HIDE DEF nothing
<1>3. Idle = [stage |-> "idle", scope |-> {}, production |-> FALSE, listing |-> nothing,
              events |-> nothing, findings |-> {}]
  BY DEF Idle, nothing
<1> QED  BY <1>1, <1>2, <1>3 DEF Inspecting

(* A listing begins without findings.                                       *)
LEMMA BeginKeepsInspections ==
    ASSUME InspectionInv, NEW i \in Inspectors, NEW scope \in scopes, NEW production \in BOOLEAN,
           Begin(i, scope, production)
    PROVE  InspectionInv'
<1> DEFINE listing == [p \in {p \in Pods : Via[p] \in scope} |-> pods[p]]
           r == [Idle EXCEPT !.stage = "scanning", !.scope = scope, !.production = production,
                             !.listing = listing]
<1>1. insp' = [insp EXCEPT ![i] = r] /\ UNCHANGED <<pods, scopes, usable, previews, last>>
  BY DEF Begin
<1>2. listing \in PodListings
  <2> DEFINE D == {p \in Pods : Via[p] \in scope}
  <2>1. listing \in [D -> PodStates] /\ D \in SUBSET Pods
    BY DEF InspectionInv
  <2> HIDE DEF listing, D
  <2> QED  BY <2>1 DEF PodListings
<1>3. scope \in {{}} \cup UNION Deployments
  BY DEF InspectionInv
<1> HIDE DEF listing
<1>4. r \in Inspecting /\ r.stage = "scanning" /\ r.findings = {} /\ r.events = Idle.events
  BY <1>2, <1>3, IdleTyped DEF Inspecting
<1> HIDE DEF r
<1>5. DOMAIN r.events \subseteq DOMAIN r.listing /\ \A f \in last' : Anchored(f)
  BY <1>1, <1>4, IdleTyped DEF InspectionInv
<1> QED  BY <1>1, <1>4, <1>5, OneInspectionMoves

(* Events are read of Pods that were listed.                                *)
LEMMA FetchKeepsInspections ==
    ASSUME InspectionInv, NEW i \in Inspectors, NEW p \in Pods, FetchEvents(i, p)
    PROVE  InspectionInv'
<1> DEFINE old == insp[i]
<1>1. PICK found \in {pods[p].events, {}} \cup (IF Via[p] = "rancher" THEN {{"net"}} ELSE {}) :
        insp' = [insp EXCEPT ![i].events =
              [q \in DOMAIN @ \cup {p} |-> IF q = p THEN found ELSE @[q]]]
  BY DEF FetchEvents
<1>2. found \in SUBSET Texts
  <2>1. pods[p].events \in SUBSET Texts
    BY DEF InspectionInv, PodStates
  <2> QED  BY <1>1, <2>1 DEF Texts
<1> DEFINE D == DOMAIN old.events \cup {p}
           events == [q \in D |-> IF q = p THEN found ELSE old.events[q]]
           r == [old EXCEPT !.events = events]
<1>3. p \in DOMAIN old.listing
  BY DEF FetchEvents, Readable, First, Suspects
<1>4. events \in EventReads /\ DOMAIN events \subseteq DOMAIN old.listing
  <2>1. D \in SUBSET Pods /\ D \subseteq DOMAIN old.listing
    BY <1>3, InspectionTyped
  <2>2. \A q \in D : (IF q = p THEN found ELSE old.events[q]) \in SUBSET Texts
    BY <1>2, InspectionTyped
  <2> HIDE DEF D
  <2>3. events \in [D -> SUBSET Texts] /\ DOMAIN events = D
    BY <2>2
  <2> HIDE DEF events
  <2> QED  BY <2>1, <2>3 DEF EventReads
<1>5. insp' = [insp EXCEPT ![i] = r]
  BY <1>1, InspectionTyped DEF InspectionInv, Inspecting
<1> HIDE DEF events
<1>6. /\ r \in Inspecting /\ r.stage = old.stage /\ r.findings = old.findings
      /\ r.listing = old.listing /\ r.events = events
  BY <1>4, InspectionTyped DEF Inspecting
<1> HIDE DEF r
<1>7. r.stage # "routing" /\ UNCHANGED <<pods, scopes, usable, previews, last>>
  BY <1>6 DEF FetchEvents
<1>8. (\A f \in r.findings : Anchored(f)) /\ \A f \in last' : Anchored(f)
  BY <1>6, <1>7 DEF InspectionInv
<1> QED  BY <1>4, <1>5, <1>6, <1>7, <1>8, OneInspectionMoves

(* What is found: every suspect, and Workloads.                             *)
LEMMA EventsForTyped ==
    ASSUME InspectionInv, NEW i \in Inspectors, Readable(i) \subseteq DOMAIN insp[i].events,
           NEW p \in Suspects(i)
    PROVE  EventsFor(i, p) \in SUBSET Texts
<1>1. \A q \in Readable(i) : insp[i].events[q] \in SUBSET Texts
  BY InspectionTyped
<1>2. Via[p] = "local" => p \in Readable(i)
  BY DEF Readable
<1> QED  BY <1>1, <1>2 DEF EventsFor

(* A suspect is found as what it is or worse.                               *)
LEMMA PodFindingAnchored ==
    ASSUME InspectionInv, NEW i \in Inspectors, Readable(i) \subseteq DOMAIN insp[i].events,
           NEW p \in Suspects(i)
    PROVE  /\ Anchored(PodFinding(i, p)) /\ PodFinding(i, p).pod = p
           /\ PodFinding(i, p).category # "none"
<1> DEFINE pod == insp[i].listing[p]
           events == EventsFor(i, p)
           category == Classified(pod, events)
           texts == pod.texts \cup events
           changes == Template(category, texts, OwnerOf[p])
<1>1. p \in Pods /\ pod \in PodStates /\ Classified(pod, {}) # "none"
  BY InspectionTyped DEF Suspects
<1>2. category # "none" /\ category \in Categories
  BY <1>1, EventsExplain
<1>3. events \in SUBSET Texts
  BY EventsForTyped
<1>4. texts \in SUBSET Texts
  BY <1>1, <1>3 DEF PodStates
<1>5. OwnerOf[p] \in Workloads /\ Target(p) = OwnerOf[p]
  BY <1>1, InspectionsAssumption DEF Target
<1>6. changes \in SUBSET Changes
  BY <1>5, TemplateTyped
<1>7. PodFinding(i, p) = Finding(p, p, OwnerOf[p], category, texts, changes)
  BY DEF PodFinding
<1> HIDE DEF category, texts, changes
<1> QED  BY <1>1, <1>2, <1>4, <1>5, <1>6, <1>7, FindingAnchored

(* A Workload is found as itself.                                           *)
LEMMA WorkloadAnchored ==
    ASSUME NEW w \in Workloads
    PROVE  Anchored(CapacityFinding(w)) /\ Anchored(RiskFinding(w))
<1>1. w \notin Pods /\ Target(w) = w
  BY InspectionsAssumption DEF Target
<1> DEFINE template == Template("capacity", {}, w)
           hardening == Hardening(w)
<1>2. template \in SUBSET Changes /\ hardening \in SUBSET Changes
  BY TemplateTyped, ChangeTyped DEF Hardening, Types
<1>3. "capacity" \in Categories /\ "production_risk" \in Categories
  BY DEF Categories
<1>4. /\ CapacityFinding(w) = Finding(w, None, w, "capacity", {}, template)
      /\ RiskFinding(w) = Finding(w, None, w, "production_risk", {}, hardening)
  BY DEF CapacityFinding, RiskFinding
<1> HIDE DEF template, hardening
<1> QED  BY <1>1, <1>2, <1>3, <1>4, FindingAnchored

(* The findings, each with its plan and what a Skill leaves of it.          *)
LEMMA PlannedTyped ==
    ASSUME NEW f, Anchored(f), NEW runbook, NEW s, NEW verdict
    PROVE  LET g == Attach(f, Planned(f, Proven(runbook, f.workload, f.pod)), s, verdict) IN
           Anchored(g) /\ g.pod = f.pod /\ g.category = f.category
<1> DEFINE proven == Proven(runbook, f.workload, f.pod)
           changes == Planned(f, proven)
<1>1. f.workload \in Workloads /\ f.pod \in Pods \cup {None} /\ f.changes \in SUBSET Changes
  BY DEF Anchored, Findings
<1>2. proven \in SUBSET Changes
  BY <1>1, ProvenTyped
<1> HIDE DEF proven
<1>3. changes \in SUBSET Changes
  BY <1>1, <1>2 DEF Planned
<1> HIDE DEF changes
<1> QED  BY <1>3, AttachAnchored DEF changes, proven

(* The findings of an assessment report every suspect.                      *)
LEMMA AssessKeepsInspections ==
    ASSUME InspectionInv, NEW i \in Inspectors, Assess(i)
    PROVE  InspectionInv'
<1> DEFINE old == insp[i]
           ofPods == {PodFinding(i, p) : p \in Suspects(i)}
           found == ofPods
                    \cup {CapacityFinding(w) : w \in Weak(i)}
                    \cup (IF old.production
                          THEN {RiskFinding(w) : w \in
                                   {w \in {OwnerOf[p] : p \in DOMAIN old.listing} : Risks(w) # {}}}
                          ELSE {})
           planned(f, s, verdict, runbook) ==
               Attach(f, Planned(f, Proven(runbook, f.workload, f.pod)), s, verdict)
<1>1. /\ Readable(i) \subseteq DOMAIN old.events
      /\ UNCHANGED <<pods, scopes, usable, previews, last>>
  BY DEF Assess
<1>2. PICK s \in Matchable({}), verdict \in Standings, runbook \in Runbooks :
        insp' = [insp EXCEPT ![i].stage = "routing",
                             ![i].findings = {planned(f, s, verdict, runbook) : f \in found}]
  BY DEF Assess
<1>3. ASSUME NEW f \in found  PROVE Anchored(f)
  <2>1. CASE f \in ofPods
    BY <1>1, <2>1, PodFindingAnchored
  <2>2. CASE f \notin ofPods
    <3>1. \A p \in DOMAIN old.listing : OwnerOf[p] \in Workloads
      BY InspectionTyped, InspectionsAssumption
    <3>2. PICK w \in Workloads : f = CapacityFinding(w) \/ f = RiskFinding(w)
      BY <1>3, <2>2, <3>1 DEF Weak
    <3> QED  BY <3>2, WorkloadAnchored
  <2> QED  BY <2>1, <2>2
<1>4. \A f \in found : LET g == planned(f, s, verdict, runbook) IN
         Anchored(g) /\ g.pod = f.pod /\ g.category = f.category
  BY <1>3, PlannedTyped
<1> DEFINE findings == {planned(f, s, verdict, runbook) : f \in found}
           r == [old EXCEPT !.stage = "routing", !.findings = findings]
<1>5. \A p \in Suspects(i) : \E f \in findings : f.pod = p /\ f.category # "none"
  <2> SUFFICES ASSUME NEW p \in Suspects(i)
               PROVE  \E f \in findings : f.pod = p /\ f.category # "none"
    OBVIOUS
  <2>1. PodFinding(i, p) \in found
    OBVIOUS
  <2>2. PodFinding(i, p).pod = p /\ PodFinding(i, p).category # "none"
    BY <1>1, PodFindingAnchored
  <2> HIDE DEF found, planned
  <2> QED  BY <1>4, <2>1, <2>2
<1>6. \A g \in findings : Anchored(g)
  <2> HIDE DEF found, planned
  <2> QED  BY <1>4
<1> HIDE DEF found, planned, findings
<1>7. findings \in SUBSET Findings
  BY <1>6 DEF Anchored
<1>8. insp' = [insp EXCEPT ![i] = r]
  BY <1>2, InspectionTyped DEF InspectionInv, Inspecting, findings
<1>9. /\ r \in Inspecting /\ r.findings = findings /\ r.stage = "routing"
      /\ r.listing = old.listing /\ r.events = old.events
  BY <1>7, InspectionTyped DEF Inspecting
<1> HIDE DEF r
<1>10. insp'[i] = r
  BY <1>8 DEF InspectionInv
<1>11. Reported(i)'
  BY <1>5, <1>9, <1>10 DEF Reported, Suspects
<1>12. DOMAIN r.events \subseteq DOMAIN r.listing /\ \A f \in last' : Anchored(f)
  BY <1>1, <1>9, InspectionTyped DEF InspectionInv
<1> QED  BY <1>1, <1>6, <1>8, <1>9, <1>11, <1>12, OneInspectionMoves

(* What is published reports what was found.                                *)
LEMMA PublishedAreFound ==
    ASSUME InspectionInv, NEW i \in Inspectors, NEW hinted \in SUBSET Experts, Publish(i, hinted)
    PROVE  /\ \A g \in last' : Anchored(g)
           /\ \A f \in insp[i].findings : \E g \in last' : g.pod = f.pod /\ g.category = f.category
<1>1. \A f \in insp[i].findings : Anchored(f)
  BY DEF InspectionInv
<1>2. CASE hinted = {}
  BY <1>1, <1>2 DEF Publish
<1>3. CASE hinted # {}
  <2> DEFINE routed(f, s, verdict) == [Attach(f, f.changes, s, verdict) EXCEPT !.hinted = hinted]
  <2>1. PICK s \in Matchable(hinted), verdict \in Standings :
          last' = {routed(f, s, verdict) : f \in insp[i].findings}
    BY <1>3 DEF Publish
  <2>2. ASSUME NEW f \in insp[i].findings
        PROVE  LET g == routed(f, s, verdict) IN
               Anchored(g) /\ g.pod = f.pod /\ g.category = f.category
    <3>1. Anchored(f) /\ f.changes \in SUBSET Changes
      BY <1>1 DEF Anchored, Findings
    <3> DEFINE a == Attach(f, f.changes, s, verdict)
    <3>2. Anchored(a) /\ a.pod = f.pod /\ a.category = f.category
      BY <3>1, AttachAnchored
    <3> HIDE DEF a
    <3>3. routed(f, s, verdict) = [a EXCEPT !.hinted = hinted]
      BY DEF a
    <3> QED  BY <3>2, <3>3, OtherHints
  <2> HIDE DEF routed
  <2> QED  BY <2>1, <2>2
<1> QED  BY <1>2, <1>3

(* Publishing ends the inspection.                                          *)
LEMMA PublishKeepsInspections ==
    ASSUME InspectionInv, NEW i \in Inspectors, NEW hinted \in SUBSET Experts, Publish(i, hinted)
    PROVE  InspectionInv'
<1>1. insp' = [insp EXCEPT ![i] = Idle] /\ UNCHANGED <<pods, scopes, usable, previews>>
  BY DEF Publish
<1>2. \A g \in last' : Anchored(g)
  BY PublishedAreFound
<1> QED  BY <1>1, <1>2, IdleTyped, OneInspectionMoves

-----------------------------------------------------------------------------
(* Previews.                                                                *)

(* A step of one preview.                                                   *)
LEMMA OnePreviewMoves ==
    ASSUME InspectionInv, NEW v \in Viewers, NEW r \in Previews,
           previews' = [previews EXCEPT ![v] = r],
           r.stage = "collecting" => Anchored(r.finding) /\ r.subject = r.finding.subject,
           UNCHANGED <<pods, scopes, usable, insp, last>>
    PROVE  InspectionInv'
<1>1. /\ previews' \in [Viewers -> Previews] /\ previews'[v] = r
      /\ \A u \in Viewers \ {v} : previews'[u] = previews[u]
  BY DEF InspectionInv
<1>2. \A u \in Viewers : previews'[u].stage = "collecting" =>
         Anchored(previews'[u].finding) /\ previews'[u].subject = previews'[u].finding.subject
  BY <1>1 DEF InspectionInv
<1>3. /\ \A i \in Inspectors : Reported(i)' = Reported(i)
      /\ UNCHANGED <<pods, scopes, usable, insp, last>>
  BY DEF Reported, Suspects
<1> QED  BY <1>1, <1>2, <1>3 DEF InspectionInv

(* A preview is asked for with a finding of the payload.                    *)
LEMMA AskKeepsInspections ==
    ASSUME InspectionInv, NEW v \in Viewers, NEW f \in last, Ask(v, f)
    PROVE  InspectionInv'
<1> DEFINE r == [stage |-> "collecting", subject |-> f.subject, finding |-> f,
                 changes |-> {}, skill |-> None]
<1>1. Anchored(f) /\ f \in Findings /\ f.subject \in Pods \cup Workloads
  BY DEF InspectionInv, Anchored, Findings
<1>2. r \in Previews
  BY <1>1 DEF Previews
<1>3. r.stage = "collecting" /\ r.finding = f /\ r.subject = f.subject
  OBVIOUS
<1>4. previews' = [previews EXCEPT ![v] = r] /\ UNCHANGED <<pods, scopes, usable, insp, last>>
  BY DEF Ask
<1> HIDE DEF r
<1> QED  BY <1>1, <1>2, <1>3, <1>4, OnePreviewMoves

(* A change that is bound is of the finding's Workload or Pod.              *)
IsOf(c, subject) ==
    /\ c.type \in {"patch", "restart"} => c.target = Target(subject)
    /\ c.type = "recreate" /\ c.target # None =>
          OwnerOf[c.target] = Target(subject) /\ (subject \in Pods => c.target = subject)

(* A change that passes the binding is of the finding.                      *)
LEMMA BoundIsOf ==
    ASSUME NEW f, Anchored(f), NEW pod \in Pods \cup {None}, NEW c \in Changes,
           pod # None => OwnerOf[pod] = f.workload,
           f.subject \in Pods => pod = f.subject,
           NEW d \in Bound(c, f, pod)
    PROVE  d \in Changes /\ IsOf(d, f.subject)
<1>1. f.workload \in Workloads /\ f.workload = Target(f.subject)
  BY DEF Anchored, Findings
<1>2. CASE c.type \in {"patch", "restart"}
  <2>1. d = Change(c.type, f.workload) /\ c.type \in Types
    BY <1>2 DEF Bound, Changes
  <2>2. d \in Changes /\ d.type = c.type /\ d.target = f.workload
    BY <1>1, <2>1, ChangeTyped DEF Change
  <2> QED  BY <1>1, <1>2, <2>2 DEF IsOf
<1>3. CASE c.type = "recreate"
  <2>1. d = Change("recreate", pod)
    BY <1>3 DEF Bound
  <2>2. d \in Changes /\ d.type = "recreate" /\ d.target = pod
    BY <2>1, ChangeTyped DEF Change, Types
  <2> QED  BY <1>1, <2>2 DEF IsOf
<1>4. CASE c.type \notin {"patch", "restart", "recreate"}
  <2>1. d = c
    BY <1>4 DEF Bound
  <2> QED  BY <1>4, <2>1 DEF IsOf
<1> QED  BY <1>2, <1>3, <1>4

(* A proposal holds changes.                                                *)
LEMMA ProposalTyped ==
    ASSUME NEW f, Anchored(f), NEW pod \in Pods \cup {None}, NEW proposal \in Proposals(f, pod)
    PROVE  proposal \subseteq Changes
<1>1. f.workload \in Workloads
  BY DEF Anchored, Findings
<1>2. CASE \E type \in Types, target \in Workloads \cup Pods \cup {None} :
              proposal = {Change(type, target)}
  BY <1>2, ChangeTyped
<1>3. CASE \E runbook \in Runbooks : proposal = Proven(runbook, f.workload, pod)
  BY <1>1, <1>3, ProvenTyped
<1> QED  BY <1>2, <1>3 DEF Proposals

(* An answer is bound to what was asked for.                                *)
LEMMA AnswerIsBound ==
    ASSUME InspectionInv, NEW v \in Viewers, Answer(v)
    PROVE  \E r \in Previews :
              /\ previews' = [previews EXCEPT ![v] = r] /\ r.stage = "answered"
              /\ r.changes # {} => r.skill \in usable
              /\ \A c \in r.changes : IsOf(c, previews[v].subject)
<1> DEFINE f == previews[v].finding
           subject == previews[v].subject
<1>1. Anchored(f) /\ subject = f.subject /\ f.workload \in Workloads
  BY DEF InspectionInv, Answer, Anchored, Findings
<1>2. PICK seen \in {p \in Pods : OwnerOf[p] = f.workload} \cup {None} :
        LET pod == IF f.pod # None THEN f.pod ELSE seen IN
        \E proposal \in Proposals(f, IF seen # None THEN seen ELSE f.pod),
           s \in Matchable(f.hinted), verdict \in Standings :
              previews' = [previews EXCEPT ![v] =
                  [stage |-> "answered", subject |-> None, finding |-> None, skill |-> s,
                   changes |-> Attached(UNION {Bound(c, f, pod) : c \in proposal},
                                        s, verdict, f.workload)]]
  BY DEF Answer
<1> DEFINE pod == IF f.pod # None THEN f.pod ELSE seen
           podShown == IF seen # None THEN seen ELSE f.pod
<1>3. PICK proposal \in Proposals(f, podShown), s \in Matchable(f.hinted), verdict \in Standings :
        previews' = [previews EXCEPT ![v] =
            [stage |-> "answered", subject |-> None, finding |-> None, skill |-> s,
             changes |-> Attached(UNION {Bound(c, f, pod) : c \in proposal},
                                  s, verdict, f.workload)]]
  BY <1>2
<1>4. /\ pod \in Pods \cup {None} /\ podShown \in Pods \cup {None}
      /\ pod # None => OwnerOf[pod] = f.workload
      /\ f.subject \in Pods => pod = f.subject
  BY <1>1, InspectionsAssumption DEF Anchored, Findings, Target
<1> HIDE DEF f, subject, pod, podShown
<1> DEFINE bound == UNION {Bound(c, f, pod) : c \in proposal}
           changes == Attached(bound, s, verdict, f.workload)
           r == [stage |-> "answered", subject |-> None, finding |-> None, skill |-> s,
                 changes |-> changes]
<1>5. proposal \subseteq Changes
  BY <1>1, <1>4, ProposalTyped
<1>6. \A d \in bound : d \in Changes /\ IsOf(d, subject)
  BY <1>1, <1>4, <1>5, BoundIsOf
<1>7. previews' = [previews EXCEPT ![v] = r]
  BY <1>3
<1> HIDE DEF bound
<1>8. changes \in SUBSET Changes
  BY <1>1, <1>6, AttachedTyped
<1>9. \A c \in changes : IsOf(c, subject)
  <2>1. IsOf(Change("patch", f.workload), subject)
    BY <1>1 DEF IsOf, Change, Anchored
  <2>2. changes \subseteq bound \cup {Change("patch", f.workload)}
    BY DEF Attached
  <2> QED  BY <1>6, <2>1, <2>2
<1>10. s \in Experts \cup {None} /\ (changes # {} => s \in usable)
  <2>1. s \in usable \cup {None} /\ usable \subseteq Experts
    BY DEF Matchable, InspectionInv
  <2>2. changes # {} => s # None
    BY DEF Attached
  <2> QED  BY <2>1, <2>2
<1> HIDE DEF changes
<1>11. /\ r \in Previews /\ r.stage = "answered" /\ r.changes = changes /\ r.skill = s
  BY <1>8, <1>10 DEF Previews
<1> HIDE DEF r
<1> QED  BY <1>7, <1>9, <1>10, <1>11 DEF subject

(* An answer ends the preview.                                              *)
LEMMA AnswerKeepsInspections ==
    ASSUME InspectionInv, NEW v \in Viewers, Answer(v)
    PROVE  InspectionInv'
<1>1. PICK r \in Previews : previews' = [previews EXCEPT ![v] = r] /\ r.stage = "answered"
  BY AnswerIsBound
<1>2. UNCHANGED <<pods, scopes, usable, insp, last>>
  BY DEF Answer
<1> QED  BY <1>1, <1>2, OnePreviewMoves

(* The cluster and the operator go on beside it.                            *)
LEMMA AroundKeepsInspections ==
    ASSUME InspectionInv,
           (\E p \in Pods : PodMoves(p)) \/ \E s \in Experts : Toggle(s)
    PROVE  InspectionInv'
<1>1. /\ UNCHANGED <<scopes, insp, last, previews>>
      /\ \A i \in Inspectors : Reported(i)' = Reported(i)
  BY DEF PodMoves, Toggle, Reported, Suspects
<1>2. pods' \in [Pods -> PodStates]
  <2>1. \A p \in Pods : Conditions[p] \subseteq PodStates
    BY InspectionsAssumption
  <2> QED  BY <2>1 DEF PodMoves, Toggle, InspectionInv
<1>3. usable' \subseteq Experts
  BY DEF PodMoves, Toggle, InspectionInv
<1> QED  BY <1>1, <1>2, <1>3 DEF InspectionInv

(* Nothing was inspected.                                                   *)
LEMMA InspectionsInitInv ==
    ASSUME InspectionsInit
    PROVE  InspectionInv
<1>1. pods \in [Pods -> PodStates] /\ scopes \in Deployments /\ usable \subseteq Experts
  <2>1. \A p \in Pods : Conditions[p] \subseteq PodStates
    BY InspectionsAssumption
  <2> QED  BY <2>1 DEF InspectionsInit
<1>2. insp \in [Inspectors -> Inspecting] /\ \A i \in Inspectors : insp[i] = Idle
  BY IdleTyped DEF InspectionsInit
<1>3. previews \in [Viewers -> Previews] /\ \A v \in Viewers : previews[v].stage = "idle"
  BY DEF InspectionsInit, Previews
<1> QED  BY <1>1, <1>2, <1>3, IdleTyped DEF InspectionInv, InspectionsInit

(* Every step keeps the invariant.                                          *)
LEMMA InspectionsStep ==
    ASSUME InspectionInv, [InspectionsNext]_inspectionVars
    PROVE  InspectionInv'
<1>1. CASE UNCHANGED inspectionVars
  BY <1>1 DEF inspectionVars, InspectionInv, Reported, Suspects
<1>2. CASE InspectionsNext
  BY <1>2, BeginKeepsInspections, FetchKeepsInspections, AssessKeepsInspections,
     PublishKeepsInspections, AskKeepsInspections, AnswerKeepsInspections,
     AroundKeepsInspections DEF InspectionsNext
<1> QED  BY <1>1, <1>2

(* Findings, and what is asked of them, keep to a Pod and its owner.        *)
THEOREM InspectionsInvariant == InspectionsSpec => []InspectionInv
BY InspectionsInitInv, InspectionsStep, PTL DEF InspectionsSpec

(* Type correctness for all clusters, scopes and Skills.                    *)
THEOREM InspectionsTypeCorrect == InspectionsSpec => []InspectionsTypeOK
<1>1. InspectionInv => InspectionsTypeOK
  BY DEF InspectionInv, InspectionsTypeOK, Inspecting, Previews, Anchored, Findings
<1> QED  BY <1>1, InspectionsInvariant, PTL

(* An inspection ends where it is published, with every suspect.            *)
LEMMA EndedArePublished ==
    ASSUME InspectionInv, [InspectionsNext]_inspectionVars, NEW i \in Inspectors,
           insp[i].stage = "routing", insp'[i].stage = "idle"
    PROVE  \A p \in Suspects(i) : \E f \in last' : f.pod = p /\ f.category # "none"
<1>1. insp[i].stage # insp'[i].stage
  OBVIOUS
<1>2. insp' # insp
  BY <1>1
<1>3. PICK j \in Inspectors :
         \/ \E scope \in scopes, production \in BOOLEAN : Begin(j, scope, production)
         \/ \E p \in Pods : FetchEvents(j, p)
         \/ Assess(j)
         \/ \E hinted \in SUBSET Experts : Publish(j, hinted)
  BY <1>2 DEF InspectionsNext, inspectionVars, Ask, Answer, PodMoves, Toggle
<1>4. ASSUME j # i PROVE FALSE
  <2>1. insp'[i] = insp[i]
    BY <1>3, <1>4 DEF InspectionInv, Begin, FetchEvents, Assess, Publish
  <2> QED  BY <1>1, <2>1
<1>5. PICK hinted \in SUBSET Experts : Publish(i, hinted)
  BY <1>3, <1>4 DEF Begin, FetchEvents, Assess
<1>6. Reported(i)
  BY DEF InspectionInv
<1> QED  BY <1>5, <1>6, PublishedAreFound DEF Reported

(* A preview is answered where it is bound.                                 *)
LEMMA AnsweredAreBound ==
    ASSUME InspectionInv, [InspectionsNext]_inspectionVars, NEW v \in Viewers,
           previews[v].stage = "collecting", previews'[v].stage = "answered"
    PROVE  /\ previews'[v].changes # {} => previews'[v].skill \in usable
           /\ \A c \in previews'[v].changes : IsOf(c, previews[v].subject)
<1>1. previews[v].stage # previews'[v].stage
  OBVIOUS
<1>2. previews' # previews
  BY <1>1
<1>3. PICK u \in Viewers : (\E f \in last : Ask(u, f)) \/ Answer(u)
  BY <1>2 DEF InspectionsNext, inspectionVars, Begin, FetchEvents, Assess, Publish, PodMoves, Toggle
<1>4. ASSUME u # v PROVE FALSE
  <2>1. previews'[v] = previews[v]
    BY <1>3, <1>4 DEF InspectionInv, Ask, Answer
  <2> QED  BY <1>1, <2>1
<1>5. Answer(v)
  BY <1>3, <1>4 DEF Ask
<1>6. PICK r \in Previews :
         /\ previews' = [previews EXCEPT ![v] = r]
         /\ r.changes # {} => r.skill \in usable
         /\ \A c \in r.changes : IsOf(c, previews[v].subject)
  BY <1>5, AnswerIsBound
<1>7. previews'[v] = r
  BY <1>6 DEF InspectionInv
<1> QED  BY <1>6, <1>7

(* A suspect is not lost between its listing and the payload, whatever its  *)
(* events, its namesakes and the router do; what a preview would change is  *)
(* of the finding, and of a Skill that is enabled when it answers.          *)
THEOREM InspectionsSound == InspectionsSpec => InspectionsAreSound
<1>1. InspectionInv /\ [InspectionsNext]_inspectionVars =>
         [\A i \in Inspectors :
             insp[i].stage = "routing" /\ insp'[i].stage = "idle" =>
                 \A p \in Suspects(i) :
                     \E f \in last' : f.pod = p /\ f.category # "none"]_inspectionVars
  BY EndedArePublished
<1>2. InspectionInv /\ [InspectionsNext]_inspectionVars =>
         [\A v \in Viewers :
             previews[v].stage = "collecting" /\ previews'[v].stage = "answered" =>
                 /\ previews'[v].changes # {} => previews'[v].skill \in usable
                 /\ \A c \in previews'[v].changes :
                       /\ c.type \in {"patch", "restart"} => c.target = Target(previews[v].subject)
                       /\ c.type = "recreate" /\ c.target # None =>
                             /\ OwnerOf[c.target] = Target(previews[v].subject)
                             /\ previews[v].subject \in Pods => c.target = previews[v].subject]_inspectionVars
  BY AnsweredAreBound DEF IsOf
<1> QED  BY <1>1, <1>2, InspectionsInvariant, PTL
         DEF InspectionsSpec, InspectionsAreSound, SuspectsAreReported, PreviewsAreBound

-----------------------------------------------------------------------------
(* HarnessEvents. As long as every event reached the primary journal, the   *)
(* list in memory is the end of it and a chain for each session; what is    *)
(* hidden is a leaf, because whatever is listed below it is among its       *)
(* children.                                                                *)

(* The first place of a set of places is one of it.                         *)
LEMMA FirstPlace ==
    ASSUME NEW n \in Nat, NEW S \in SUBSET (1 .. n), S # {}
    PROVE  Min(S) \in S /\ \A y \in S : Min(S) <= y
<1>1. S \subseteq Nat
  OBVIOUS
<1>2. \E x \in S : \A y \in S : x <= y
  BY <1>1, LeastNat
<1> QED  BY <1>2 DEF Min

-----------------------------------------------------------------------------
(* Each event of a session names the one before it and has the next number. *)
Chained(m) ==
    \A i, j \in DOMAIN m :
        (/\ i < j /\ m[i].session = m[j].session
         /\ \A k \in i + 1 .. j - 1 : m[k].session # m[i].session)
        => m[j].prev = m[i].id /\ m[j].seq = m[i].seq + 1

(* The inductive invariant of the events.                                   *)
EventInv ==
    /\ EventsTypeOK
    /\ ~missed => ~onFallback /\ memory = LastOf(primary, MaxEvents) /\ Chained(memory)

(* Statuses of a session.                                                   *)
Statuses == {"running", "completed", "paused", "deleted", "recorded"}
(* Kinds of events.                                                         *)
Kinds == {"event", "forked", "child-created", "resumed", "deleted", "child-deleted"}

(* What a cut leaves of a long list.                                        *)
LEMMA LongLast ==
    ASSUME NEW E, NEW q \in Seq(E), NEW n \in Nat \ {0}, NEW d \in Nat \ {0}, Len(q) = n + d
    PROVE  /\ LastOf(q, n) \in Seq(E) /\ Len(LastOf(q, n)) = n
           /\ \A i \in 1 .. n : LastOf(q, n)[i] = q[i + d]
<1> DEFINE t == SubSeq(q, d + 1, Len(q))
<1>1. LastOf(q, n) = t
  <2>1. ~(Len(q) <= n) /\ Len(q) - n + 1 = d + 1
    OBVIOUS
  <2> QED  BY <2>1 DEF LastOf
<1>2. d + 1 \in Nat /\ 1 <= d + 1 /\ d + 1 <= Len(q) /\ Len(q) - (d + 1) + 1 = n
  OBVIOUS
<1>3. t \in Seq(E)
  BY <1>2
<1>4. Len(t) = n
  BY <1>2
<1>5. ASSUME NEW i \in 1 .. n  PROVE t[i] = q[i + d]
  <2>1. (d + 1) + i - 1 = i + d
    OBVIOUS
  <2> QED  BY <1>2, <2>1
<1> QED  BY <1>1, <1>3, <1>4, <1>5

(* A cut list is a list of the same things, and short.                      *)
LEMMA LastOfTyped ==
    ASSUME NEW E, NEW q \in Seq(E), NEW n \in Nat \ {0}
    PROVE  LastOf(q, n) \in Seq(E) /\ Len(LastOf(q, n)) <= n
<1>1. CASE Len(q) <= n
  BY <1>1 DEF LastOf
<1>2. CASE Len(q) > n
  <2>1. Len(q) - n \in Nat \ {0} /\ Len(q) = n + (Len(q) - n)
    BY <1>2
  <2>2. LastOf(q, n) \in Seq(E) /\ Len(LastOf(q, n)) = n
    BY <2>1, LongLast
  <2> QED  BY <2>2
<1> QED  BY <1>1, <1>2

(* Cutting before an append changes nothing of what is left after it.       *)
LEMMA LastOfAppend ==
    ASSUME NEW E, NEW q \in Seq(E), NEW e \in E, NEW n \in Nat \ {0}
    PROVE  LastOf(Append(LastOf(q, n), e), n) = LastOf(Append(q, e), n)
<1>1. CASE Len(q) <= n
  BY <1>1 DEF LastOf
<1>2. CASE Len(q) > n
  <2> DEFINE d == Len(q) - n
             t == LastOf(q, n)
             a == Append(t, e)
             b == Append(q, e)
  <2>0. d \in Nat \ {0} /\ Len(q) = n + d
    BY <1>2
  <2> HIDE DEF d
  <2>1. t \in Seq(E) /\ Len(t) = n /\ \A i \in 1 .. n : t[i] = q[i + d]
    BY <2>0, LongLast
  <2> HIDE DEF t
  <2>2. /\ a \in Seq(E) /\ Len(a) = n + 1 /\ a[n + 1] = e /\ \A i \in 1 .. n : a[i] = t[i]
        /\ b \in Seq(E) /\ Len(b) = n + (d + 1) /\ b[n + d + 1] = e
        /\ \A i \in 1 .. n + d : b[i] = q[i]
    BY SMTT(20), <2>0, <2>1
  <2> HIDE DEF a, b
  <2>3. /\ LastOf(a, n) \in Seq(E) /\ Len(LastOf(a, n)) = n
        /\ \A i \in 1 .. n : LastOf(a, n)[i] = a[i + 1]
    BY <2>2, LongLast
  <2>4. /\ LastOf(b, n) \in Seq(E) /\ Len(LastOf(b, n)) = n
        /\ \A i \in 1 .. n : LastOf(b, n)[i] = b[i + (d + 1)]
    <3> DEFINE c == d + 1
    <3>1. c \in Nat \ {0} /\ Len(b) = n + c /\ b \in Seq(E)
      BY <2>0, <2>2
    <3> HIDE DEF c
    <3>2. /\ LastOf(b, n) \in Seq(E) /\ Len(LastOf(b, n)) = n
          /\ \A i \in 1 .. n : LastOf(b, n)[i] = b[i + c]
      BY <3>1, LongLast
    <3> QED  BY <3>2 DEF c
  <2>5. ASSUME NEW i \in 1 .. n  PROVE LastOf(a, n)[i] = LastOf(b, n)[i]
    <3>1. LastOf(a, n)[i] = a[i + 1] /\ LastOf(b, n)[i] = b[i + (d + 1)]
      BY <2>3, <2>4
    <3>2. CASE i = n
      <4>1. i + (d + 1) = n + d + 1
        BY <2>0, <3>2
      <4>2. a[i + 1] = e /\ b[i + (d + 1)] = e
        BY <2>2, <3>2, <4>1
      <4> QED  BY <3>1, <4>2
    <3>3. CASE i < n
      <4>1. i + 1 \in 1 .. n /\ i + (d + 1) \in 1 .. n + d /\ i + (d + 1) = (i + 1) + d
        BY <2>0, <3>3
      <4>2. a[i + 1] = t[i + 1] /\ t[i + 1] = q[(i + 1) + d]
        BY <2>1, <2>2, <4>1
      <4>3. b[i + (d + 1)] = q[i + (d + 1)]
        BY <2>2, <4>1
      <4> QED  BY <3>1, <4>1, <4>2, <4>3
    <3> QED  BY <3>2, <3>3
  <2>6. LastOf(a, n) = LastOf(b, n)
    BY <2>3, <2>4, <2>5, SeqEqual
  <2> QED  BY <2>6 DEF a, b, t
<1> QED  BY <1>1, <1>2

(* What is left of a chain is a chain.                                      *)
LEMMA ChainedLast ==
    ASSUME NEW E, NEW q \in Seq(E), NEW n \in Nat \ {0}, Chained(q)
    PROVE  Chained(LastOf(q, n))
<1>1. CASE Len(q) <= n
  BY <1>1 DEF LastOf
<1>2. CASE Len(q) > n
  <2> DEFINE t == LastOf(q, n)
             d == Len(q) - n
  <2>1. d \in Nat \ {0} /\ Len(q) = n + d
    BY <1>2
  <2> HIDE DEF d
  <2>2. /\ t \in Seq(E) /\ Len(t) = n /\ DOMAIN t = 1 .. n
        /\ \A i \in 1 .. n : t[i] = q[i + d]
    <3>1. /\ t \in Seq(E) /\ Len(t) = n
          /\ \A i \in 1 .. n : t[i] = q[i + d]
      BY <2>1, LongLast
    <3> HIDE DEF t
    <3> QED  BY <3>1
  <2> HIDE DEF t
  <2>3. DOMAIN q = 1 .. n + d
    BY <2>1
  <2>4. ASSUME NEW i \in 1 .. n, NEW j \in 1 .. n,
               i < j, t[i].session = t[j].session,
               \A k \in i + 1 .. j - 1 : t[k].session # t[i].session
        PROVE  t[j].prev = t[i].id /\ t[j].seq = t[i].seq + 1
    <3>1. /\ t[i] = q[i + d] /\ t[j] = q[j + d] /\ i + d < j + d
          /\ i + d \in DOMAIN q /\ j + d \in DOMAIN q
      BY <2>1, <2>2, <2>3, <2>4
    <3>2. ASSUME NEW k \in (i + d) + 1 .. (j + d) - 1  PROVE q[k].session # q[i + d].session
      <4>1. k - d \in i + 1 .. j - 1 /\ k - d \in 1 .. n /\ (k - d) + d = k
        BY <2>1
      <4>2. t[k - d] = q[(k - d) + d]
        BY <2>2, <4>1
      <4>3. t[k - d].session # t[i].session
        BY <2>4, <4>1
      <4> QED  BY <3>1, <4>1, <4>2, <4>3
    <3>3. q[i + d].session = q[j + d].session
      BY <2>4, <3>1
    <3>4. q[j + d].prev = q[i + d].id /\ q[j + d].seq = q[i + d].seq + 1
      BY <3>1, <3>2, <3>3 DEF Chained
    <3> QED  BY <3>1, <3>4
  <2>5. Chained(t)
    BY <2>2, <2>4 DEF Chained
  <2> QED  BY <2>5 DEF t
<1> QED  BY <1>1, <1>2

(* So is a chain with an event that names the last one of its session.      *)
LEMMA ChainedAppend ==
    ASSUME NEW E, NEW q \in Seq(E), NEW e \in E, Chained(q),
           \A i \in 1 .. Len(q) :
              (/\ q[i].session = e.session
               /\ \A k \in i + 1 .. Len(q) : q[k].session # e.session)
              => e.prev = q[i].id /\ e.seq = q[i].seq + 1
    PROVE  Chained(Append(q, e))
<1> DEFINE b == Append(q, e)
<1>1. /\ Len(q) \in Nat /\ b \in Seq(E) /\ DOMAIN b = 1 .. Len(q) + 1 /\ b[Len(q) + 1] = e
      /\ DOMAIN q = 1 .. Len(q) /\ \A i \in 1 .. Len(q) : b[i] = q[i]
  OBVIOUS
<1> HIDE DEF b
<1> SUFFICES ASSUME NEW i \in 1 .. Len(q) + 1, NEW j \in 1 .. Len(q) + 1,
                    i < j, b[i].session = b[j].session,
                    \A k \in i + 1 .. j - 1 : b[k].session # b[i].session
             PROVE  b[j].prev = b[i].id /\ b[j].seq = b[i].seq + 1
  BY <1>1 DEF Chained, b
<1>2. i \in 1 .. Len(q) /\ b[i] = q[i]
  BY <1>1
<1>3. CASE j <= Len(q)
  <2>1. j \in 1 .. Len(q) /\ b[j] = q[j] /\ \A k \in i + 1 .. j - 1 : b[k] = q[k]
    BY <1>1, <1>3
  <2>2. /\ i \in DOMAIN q /\ j \in DOMAIN q /\ i < j /\ q[i].session = q[j].session
        /\ \A k \in i + 1 .. j - 1 : q[k].session # q[i].session
    BY <1>1, <1>2, <2>1
  <2>3. q[j].prev = q[i].id /\ q[j].seq = q[i].seq + 1
    BY <2>2 DEF Chained
  <2> QED  BY <1>2, <2>1, <2>3
<1>4. CASE j = Len(q) + 1
  <2>1. b[j] = e /\ \A k \in i + 1 .. Len(q) : k \in 1 .. Len(q) /\ k \in i + 1 .. j - 1
    BY <1>1, <1>4
  <2>2. \A k \in i + 1 .. Len(q) : q[k].session # e.session
    BY <1>1, <2>1
  <2> QED  BY <1>2, <2>1, <2>2
<1> QED  BY <1>1, <1>3, <1>4

-----------------------------------------------------------------------------
(* What is projected from the list.                                         *)
LEMMA EventsTyped ==
    ASSUME EventInv
    PROVE  /\ memory \in Seq(SessionEvent) /\ Len(memory) \in Nat /\ DOMAIN memory = 1 .. Len(memory)
           /\ \A i \in 1 .. Len(memory) : memory[i] \in SessionEvent
           /\ primary \in Seq(SessionEvent) /\ spare \in Seq(SessionEvent)
BY DEF EventInv, EventsTypeOK

(* The last event of a session is one of it, and none of it follows.        *)
LEMMA LatestOf ==
    ASSUME EventInv, NEW s, Known(s)
    PROVE  /\ Latest(s) \in SessionEvent /\ Latest(s).session = s
           /\ \E i \in 1 .. Len(memory) :
                 /\ Latest(s) = memory[i]
                 /\ \A k \in i + 1 .. Len(memory) : memory[k].session # s
<1> DEFINE S == EventsOf(s)
<1>1. S \in SUBSET (1 .. Len(memory)) /\ S # {} /\ Len(memory) \in Nat
  BY EventsTyped DEF EventsOf, Known
<1>2. Max(S) \in S /\ \A y \in S : y <= Max(S)
  BY <1>1, LastPlace
<1>3. Max(S) \in 1 .. Len(memory) /\ memory[Max(S)].session = s
  BY <1>1, <1>2 DEF EventsOf
<1>4. ASSUME NEW k \in Max(S) + 1 .. Len(memory)  PROVE memory[k].session # s
  <2>1. k \in 1 .. Len(memory) /\ ~(k <= Max(S))
    BY <1>1, <1>3
  <2> QED  BY <1>2, <2>1, EventsTyped DEF EventsOf
<1>5. Latest(s) = memory[Max(S)]
  BY DEF Latest
<1> HIDE DEF S
<1> QED  BY <1>3, <1>4, <1>5, EventsTyped

(* What the list tells of a session.                                        *)
LEMMA ProjectionsTyped ==
    ASSUME EventInv, NEW s
    PROVE  StatusOf(s) \in Statuses /\ ParentOf(s) \in Sessions \cup {NoSession}
<1>1. StatusOf(s) \in Statuses
  BY LatestOf DEF StatusOf, Statuses, SessionEvent
<1> DEFINE named == {i \in EventsOf(s) : memory[i].parent # NoSession}
<1>2. CASE named = {}
  BY <1>1, <1>2 DEF ParentOf
<1>3. CASE named # {}
  <2>1. named \in SUBSET (1 .. Len(memory)) /\ Len(memory) \in Nat
    BY EventsTyped DEF EventsOf
  <2>2. Min(named) \in 1 .. Len(memory)
    BY <1>3, <2>1, FirstPlace
  <2>3. ParentOf(s) = memory[Min(named)].parent
    BY <1>3 DEF ParentOf
  <2>4. memory[Min(named)].parent \in Sessions \cup {NoSession}
    BY <2>2, EventsTyped DEF SessionEvent
  <2> QED  BY <1>1, <2>3, <2>4
<1> QED  BY <1>2, <1>3

(* The body of an event is an event.                                        *)
LEMMA BodyTyped ==
    ASSUME EventInv, issued < MaxAppends, NEW s \in Sessions, NEW kind \in Kinds,
           NEW status \in Statuses, NEW parent \in Sessions \cup {NoSession}
    PROVE  LET e == EventBody(s, kind, status, parent) IN
           /\ e \in SessionEvent /\ e.session = s /\ e.kind = kind /\ e.parent = parent
           /\ \A i \in 1 .. Len(memory) :
                 (/\ memory[i].session = s
                  /\ \A k \in i + 1 .. Len(memory) : memory[k].session # s)
                 => e.prev = memory[i].id /\ e.seq = memory[i].seq + 1
<1> DEFINE seq == IF Known(s) THEN Latest(s).seq + 1 ELSE 1
           prev == IF Known(s) THEN Latest(s).id ELSE 0
           id == issued + 1
           e == EventBody(s, kind, status, parent)
<1>1. seq \in Nat \ {0} /\ prev \in 0 .. MaxAppends
  <2>1. CASE Known(s)
    <3>1. Latest(s).seq \in Nat \ {0} /\ Latest(s).id \in 1 .. MaxAppends
      BY <2>1, LatestOf DEF SessionEvent
    <3> QED  BY <2>1, <3>1
  <2>2. CASE ~Known(s)
    BY <2>2, EventLimitsAssumption
  <2> QED  BY <2>1, <2>2
<1>2. id \in 1 .. MaxAppends
  <2>1. issued \in 0 .. MaxAppends /\ MaxAppends \in Nat
    BY EventLimitsAssumption DEF EventInv, EventsTypeOK
  <2> QED  BY <2>1
<1>3. e = [id |-> id, session |-> s, kind |-> kind, status |-> status, parent |-> parent,
           seq |-> seq, prev |-> prev]
  BY DEF EventBody
<1>4. ASSUME NEW i \in 1 .. Len(memory), memory[i].session = s,
             \A k \in i + 1 .. Len(memory) : memory[k].session # s
      PROVE  prev = memory[i].id /\ seq = memory[i].seq + 1
  <2>1. Known(s)
    BY <1>4, EventsTyped DEF Known, EventsOf
  <2>2. PICK j \in 1 .. Len(memory) :
          /\ Latest(s) = memory[j] /\ memory[j].session = s
          /\ \A k \in j + 1 .. Len(memory) : memory[k].session # s
    BY <2>1, LatestOf
  <2>3. i = j
    <3>1. ~(i < j) /\ ~(j < i)
      BY <1>4, <2>2
    <3> QED  BY <3>1
  <2> QED  BY <2>1, <2>2, <2>3
<1> HIDE DEF seq, prev, id, e
<1>5. e \in SessionEvent
  BY <1>1, <1>2, <1>3 DEF SessionEvent, Statuses, Kinds
<1>6. e.session = s /\ e.kind = kind /\ e.parent = parent /\ e.prev = prev /\ e.seq = seq
  BY <1>3
<1> QED  BY <1>4, <1>5, <1>6 DEF e

-----------------------------------------------------------------------------
(* An append keeps the chain as long as the primary journal has it.         *)
LEMMA AppendKeepsEvents ==
    ASSUME EventInv, NEW s \in Sessions, NEW kind \in Kinds, NEW status \in Statuses,
           NEW parent \in Sessions \cup {NoSession}, AppendEvent(s, kind, status, parent),
           owed' \in Seq([session : Sessions, kind : {"child-created", "child-deleted"},
                          status : Statuses])
    PROVE  EventInv'
<1> DEFINE e == EventBody(s, kind, status, parent)
           cut == LastOf(Append(memory, e), MaxEvents)
<1>1. /\ issued < MaxAppends /\ issued' = issued + 1 /\ memory' = cut
      /\ Persisted(e) \/ PersistFails(e)
      /\ UNCHANGED eventCrashes
  BY DEF AppendEvent
<1>2. /\ e \in SessionEvent /\ e.session = s
      /\ \A i \in 1 .. Len(memory) :
            (/\ memory[i].session = s
             /\ \A k \in i + 1 .. Len(memory) : memory[k].session # s)
            => e.prev = memory[i].id /\ e.seq = memory[i].seq + 1
  BY <1>1, BodyTyped
<1>3. MaxEvents \in Nat \ {0} /\ MaxAppends \in Nat /\ MaxWriteFaults \in Nat
  BY EventLimitsAssumption
<1> HIDE DEF e
<1>4. cut \in Seq(SessionEvent) /\ Len(cut) <= MaxEvents
  <2>1. Append(memory, e) \in Seq(SessionEvent)
    BY <1>2, EventsTyped
  <2> QED  BY <1>3, <2>1, LastOfTyped
<1>5. ASSUME Chained(memory)  PROVE Chained(cut)
  <2>1. Append(memory, e) \in Seq(SessionEvent)
    BY <1>2, EventsTyped
  <2>2. Chained(Append(memory, e))
    BY <1>2, <1>5, EventsTyped, ChainedAppend
  <2> QED  BY <1>3, <2>1, <2>2, ChainedLast
<1>6. ASSUME memory = LastOf(primary, MaxEvents)
      PROVE  cut = LastOf(Append(primary, e), MaxEvents)
  BY <1>2, <1>3, <1>6, EventsTyped, LastOfAppend
<1> HIDE DEF cut
<1>7. /\ primary' \in Seq(SessionEvent) /\ spare' \in Seq(SessionEvent)
      /\ halfLine' \in BOOLEAN /\ onFallback' \in BOOLEAN /\ missed' \in BOOLEAN
      /\ writeFaults' \in 0 .. MaxWriteFaults
      /\ ~missed' => /\ ~missed /\ ~onFallback' /\ primary' = Append(primary, e)
  <2>0. /\ onFallback \in BOOLEAN /\ missed \in BOOLEAN /\ halfLine \in BOOLEAN
        /\ writeFaults \in 0 .. MaxWriteFaults
        /\ primary \in Seq(SessionEvent) /\ spare \in Seq(SessionEvent)
    BY DEF EventInv, EventsTypeOK
  <2>1. CASE Persisted(e)
    <3>1. CASE ~onFallback /\ ~halfLine
      <4>1. /\ primary' = Append(primary, e)
            /\ UNCHANGED <<halfLine, onFallback, spare, writeFaults, missed>>
        BY <2>1, <3>1 DEF Persisted
      <4>2. Append(primary, e) \in Seq(SessionEvent)
        BY <1>2, <2>0
      <4> QED  BY <2>0, <3>1, <4>1, <4>2
    <3>2. CASE ~onFallback /\ halfLine
      BY <2>0, <2>1, <3>2 DEF Persisted
    <3>3. CASE onFallback
      BY <1>2, <2>0, <2>1, <3>3 DEF Persisted, EventInv
    <3> QED  BY <3>1, <3>2, <3>3
  <2>2. CASE PersistFails(e)
    <3>1. /\ writeFaults < MaxWriteFaults /\ writeFaults' = writeFaults + 1
          /\ missed' = TRUE /\ primary' = primary
          /\ halfLine' \in {halfLine, TRUE} /\ onFallback' \in {onFallback, TRUE}
          /\ spare' \in {spare, Append(spare, e)}
      BY <2>2 DEF PersistFails
    <3>2. Append(spare, e) \in Seq(SessionEvent)
      BY <1>2, <2>0
    <3>3. primary' \in Seq(SessionEvent) /\ spare' \in Seq(SessionEvent)
      BY <2>0, <3>1, <3>2
    <3>4. halfLine' \in BOOLEAN /\ onFallback' \in BOOLEAN /\ missed' \in BOOLEAN
      BY <2>0, <3>1
    <3>5. writeFaults' \in 0 .. MaxWriteFaults
      BY <1>3, <2>0, <3>1
    <3> QED  BY <3>1, <3>3, <3>4, <3>5
  <2> QED  BY <1>1, <2>1, <2>2
<1>8. EventsTypeOK'
  <2>1. issued' \in 0 .. MaxAppends
    BY <1>1, <1>3 DEF EventInv, EventsTypeOK
  <2>2. eventCrashes' \in 0 .. MaxEventCrashes
    BY <1>1 DEF EventInv, EventsTypeOK
  <2> QED  BY <1>1, <1>4, <1>7, <2>1, <2>2 DEF EventsTypeOK, Statuses
<1> QED  BY <1>1, <1>5, <1>6, <1>7, <1>8 DEF EventInv

(* What a request may still have to append.                                 *)
Owed == Seq([session : Sessions, kind : {"child-created", "child-deleted"}, status : Statuses])

(* What is owed is told to sessions.                                        *)
LEMMA OwedTyped ==
    ASSUME EventInv
    PROVE  /\ owed \in Owed
           /\ owed # <<>> => /\ Head(owed).session \in Sessions
                             /\ Head(owed).kind \in {"child-created", "child-deleted"}
                             /\ Head(owed).status \in Statuses /\ Tail(owed) \in Owed
<1> DEFINE Q == [session : Sessions, kind : {"child-created", "child-deleted"}, status : Statuses]
<1>1. owed \in Seq(Q)
  BY DEF EventInv, EventsTypeOK, Statuses
<1>2. owed # <<>> => Head(owed) \in Q /\ Tail(owed) \in Seq(Q)
  <2> HIDE DEF Q
  <2> QED  BY <1>1
<1>3. \A q \in Q : /\ q.session \in Sessions /\ q.kind \in {"child-created", "child-deleted"}
                   /\ q.status \in Statuses
  OBVIOUS
<1> HIDE DEF Q
<1> QED  BY <1>1, <1>2, <1>3 DEF Owed, Q

(* Nothing is a list of anything.                                           *)
LEMMA NothingOwed ==
    <<>> \in Owed /\ <<>> \in Seq(SessionEvent) /\ Len(<<>>) = 0
<1>1. \A Q : <<>> \in Seq(Q) /\ Len(<<>>) = 0
  OBVIOUS
<1> QED  BY <1>1 DEF Owed

(* A request appends, and leaves what it owes.                              *)
LEMMA RequestKeepsEvents ==
    ASSUME EventInv, NEW s \in Sessions,
           \/ \E status \in {"running", "completed"} : Checkpoint(s, status)
           \/ Resume(s) \/ DeleteBranch(s) \/ \E c \in Forks : Fork(s, c)
    PROVE  EventInv'
<1>0. NoSession \in Sessions \cup {NoSession} /\ owed \in Owed
  BY OwedTyped
<1>1. CASE \E status \in {"running", "completed"} : Checkpoint(s, status)
  <2>1. PICK status \in {"running", "completed"} :
          AppendEvent(s, "event", status, NoSession) /\ owed' = owed
    BY <1>1 DEF Checkpoint
  <2>2. status \in Statuses /\ "event" \in Kinds /\ owed' \in Owed
    BY <1>0, <2>1 DEF Statuses, Kinds
  <2> QED  BY <1>0, <2>1, <2>2, AppendKeepsEvents DEF Owed
<1>2. CASE Resume(s)
  <2>1. "running" \in Statuses /\ "resumed" \in Kinds
    BY DEF Statuses, Kinds
  <2>2. AppendEvent(s, "resumed", "running", NoSession) /\ owed' \in Owed
    BY <1>0, <1>2 DEF Resume
  <2> QED  BY <1>0, <2>1, <2>2, AppendKeepsEvents DEF Owed
<1>3. CASE DeleteBranch(s)
  <2> DEFINE parent == ParentOf(s)
             told == StatusOf(parent)
             q == [session |-> parent, kind |-> "child-deleted", status |-> told]
  <2>1. /\ AppendEvent(s, "deleted", "deleted", parent) /\ owed' = <<q>>
        /\ parent # NoSession
    BY <1>3 DEF DeleteBranch
  <2>2. parent \in Sessions /\ told \in Statuses
    BY <2>1, ProjectionsTyped
  <2>3. "deleted" \in Statuses /\ "deleted" \in Kinds
    BY DEF Statuses, Kinds
  <2> HIDE DEF parent, told
  <2>4. owed' \in Owed
    BY <2>1, <2>2 DEF Owed
  <2> QED  BY <2>1, <2>2, <2>3, <2>4, AppendKeepsEvents DEF Owed
<1>4. CASE \E c \in Forks : Fork(s, c)
  <2> DEFINE told == StatusOf(s)
             q == [session |-> s, kind |-> "child-created", status |-> told]
  <2>1. PICK c \in Forks : AppendEvent(c, "forked", "paused", s) /\ owed' = <<q>>
    BY <1>4 DEF Fork
  <2>2. told \in Statuses /\ c \in Sessions
    BY ProjectionsTyped DEF Sessions
  <2>3. "paused" \in Statuses /\ "forked" \in Kinds
    BY DEF Statuses, Kinds
  <2> HIDE DEF told
  <2>4. owed' \in Owed
    BY <2>1, <2>2 DEF Owed
  <2> QED  BY <2>1, <2>2, <2>3, <2>4, AppendKeepsEvents DEF Owed
<1> QED  BY <1>1, <1>2, <1>3, <1>4

(* A parent is told.                                                        *)
LEMMA TellParentKeepsEvents ==
    ASSUME EventInv, TellParent
    PROVE  EventInv'
<1> DEFINE q == Head(owed)
<1>1. AppendEvent(q.session, q.kind, q.status, NoSession) /\ owed' = Tail(owed) /\ owed # <<>>
  BY DEF TellParent, Requests
<1>2. /\ q.session \in Sessions /\ q.kind \in Kinds /\ q.status \in Statuses
      /\ NoSession \in Sessions \cup {NoSession} /\ owed' \in Owed
  BY <1>1, OwedTyped DEF Kinds
<1> HIDE DEF q
<1> QED  BY <1>1, <1>2, AppendKeepsEvents DEF Owed

(* A restart reads the end of the primary journal.                          *)
LEMMA RestartKeepsEvents ==
    ASSUME EventInv, RestartEvents
    PROVE  EventInv'
<1>1. /\ memory' = LastOf(primary, MaxEvents) /\ onFallback' = FALSE /\ owed' = <<>>
      /\ halfLine' \in {halfLine, TRUE} /\ eventCrashes < MaxEventCrashes
      /\ eventCrashes' = eventCrashes + 1
      /\ UNCHANGED <<primary, spare, issued, writeFaults, missed>>
  BY DEF RestartEvents
<1>2. MaxEvents \in Nat \ {0} /\ MaxEventCrashes \in Nat
  BY EventLimitsAssumption
<1>3. memory' \in Seq(SessionEvent) /\ Len(memory') <= MaxEvents
  BY <1>1, <1>2, EventsTyped, LastOfTyped
<1>4. eventCrashes' \in 0 .. MaxEventCrashes
  BY <1>1, <1>2 DEF EventInv, EventsTypeOK
<1>5. EventsTypeOK'
  <2>1. owed' \in Owed
    BY <1>1, NothingOwed
  <2>2. halfLine' \in BOOLEAN /\ onFallback' \in BOOLEAN
    BY <1>1 DEF EventInv, EventsTypeOK
  <2> QED  BY <1>1, <1>3, <1>4, <2>1, <2>2 DEF EventInv, EventsTypeOK, Owed, Statuses
<1>6. ~missed => Chained(memory')
  BY <1>1 DEF EventInv
<1> QED  BY <1>1, <1>5, <1>6 DEF EventInv

(* There are no events yet.                                                 *)
LEMMA EventsInitInv ==
    ASSUME EventsInit
    PROVE  EventInv
<1>1. /\ MaxEvents \in Nat \ {0} /\ MaxAppends \in Nat /\ MaxWriteFaults \in Nat
      /\ MaxEventCrashes \in Nat
  BY EventLimitsAssumption
<1>2. EventsTypeOK
  <2>1. /\ memory \in Seq(SessionEvent) /\ Len(memory) <= MaxEvents
        /\ primary \in Seq(SessionEvent) /\ spare \in Seq(SessionEvent) /\ owed \in Owed
    BY <1>1, NothingOwed DEF EventsInit
  <2>2. /\ issued \in 0 .. MaxAppends /\ writeFaults \in 0 .. MaxWriteFaults
        /\ eventCrashes \in 0 .. MaxEventCrashes
    BY <1>1 DEF EventsInit
  <2>3. halfLine \in BOOLEAN /\ onFallback \in BOOLEAN /\ missed \in BOOLEAN
    BY DEF EventsInit
  <2> QED  BY <2>1, <2>2, <2>3 DEF EventsTypeOK, Owed, Statuses
<1>3. LastOf(<<>>, MaxEvents) = <<>>
  BY <1>1 DEF LastOf
<1> QED  BY <1>2, <1>3 DEF EventsInit, EventInv, Chained

(* Every step keeps the invariant.                                          *)
LEMMA EventsStep ==
    ASSUME EventInv, [EventsNext]_eventVars
    PROVE  EventInv'
<1>1. CASE UNCHANGED eventVars
  BY <1>1 DEF eventVars, EventInv, EventsTypeOK
<1>2. CASE EventsNext
  <2>1. Roots \subseteq Sessions
    BY DEF Sessions
  <2> QED  BY <1>2, <2>1, RequestKeepsEvents, TellParentKeepsEvents, RestartKeepsEvents
           DEF EventsNext
<1> QED  BY <1>1, <1>2

(* The list in memory is the end of the primary journal, and a chain, as    *)
(* long as every event reached it.                                          *)
THEOREM EventsInvariant == EventsSpec => []EventInv
BY EventsInitInv, EventsStep, PTL DEF EventsSpec

(* Type correctness for all sessions, limits and numbers of events.         *)
THEOREM EventsTypeCorrect == EventsSpec => []EventsTypeOK
BY EventsInvariant, PTL DEF EventInv

-----------------------------------------------------------------------------
(* What is hidden.                                                          *)

(* Only sessions of the list are listed, so they can be counted.            *)
LEMMA ListedAreFinite ==
    ASSUME EventInv
    PROVE  IsFiniteSet({r \in Sessions : Listed(r)})
<1> DEFINE places == 1 .. Len(memory)
           present == {memory[i].session : i \in places}
<1>1. IsFiniteSet(places)
  BY EventsTyped, FS_Interval
<1>2. IsFiniteSet(present)
  <2> DEFINE f == [i \in places |-> memory[i].session]
  <2>1. f \in Surjection(places, present)
    BY DEF Surjection
  <2> HIDE DEF places, present, f
  <2> QED  BY <1>1, <2>1, FS_Surjection
<1>3. {r \in Sessions : Listed(r)} \subseteq present
  BY EventsTyped DEF Listed, Known, EventsOf
<1> HIDE DEF present
<1> QED  BY <1>2, <1>3, FS_Subset

(* Within the limit a child that is listed is among the children.           *)
LEMMA ChildIsFound ==
    ASSUME EventInv, NEW c \in Sessions, Listed(c),
           Cardinality({r \in Sessions : Listed(r)}) <= SessionLimit
    PROVE  c \in Children(ParentOf(c))
<1> DEFINE listed == {r \in Sessions : Listed(r)}
           fresher == {r \in Sessions : Listed(r) /\ Fresher(r, c)}
<1>1. IsFiniteSet(listed) /\ Cardinality(listed) \in Nat
  BY ListedAreFinite, FS_CardinalityType
<1>2. ~Fresher(c, c)
  BY LatestOf DEF Listed, Fresher, SessionEvent
<1>3. fresher \subseteq listed \ {c} /\ c \in listed
  BY <1>2
<1>4. SessionLimit \in Nat
  BY EventLimitsAssumption
<1>5. Cardinality(fresher) < SessionLimit
  <2> HIDE DEF listed, fresher
  <2>1. IsFiniteSet(listed \ {c}) /\ Cardinality(listed \ {c}) = Cardinality(listed) - 1
    BY <1>1, <1>3, FS_RemoveElement
  <2>2. IsFiniteSet(fresher) /\ Cardinality(fresher) <= Cardinality(listed \ {c})
    BY <1>3, <2>1, FS_Subset
  <2>3. Cardinality(fresher) \in Nat
    BY <2>2, FS_CardinalityType
  <2> QED  BY <1>1, <1>4, <2>1, <2>2, <2>3 DEF listed
<1> QED  BY <1>5 DEF Children

(* An event that hides a session is the tombstone a delete appends.         *)
LEMMA HidingIsDeleting ==
    ASSUME EventInv, NEW s \in Sessions, Listed(s), ~Listed(s)', NEW r \in Sessions,
           NEW kind \in Kinds, NEW status \in Statuses,
           NEW parent \in Sessions \cup {NoSession}, AppendEvent(r, kind, status, parent),
           \E i \in DOMAIN memory' : memory'[i].session = s
    PROVE  kind = "deleted" /\ r = s
<1> DEFINE e == EventBody(r, kind, status, parent)
           long == Append(memory, e)
           n == Len(memory)
<1>1. memory' = LastOf(long, MaxEvents) /\ issued < MaxAppends
  BY DEF AppendEvent
<1>2. e \in SessionEvent /\ e.session = r /\ e.kind = kind
  BY <1>1, BodyTyped
<1> HIDE DEF e
<1>3. /\ n \in Nat /\ long \in Seq(SessionEvent) /\ Len(long) = n + 1 /\ long[n + 1] = e
      /\ \A i \in 1 .. n : long[i] = memory[i]
  BY <1>2, EventsTyped
<1> HIDE DEF long, n
<1>4. \A i \in DOMAIN memory' : \E j \in 1 .. n + 1 : memory'[i] = long[j]
  <2>0. MaxEvents \in Nat \ {0}
    BY EventLimitsAssumption
  <2>1. CASE Len(long) <= MaxEvents
    BY <1>1, <1>3, <2>1 DEF LastOf
  <2>2. CASE Len(long) > MaxEvents
    <3> DEFINE d == Len(long) - MaxEvents
    <3>1. d \in Nat \ {0} /\ Len(long) = MaxEvents + d
      BY <1>3, <2>0, <2>2
    <3> HIDE DEF d
    <3>2. /\ LastOf(long, MaxEvents) \in Seq(SessionEvent)
          /\ Len(LastOf(long, MaxEvents)) = MaxEvents
          /\ \A i \in 1 .. MaxEvents : LastOf(long, MaxEvents)[i] = long[i + d]
      BY ZenonT(30), <1>3, <2>0, <3>1, LongLast
    <3>3. DOMAIN memory' = 1 .. MaxEvents
      BY <1>1, <3>2
    <3>4. ASSUME NEW i \in 1 .. MaxEvents
          PROVE  i + d \in 1 .. n + 1 /\ memory'[i] = long[i + d]
      BY <1>1, <1>3, <2>0, <3>1, <3>2
    <3> QED  BY <3>3, <3>4
  <2> QED  BY <1>3, <2>0, <2>1, <2>2
<1>5. Known(s)'
  BY DEF Known, EventsOf
<1>6. PICK i \in DOMAIN memory' : memory'[i].session = s /\ memory'[i].kind = "deleted"
  BY <1>5 DEF Listed, IsDeleted, EventsOf
<1>7. PICK j \in 1 .. n + 1 : memory'[i] = long[j]
  BY <1>4
<1>8. CASE j \in 1 .. n
  <2>1. memory[j].session = s /\ memory[j].kind = "deleted" /\ j \in DOMAIN memory
    BY <1>3, <1>6, <1>7, <1>8, EventsTyped DEF n
  <2> QED  BY <2>1 DEF Listed, IsDeleted, EventsOf
<1>9. CASE j = n + 1
  BY <1>2, <1>3, <1>6, <1>7, <1>9
<1> QED  BY <1>3, <1>8, <1>9

(* What a step hides has no children.                                       *)
LEMMA HiddenAreLeaves ==
    ASSUME EventInv, EventsNext, NEW s \in Sessions,
           Listed(s), ~Listed(s)', eventCrashes' = eventCrashes,
           \E i \in DOMAIN memory' : memory'[i].session = s
    PROVE  Children(s) = {}
<1>0. eventCrashes \in Nat
  BY EventLimitsAssumption DEF EventInv, EventsTypeOK
<1>1. ASSUME RestartEvents  PROVE FALSE
  <2>1. eventCrashes' = eventCrashes + 1
    BY <1>1 DEF RestartEvents
  <2> QED  BY <1>0, <2>1
<1>2. NoSession \in Sessions \cup {NoSession} /\ Roots \subseteq Sessions /\ Forks \subseteq Sessions
  BY DEF Sessions
<1>3. CASE \E r \in Roots, status \in {"running", "completed"} : Checkpoint(r, status)
  <2>1. PICK r \in Roots, status \in {"running", "completed"} :
          AppendEvent(r, "event", status, NoSession)
    BY <1>3 DEF Checkpoint
  <2>2. r \in Sessions /\ "event" \in Kinds /\ status \in Statuses
    BY <1>2 DEF Kinds, Statuses
  <2> QED  BY <1>2, <2>1, <2>2, HidingIsDeleting
<1>4. CASE \E r \in Sessions, c \in Forks : Fork(r, c)
  <2>1. PICK r \in Sessions, c \in Forks : AppendEvent(c, "forked", "paused", r)
    BY <1>4 DEF Fork
  <2>2. c \in Sessions /\ "forked" \in Kinds /\ "paused" \in Statuses
    BY <1>2 DEF Kinds, Statuses
  <2> QED  BY <1>2, <2>1, <2>2, HidingIsDeleting
<1>5. CASE \E r \in Sessions : Resume(r)
  <2>1. PICK r \in Sessions : AppendEvent(r, "resumed", "running", NoSession)
    BY <1>5 DEF Resume
  <2>2. "resumed" \in Kinds /\ "running" \in Statuses
    BY DEF Kinds, Statuses
  <2> QED  BY <1>2, <2>1, <2>2, HidingIsDeleting
<1>6. CASE \E r \in Sessions : DeleteBranch(r)
  <2>1. PICK r \in Sessions : DeleteBranch(r)
    BY <1>6
  <2>2. AppendEvent(r, "deleted", "deleted", ParentOf(r)) /\ Children(r) = {}
    BY <2>1 DEF DeleteBranch
  <2>3. "deleted" \in Kinds /\ "deleted" \in Statuses /\ ParentOf(r) \in Sessions \cup {NoSession}
    BY ProjectionsTyped DEF Kinds, Statuses
  <2>4. r = s
    BY <2>2, <2>3, HidingIsDeleting
  <2> QED  BY <2>2, <2>4
<1>7. CASE TellParent
  <2> DEFINE q == Head(owed)
  <2>1. AppendEvent(q.session, q.kind, q.status, NoSession) /\ owed # <<>>
    BY <1>7 DEF TellParent, Requests
  <2>2. /\ q.session \in Sessions /\ q.kind \in Kinds /\ q.status \in Statuses
        /\ q.kind # "deleted"
    BY <2>1, OwedTyped DEF Kinds
  <2> HIDE DEF q
  <2> QED  BY <1>2, <2>1, <2>2, HidingIsDeleting
<1> QED  BY <1>1, <1>3, <1>4, <1>5, <1>6, <1>7 DEF EventsNext

(* No chain of a session breaks, whatever was cut off and across restarts,  *)
(* as long as every event reached the primary journal; and no branch is     *)
(* hidden with something listed below it.                                   *)
THEOREM HistoryWhole == EventsSpec => HistoryStaysWhole
<1>1. EventInv => ChainUnbroken
  BY DEF EventInv, ChainUnbroken, Chained
<1>2. ASSUME EventInv, [EventsNext]_eventVars, NEW s \in Sessions,
             Listed(s), ~Listed(s)', memory' # memory, eventCrashes' = eventCrashes,
             \E i \in DOMAIN memory' : memory'[i].session = s,
             Cardinality({r \in Sessions : Listed(r)}) <= SessionLimit,
             NEW c \in Sessions, Listed(c)
      PROVE  ParentOf(c) # s
  <2>1. EventsNext
    BY <1>2 DEF eventVars
  <2>2. Children(s) = {}
    BY <1>2, <2>1, HiddenAreLeaves
  <2>3. c \in Children(ParentOf(c))
    BY <1>2, ChildIsFound
  <2> QED  BY <2>2, <2>3
<1>3. EventInv /\ [EventsNext]_eventVars =>
        [\A s \in Sessions :
            /\ Listed(s) /\ ~Listed(s)' /\ memory' # memory /\ eventCrashes' = eventCrashes
            /\ \E i \in DOMAIN memory' : memory'[i].session = s
            /\ Cardinality({r \in Sessions : Listed(r)}) <= SessionLimit
            => \A c \in Sessions : Listed(c) => ParentOf(c) # s]_eventVars
  BY <1>2
<1> QED  BY <1>1, <1>3, EventsInvariant, PTL DEF EventsSpec, HistoryStaysWhole, OnlyLeavesAreHidden

-----------------------------------------------------------------------------
(* ClusterRegistry. The inductive invariant says what a handler knows       *)
(* between two of its statements: a kubeconfig that is about to be saved    *)
(* has been proved, and a cached inventory is the one of the clusters in    *)
(* its key.                                                                 *)

Updating == [at : {"probing", "saving", "marking"}, op : {"upload", "refresh"},
             cluster : ClusterIds, kubeconfig : Kubeconfigs]
Verifying == [at : {"verifying"}, cluster : ClusterIds, kubeconfig : Kubeconfigs]
Reading == [at : {"reading"}, asked : SUBSET ClusterIds, lists : Listings]
Steps == {Free, [at |-> "dropping"]} \cup Updating \cup Verifying \cup Reading
Rows == [kubeconfig : Kubeconfigs, status : {"pending", "connected", "unreachable"}]

(* The kubeconfig a handler is about to save has passed its probe. *)
SavingIsProved ==
    \A r \in Callers : caller[r].at = "saving" => caller[r].kubeconfig \in proved

(* A cached inventory lists the clusters that its key names. *)
EntriesMatchKeys ==
    \A key \in SUBSET ClusterIds : inventory[key] # NoEntry => DOMAIN inventory[key] = key

ClustersInv ==
    ClustersTypeOK /\ SavingIsProved /\ EntriesMatchKeys /\ RegistryIsSound

-----------------------------------------------------------------------------
(* The steps of a handler are told apart by where it is. *)
LEMMA StepIsUpdating ==
    ASSUME NEW s \in Steps, s.at \in {"probing", "saving", "marking"}
    PROVE  s \in Updating
<1>1. Free.at = "free" /\ [at |-> "dropping"].at = "dropping"
  BY DEF Free
<1>2. s \notin Verifying /\ s \notin Reading
  BY DEF Verifying, Reading
<1> QED
  BY <1>1, <1>2 DEF Steps

LEMMA StepIsVerifying ==
    ASSUME NEW s \in Steps, s.at = "verifying"
    PROVE  s \in Verifying
<1>1. Free.at = "free" /\ [at |-> "dropping"].at = "dropping"
  BY DEF Free
<1>2. s \notin Updating /\ s \notin Reading
  BY DEF Updating, Reading
<1> QED
  BY <1>1, <1>2 DEF Steps

LEMMA StepIsReading ==
    ASSUME NEW s \in Steps, s.at = "reading"
    PROVE  s \in Reading
<1>1. Free.at = "free" /\ [at |-> "dropping"].at = "dropping"
  BY DEF Free
<1>2. s \notin Verifying /\ s \notin Updating
  BY DEF Verifying, Updating
<1> QED
  BY <1>1, <1>2 DEF Steps

(* The type invariant in the terms of this module. *)
LEMMA TypeIs ==
    ClustersTypeOK <=>
        /\ rows \in [ClusterIds -> {NoRow} \cup Rows]
        /\ accepted \subseteq Kubeconfigs /\ proved \subseteq Kubeconfigs
        /\ caller \in [Callers -> Steps]
        /\ inventory \in [SUBSET ClusterIds -> {NoEntry} \cup Listings]
        /\ calls \in 0 .. MaxCalls /\ turns \in 0 .. MaxTurns
        /\ shown \in [asked : SUBSET ClusterIds, lists : Listings]
  BY Zenon DEF ClustersTypeOK, Steps, Updating, Verifying, Reading, Rows

(* The inventory nobody has been read for yet. *)
LEMMA NothingRead == <<>> \in Listings /\ DOMAIN <<>> = {}
<1>1. DOMAIN <<>> = {}
  OBVIOUS
<1>2. <<>> \in [{} -> Servers \cup {"error"}]
  OBVIOUS
<1>3. {} \in SUBSET ClusterIds
  OBVIOUS
<1>4. [{} -> Servers \cup {"error"}] \in {[ids -> Servers \cup {"error"}] : ids \in SUBSET ClusterIds}
  BY <1>3
<1> QED
  BY <1>1, <1>2, <1>4 DEF Listings

(* A list of a set of clusters is a listing. *)
LEMMA ListingOf ==
    ASSUME NEW l, l \in Listings
    PROVE  DOMAIN l \subseteq ClusterIds /\ l \in [DOMAIN l -> Servers \cup {"error"}]
<1>1. PICK ids \in SUBSET ClusterIds : l \in [ids -> Servers \cup {"error"}]
  BY DEF Listings
<1> QED
  BY <1>1

(* One more cluster in a list gives a listing. *)
LEMMA ListingGrows ==
    ASSUME NEW l \in Listings, NEW c \in ClusterIds, NEW from \in Servers \cup {"error"}
    PROVE  [d \in DOMAIN l \cup {c} |-> IF d = c THEN from ELSE l[d]] \in Listings
<1> DEFINE ids == DOMAIN l \cup {c}
           grown == [d \in ids |-> IF d = c THEN from ELSE l[d]]
<1>1. ids \in SUBSET ClusterIds
  BY ListingOf
<1>2. grown \in [ids -> Servers \cup {"error"}]
  BY ListingOf
<1>3. [ids -> Servers \cup {"error"}] \in
          {[s -> Servers \cup {"error"}] : s \in SUBSET ClusterIds}
  BY <1>1
<1> QED
  BY <1>2, <1>3 DEF Listings

-----------------------------------------------------------------------------
(* A table of earlier uploads and an empty cache satisfy the invariant. *)
LEMMA ClustersInvInit == ClustersInit => ClustersInv
<1> SUFFICES ASSUME ClustersInit PROVE ClustersInv
  OBVIOUS
<1>1. rows \in [ClusterIds -> {NoRow} \cup Rows]
  <2>1. \A k \in Kubeconfigs : Row(k, "connected") \in Rows
    BY DEF Row, Rows
  <2> QED
    BY <2>1 DEF ClustersInit
<1>2. proved \subseteq Kubeconfigs
  BY <1>1 DEF ClustersInit, Registered, Rows
<1>3. caller \in [Callers -> Steps]
  BY DEF ClustersInit, Steps
<1>4. calls \in 0 .. MaxCalls /\ turns \in 0 .. MaxTurns
  BY RegistryBoundsAssumption DEF ClustersInit
<1>5. shown \in [asked : SUBSET ClusterIds, lists : Listings]
  BY NothingRead DEF ClustersInit
<1>6. ClustersTypeOK
  <2>1. accepted \subseteq Kubeconfigs
    BY DEF ClustersInit
  <2>2. inventory \in [SUBSET ClusterIds -> {NoEntry} \cup Listings]
    BY DEF ClustersInit
  <2> QED
    BY <1>1, <1>2, <1>3, <1>4, <1>5, <2>1, <2>2, TypeIs
<1>7. SavingIsProved /\ EntriesMatchKeys
  BY DEF ClustersInit, SavingIsProved, EntriesMatchKeys, Free
<1>8. RegistryIsSound
  BY NothingRead DEF ClustersInit, RegistryIsSound, StoredWasProved, InventoryOfRegistered
<1> QED
  BY <1>6, <1>7, <1>8 DEF ClustersInv

(* A handler that only begins leaves the table and what is shown alone. *)
LEMMA CallKeepsInv ==
    ASSUME ClustersInv, NEW r \in Callers, NEW s \in Steps, Calls(r, s), s.at # "saving"
    PROVE  ClustersInv'
<1> USE TypeIs DEF ClustersInv, Calls, Moves
<1>1. caller' \in [Callers -> Steps] /\ calls' \in 0 .. MaxCalls
  BY RegistryBoundsAssumption
<1>2. ClustersTypeOK'
  BY <1>1 DEF ClustersTypeOK, Steps, Updating, Verifying, Reading
<1>3. SavingIsProved'
  BY DEF SavingIsProved
<1>4. EntriesMatchKeys' /\ RegistryIsSound'
  BY DEF EntriesMatchKeys, RegistryIsSound, StoredWasProved, InventoryOfRegistered, Registered
<1> QED
  BY <1>2, <1>3, <1>4

(* A handler that begins is in a step of its own. *)
LEMMA BeginKeepsInv ==
    ASSUME ClustersInv, NEW r \in Callers, NEW c \in ClusterIds, NEW k \in Kubeconfigs,
           Upload(r, c, k) \/ RefreshToken(r, c, k.token) \/ Verify(r, c)
    PROVE  ClustersInv'
<1> USE DEF ClustersInv
<1>0. rows \in [ClusterIds -> {NoRow} \cup Rows]
  BY TypeIs
<1>1. CASE Upload(r, c, k)
  <2>1. [at |-> "probing", op |-> "upload", cluster |-> c, kubeconfig |-> k] \in Steps
    BY DEF Steps, Updating
  <2> QED
    BY <1>1, <2>1, CallKeepsInv DEF Upload
<1>2. CASE RefreshToken(r, c, k.token)
  <2> DEFINE fresh == [server |-> rows[c].kubeconfig.server, token |-> k.token]
  <2>1. rows[c].kubeconfig \in Kubeconfigs
    BY <1>0, <1>2 DEF RefreshToken, Registered, Rows
  <2>2. fresh \in Kubeconfigs
    BY <2>1, KubeconfigsAssumption
  <2>3. [at |-> "probing", op |-> "refresh", cluster |-> c, kubeconfig |-> fresh] \in Steps
    BY <2>2 DEF Steps, Updating
  <2> QED
    BY <1>2, <2>3, CallKeepsInv DEF RefreshToken
<1>3. CASE Verify(r, c)
  <2>1. rows[c].kubeconfig \in Kubeconfigs
    BY <1>0, <1>3 DEF Verify, Registered, Rows
  <2>2. [at |-> "verifying", cluster |-> c, kubeconfig |-> rows[c].kubeconfig] \in Steps
    BY <2>1 DEF Steps, Verifying
  <2> QED
    BY <1>3, <2>2, CallKeepsInv DEF Verify
<1> QED
  BY <1>1, <1>2, <1>3

(* A probe adds what it found connected to what is proved, and only then is *)
(* the kubeconfig about to be saved.                                        *)
LEMMA ProbedKeepsInv ==
    ASSUME ClustersInv, NEW r \in Callers, Probed(r)
    PROVE  ClustersInv'
<1> USE TypeIs DEF ClustersInv
<1>1. caller[r] \in Updating
  BY StepIsUpdating DEF Probed
<1>2. CASE /\ proved' = proved \cup {caller[r].kubeconfig}
           /\ Moves(r, [caller[r] EXCEPT !.at = "saving"])
  <2> DEFINE s == [caller[r] EXCEPT !.at = "saving"]
  <2>1. s \in Updating /\ s.kubeconfig = caller[r].kubeconfig
    BY <1>1 DEF Updating
  <2>2. caller' = [caller EXCEPT ![r] = s] /\ s \in Steps
    BY <1>2, <2>1 DEF Moves, Steps
  <2>3. proved' \subseteq Kubeconfigs /\ proved \subseteq proved' /\ s.kubeconfig \in proved'
    BY <1>1, <1>2, <2>1 DEF Updating
  <2>4. ClustersTypeOK'
    <3>1. caller' \in [Callers -> Steps]
      BY <2>2
    <3>2. /\ rows' \in [ClusterIds -> {NoRow} \cup Rows] /\ accepted' \subseteq Kubeconfigs
          /\ inventory' \in [SUBSET ClusterIds -> {NoEntry} \cup Listings]
          /\ calls' \in 0 .. MaxCalls /\ turns' \in 0 .. MaxTurns
          /\ shown' \in [asked : SUBSET ClusterIds, lists : Listings]
      BY DEF Probed
    <3> QED
      BY <3>1, <3>2, <2>3 DEF ClustersTypeOK, Steps, Updating, Verifying, Reading, Rows
  <2>5. SavingIsProved'
    BY <2>2, <2>3 DEF SavingIsProved
  <2>6. EntriesMatchKeys' /\ RegistryIsSound'
    BY <2>3 DEF Probed, EntriesMatchKeys, RegistryIsSound, StoredWasProved,
                InventoryOfRegistered, Registered
  <2> QED
    BY <2>4, <2>5, <2>6
<1>3. CASE Moves(r, Free) /\ UNCHANGED proved
  <2>1. caller' \in [Callers -> Steps] /\ caller' = [caller EXCEPT ![r] = Free]
    BY <1>3 DEF Moves, Steps
  <2>2. ClustersTypeOK'
    BY <1>3, <2>1 DEF Probed, ClustersTypeOK, Steps, Updating, Verifying, Reading
  <2>3. SavingIsProved'
    BY <1>3, <2>1 DEF SavingIsProved, Free
  <2>4. EntriesMatchKeys' /\ RegistryIsSound'
    BY <1>3 DEF Probed, EntriesMatchKeys, RegistryIsSound, StoredWasProved,
                InventoryOfRegistered, Registered
  <2> QED
    BY <2>2, <2>3, <2>4
<1> QED
  BY <1>2, <1>3 DEF Probed

(* What is saved is what was proved. *)
LEMMA SaveRowKeepsInv ==
    ASSUME ClustersInv, NEW r \in Callers, SaveRow(r)
    PROVE  ClustersInv'
<1> USE TypeIs DEF ClustersInv
<1> DEFINE s == [caller[r] EXCEPT !.at = "marking"]
           row == Row(caller[r].kubeconfig, "pending")
<1>1. caller[r] \in Updating /\ caller[r].kubeconfig \in proved
  BY StepIsUpdating DEF SaveRow, SavingIsProved
<1>2. s \in Updating /\ s \in Steps /\ s.at = "marking"
  BY <1>1 DEF Updating, Steps
<1>3. row \in Rows /\ row.kubeconfig \in proved /\ caller[r].cluster \in ClusterIds
  BY <1>1 DEF Row, Rows, Updating
<1>4. rows' = [rows EXCEPT ![caller[r].cluster] = row]
  BY DEF SaveRow
<1>5. caller' = [caller EXCEPT ![r] = s]
  BY DEF SaveRow, Moves
<1>6. ClustersTypeOK'
  <2>1. rows' \in [ClusterIds -> {NoRow} \cup Rows] /\ caller' \in [Callers -> Steps]
    BY <1>2, <1>3, <1>4, <1>5
  <2> QED
    BY <2>1 DEF SaveRow, ClustersTypeOK, Steps, Updating, Verifying, Reading, Rows
<1>7. SavingIsProved'
  BY <1>2, <1>5 DEF SaveRow, SavingIsProved
<1>8. StoredWasProved'
  BY <1>3, <1>4 DEF SaveRow, StoredWasProved, RegistryIsSound, Registered
<1>9. EntriesMatchKeys' /\ InventoryOfRegistered'
  BY DEF SaveRow, EntriesMatchKeys, RegistryIsSound, InventoryOfRegistered
<1> QED
  BY <1>6, <1>7, <1>8, <1>9 DEF RegistryIsSound

(* The status of a row says nothing of its kubeconfig. *)
LEMMA StatusKeepsRow ==
    ASSUME rows \in [ClusterIds -> {NoRow} \cup Rows], NEW c \in Registered,
           NEW status \in {"pending", "connected", "unreachable"},
           rows' = [rows EXCEPT ![c].status = status]
    PROVE  /\ rows' \in [ClusterIds -> {NoRow} \cup Rows]
           /\ Registered' \subseteq Registered
           /\ \A d \in Registered : rows'[d].kubeconfig = rows[d].kubeconfig
<1>1. c \in ClusterIds /\ rows[c] \in Rows /\ rows[c] # NoRow
  BY DEF Registered
<1>2. [rows[c] EXCEPT !.status = status] \in Rows
  BY <1>1 DEF Rows
<1>3. [rows[c] EXCEPT !.status = status].kubeconfig = rows[c].kubeconfig
  BY <1>1 DEF Rows
<1>4. rows' = [rows EXCEPT ![c] = [rows[c] EXCEPT !.status = status]]
  OBVIOUS
<1> QED
  BY <1>1, <1>2, <1>3, <1>4 DEF Registered

LEMMA MarkRowKeepsInv ==
    ASSUME ClustersInv, NEW r \in Callers, MarkRow(r)
    PROVE  ClustersInv'
<1> USE TypeIs DEF ClustersInv
<1>1. PICK s \in {Free, [at |-> "dropping"]} : caller' = [caller EXCEPT ![r] = s]
  BY DEF MarkRow, Moves
<1>2. s \in Steps /\ s.at # "saving"
  BY DEF Free, Steps
<1>3. /\ rows' \in [ClusterIds -> {NoRow} \cup Rows]
      /\ Registered' \subseteq Registered
      /\ \A d \in Registered : rows'[d].kubeconfig = rows[d].kubeconfig
  <2>1. CASE rows' = [rows EXCEPT ![caller[r].cluster].status = "connected"]
             /\ caller[r].cluster \in Registered
    BY <2>1, StatusKeepsRow
  <2>2. CASE rows' = rows
    BY <2>2 DEF Registered
  <2> QED
    BY <2>1, <2>2 DEF MarkRow
<1>4. ClustersTypeOK'
  <2>1. caller' \in [Callers -> Steps]
    BY <1>1, <1>2
  <2> QED
    BY <1>3, <2>1 DEF MarkRow, ClustersTypeOK, Steps, Updating, Verifying, Reading, Rows
<1>5. SavingIsProved' /\ EntriesMatchKeys'
  BY <1>1, <1>2 DEF MarkRow, SavingIsProved, EntriesMatchKeys
<1>6. RegistryIsSound'
  BY <1>3 DEF MarkRow, RegistryIsSound, StoredWasProved, InventoryOfRegistered
<1> QED
  BY <1>4, <1>5, <1>6

LEMMA VerifiedKeepsInv ==
    ASSUME ClustersInv, NEW r \in Callers, Verified(r)
    PROVE  ClustersInv'
<1> USE TypeIs DEF ClustersInv
<1>1. caller[r] \in Verifying
  BY StepIsVerifying DEF Verified
<1>2. caller' = [caller EXCEPT ![r] = Free] /\ caller' \in [Callers -> Steps]
  BY DEF Verified, Moves, Steps
<1>3. PICK status \in {"connected", "unreachable"} :
         /\ proved' = IF status = "connected" THEN proved \cup {caller[r].kubeconfig} ELSE proved
         /\ rows' = IF caller[r].cluster \in Registered
                    THEN [rows EXCEPT ![caller[r].cluster].status = status] ELSE rows
  BY DEF Verified
<1>4. proved \subseteq proved' /\ proved' \subseteq Kubeconfigs
  BY <1>1, <1>3 DEF Verifying
<1>5. /\ rows' \in [ClusterIds -> {NoRow} \cup Rows]
      /\ Registered' \subseteq Registered
      /\ \A d \in Registered : rows'[d].kubeconfig = rows[d].kubeconfig
  <2>1. CASE caller[r].cluster \in Registered
    BY <1>3, <2>1, StatusKeepsRow
  <2>2. CASE caller[r].cluster \notin Registered
    BY <1>3, <2>2 DEF Registered
  <2> QED
    BY <2>1, <2>2
<1>6. ClustersTypeOK'
  BY <1>2, <1>4, <1>5 DEF Verified, ClustersTypeOK, Steps, Updating, Verifying, Reading, Rows
<1>7. SavingIsProved' /\ EntriesMatchKeys'
  BY <1>2, <1>4 DEF Verified, SavingIsProved, EntriesMatchKeys, Free
<1>8. RegistryIsSound'
  BY <1>4, <1>5 DEF Verified, RegistryIsSound, StoredWasProved, InventoryOfRegistered
<1> QED
  BY <1>6, <1>7, <1>8

LEMMA DeleteRowKeepsInv ==
    ASSUME ClustersInv, NEW r \in Callers, NEW c \in ClusterIds, DeleteRow(r, c)
    PROVE  ClustersInv'
<1> USE TypeIs DEF ClustersInv
<1>1. caller' = [caller EXCEPT ![r] = [at |-> "dropping"]] /\ caller' \in [Callers -> Steps]
  BY DEF DeleteRow, Moves, Steps
<1>2. rows' \in [ClusterIds -> {NoRow} \cup Rows] /\ calls' \in 0 .. MaxCalls
  BY RegistryBoundsAssumption DEF DeleteRow
<1>3. ClustersTypeOK'
  BY <1>1, <1>2 DEF DeleteRow, ClustersTypeOK, Steps, Updating, Verifying, Reading, Rows
<1>4. SavingIsProved' /\ EntriesMatchKeys'
  BY <1>1 DEF DeleteRow, SavingIsProved, EntriesMatchKeys
<1>5. RegistryIsSound'
  BY DEF DeleteRow, RegistryIsSound, StoredWasProved, InventoryOfRegistered, Registered
<1> QED
  BY <1>3, <1>4, <1>5

-----------------------------------------------------------------------------
(* Dropping, expiring and the restart of the process only forget entries. *)
LEMMA ForgettingKeepsInv ==
    ASSUME ClustersInv,
           (\E r \in Callers : DropInventory(r)) \/ ExpireInventory \/ RestartRegistry
           \/ ServersTurn
    PROVE  ClustersInv'
<1> USE TypeIs DEF ClustersInv
<1>1. /\ rows' = rows /\ proved' = proved /\ shown' = shown /\ calls' = calls
      /\ accepted' \subseteq Kubeconfigs /\ turns' \in 0 .. MaxTurns
  BY RegistryBoundsAssumption DEF DropInventory, ExpireInventory, RestartRegistry, ServersTurn
<1>2. /\ inventory' \in [SUBSET ClusterIds -> {NoEntry} \cup Listings]
      /\ \A key \in SUBSET ClusterIds : inventory'[key] \in {NoEntry, inventory[key]}
  BY DEF DropInventory, ExpireInventory, RestartRegistry, ServersTurn
<1>3. /\ caller' \in [Callers -> Steps]
      /\ \A r \in Callers : caller'[r] \in {Free, caller[r]}
  BY DEF DropInventory, ExpireInventory, RestartRegistry, ServersTurn, Moves, Steps
<1>4. ClustersTypeOK'
  BY <1>1, <1>2, <1>3 DEF ClustersTypeOK, Steps, Updating, Verifying, Reading, Rows
<1>5. SavingIsProved'
  BY <1>1, <1>3 DEF SavingIsProved, Free
<1>6. EntriesMatchKeys'
  BY <1>2 DEF EntriesMatchKeys
<1>7. RegistryIsSound'
  BY <1>1 DEF RegistryIsSound, StoredWasProved, InventoryOfRegistered, Registered
<1> QED
  BY <1>4, <1>5, <1>6, <1>7

(* A hit shows the entry of its own key. *)
LEMMA AskInventoryKeepsInv ==
    ASSUME ClustersInv, NEW r \in Callers, AskInventory(r)
    PROVE  ClustersInv'
<1> USE TypeIs DEF ClustersInv
<1>0. Registered \in SUBSET ClusterIds /\ calls' \in 0 .. MaxCalls
  BY RegistryBoundsAssumption DEF Registered, AskInventory
<1>1. caller' \in [Callers -> Steps] /\ \A q \in Callers : caller'[q].at = "saving" => caller'[q] = caller[q]
  <2>1. [at |-> "reading", asked |-> Registered, lists |-> <<>>] \in Steps
    BY <1>0, NothingRead DEF Steps, Reading
  <2> QED
    BY <2>1 DEF AskInventory, Moves
<1>2. shown' \in [asked : SUBSET ClusterIds, lists : Listings] /\ InventoryOfRegistered'
  <2>1. CASE inventory[KeyOf(Registered)] # NoEntry
             /\ shown' = [asked |-> Registered, lists |-> inventory[KeyOf(Registered)]]
    BY <1>0, <2>1 DEF KeyOf, EntriesMatchKeys, InventoryOfRegistered
  <2>2. CASE shown' = shown
    BY <2>2 DEF RegistryIsSound, InventoryOfRegistered
  <2> QED
    BY <2>1, <2>2 DEF AskInventory
<1>3. ClustersTypeOK'
  BY <1>0, <1>1, <1>2 DEF AskInventory, ClustersTypeOK, Steps, Updating, Verifying, Reading, Rows
<1>4. SavingIsProved' /\ EntriesMatchKeys'
  BY <1>1 DEF AskInventory, SavingIsProved, EntriesMatchKeys
<1>5. StoredWasProved'
  BY DEF AskInventory, RegistryIsSound, StoredWasProved, Registered
<1> QED
  BY <1>2, <1>3, <1>4, <1>5 DEF RegistryIsSound

LEMMA ReadClusterKeepsInv ==
    ASSUME ClustersInv, NEW r \in Callers, NEW c \in ClusterIds, ReadCluster(r, c)
    PROVE  ClustersInv'
<1> USE TypeIs DEF ClustersInv
<1>1. caller[r] \in Reading
  BY StepIsReading DEF ReadCluster
<1>2. PICK from \in Servers \cup {"error"} :
         Moves(r, [caller[r] EXCEPT !.lists =
                     [d \in DOMAIN @ \cup {c} |-> IF d = c THEN from ELSE @[d]]])
  <2>1. rows[c] # NoRow => rows[c].kubeconfig.server \in Servers
    BY DEF Rows, Servers
  <2> QED
    BY <2>1 DEF ReadCluster, Registered
<1> DEFINE l == caller[r].lists
           grown == [d \in DOMAIN l \cup {c} |-> IF d = c THEN from ELSE l[d]]
           s == [caller[r] EXCEPT !.lists = grown]
<1>3. grown \in Listings
  <2>1. l \in Listings
    BY <1>1 DEF Reading
  <2> QED
    BY <2>1, ListingGrows
<1>4. s \in Reading
  <2> HIDE DEF grown
  <2> QED
    BY <1>1, <1>3 DEF Reading
<1>5. caller' = [caller EXCEPT ![r] = s]
  BY <1>2 DEF Moves
<1>6. s \in Steps /\ s.at = "reading"
  <2> HIDE DEF s
  <2> QED
    BY <1>4 DEF Steps, Reading
<1> HIDE DEF s
<1>7. ClustersTypeOK'
  <2>1. caller' \in [Callers -> Steps]
    BY <1>5, <1>6
  <2> QED
    BY <2>1 DEF ReadCluster, ClustersTypeOK, Steps, Updating, Verifying, Reading, Rows
<1>8. SavingIsProved' /\ EntriesMatchKeys'
  BY <1>5, <1>6 DEF ReadCluster, SavingIsProved, EntriesMatchKeys
<1>9. RegistryIsSound'
  BY DEF ReadCluster, RegistryIsSound, StoredWasProved, InventoryOfRegistered, Registered
<1> QED
  BY <1>7, <1>8, <1>9

(* A full inventory goes under the clusters it was asked for. *)
LEMMA FillInventoryKeepsInv ==
    ASSUME ClustersInv, NEW r \in Callers, FillInventory(r)
    PROVE  ClustersInv'
<1> USE TypeIs DEF ClustersInv
<1>1. caller[r] \in Reading
  BY StepIsReading DEF FillInventory
<1>2. caller[r].asked \in SUBSET ClusterIds /\ caller[r].lists \in Listings
  BY <1>1 DEF Reading
<1>3. /\ inventory' = [inventory EXCEPT ![caller[r].asked] = caller[r].lists]
      /\ shown' = [asked |-> caller[r].asked, lists |-> caller[r].lists]
      /\ DOMAIN caller[r].lists = caller[r].asked
  BY DEF FillInventory, KeyOf
<1>4. caller' = [caller EXCEPT ![r] = Free] /\ caller' \in [Callers -> Steps]
  BY DEF FillInventory, Moves, Steps
<1>5. ClustersTypeOK'
  <2>1. /\ inventory' \in [SUBSET ClusterIds -> {NoEntry} \cup Listings]
        /\ shown' \in [asked : SUBSET ClusterIds, lists : Listings]
    BY <1>2, <1>3
  <2> QED
    BY <1>4, <2>1 DEF FillInventory, ClustersTypeOK, Steps, Updating, Verifying, Reading, Rows
<1>6. SavingIsProved'
  BY <1>4 DEF FillInventory, SavingIsProved, Free
<1>7. EntriesMatchKeys' /\ InventoryOfRegistered'
  BY <1>2, <1>3 DEF EntriesMatchKeys, InventoryOfRegistered
<1>8. StoredWasProved'
  BY DEF FillInventory, RegistryIsSound, StoredWasProved, Registered
<1> QED
  BY <1>5, <1>6, <1>7, <1>8 DEF RegistryIsSound

-----------------------------------------------------------------------------
LEMMA ClustersInvStep == ClustersInv /\ [ClustersNext]_clusterVars => ClustersInv'
<1> SUFFICES ASSUME ClustersInv, [ClustersNext]_clusterVars PROVE ClustersInv'
  OBVIOUS
<1>1. CASE UNCHANGED clusterVars
  BY <1>1 DEF clusterVars, ClustersInv, ClustersTypeOK, SavingIsProved, EntriesMatchKeys,
              RegistryIsSound, StoredWasProved, InventoryOfRegistered, Registered
<1>2. ASSUME NEW r \in Callers, HandlerStep(r) PROVE ClustersInv'
  <2>1. CASE Probed(r)
    BY <2>1, ProbedKeepsInv
  <2>2. CASE SaveRow(r)
    BY <2>2, SaveRowKeepsInv
  <2>3. CASE MarkRow(r)
    BY <2>3, MarkRowKeepsInv
  <2>4. CASE Verified(r)
    BY <2>4, VerifiedKeepsInv
  <2>5. CASE DropInventory(r)
    BY <2>5, ForgettingKeepsInv
  <2>6. CASE AskInventory(r)
    BY <2>6, AskInventoryKeepsInv
  <2>7. CASE FillInventory(r)
    BY <2>7, FillInventoryKeepsInv
  <2>8. ASSUME NEW c \in ClusterIds, Verify(r, c) PROVE ClustersInv'
    <3>1. \E k \in Kubeconfigs : TRUE
      BY <2>8, TypeIs DEF ClustersInv, Verify, Registered, Rows
    <3> QED
      BY <2>8, <3>1, BeginKeepsInv
  <2>9. ASSUME NEW c \in ClusterIds, DeleteRow(r, c) \/ ReadCluster(r, c) PROVE ClustersInv'
    BY <2>9, DeleteRowKeepsInv, ReadClusterKeepsInv
  <2>10. ASSUME NEW c \in ClusterIds, NEW k \in Kubeconfigs,
                Upload(r, c, k) \/ RefreshToken(r, c, k.token)
         PROVE  ClustersInv'
    BY <2>10, BeginKeepsInv
  <2> QED
    BY <1>2, <2>1, <2>2, <2>3, <2>4, <2>5, <2>6, <2>7, <2>8, <2>9, <2>10 DEF HandlerStep
<1>3. CASE ExpireInventory \/ ServersTurn \/ RestartRegistry
  BY <1>3, ForgettingKeepsInv
<1> QED
  BY <1>1, <1>2, <1>3 DEF ClustersNext

(* The inductive invariant holds of every run of the registry. *)
THEOREM ClustersInvariant == ClustersSpec => []ClustersInv
<1> QED
  BY ClustersInvInit, ClustersInvStep, PTL DEF ClustersSpec

(* A kubeconfig in the table was found working by a probe, and an answered *)
(* inventory names exactly the clusters that were registered when it was   *)
(* asked for, however many handlers overlap.                               *)
THEOREM RegistrySound == ClustersSpec => []RegistryIsSound
<1>1. ClustersInv => RegistryIsSound
  BY DEF ClustersInv
<1> QED
  BY <1>1, ClustersInvariant, PTL

-----------------------------------------------------------------------------
(* What SkillsTypeOK says beside the invariants: the bounds of the steps.   *)
SkillBounds ==
    boots \in Nat /\ skillSteps \in 0 .. MaxSkillSteps /\ skillFaults \in 0 .. MaxSkillFaults

(* A start and a save may fail once more, a request counts as one.          *)
LEMMA BoundsKept ==
    ASSUME SkillBounds
    PROVE  /\ Stepping => skillSteps' \in 0 .. MaxSkillSteps
           /\ skillFaults < MaxSkillFaults /\ skillFaults' = skillFaults + 1 =>
                 skillFaults' \in 0 .. MaxSkillFaults
           /\ \A id : Persist(id) => skillFaults' \in 0 .. MaxSkillFaults
           /\ SaveUsage => skillFaults' \in 0 .. MaxSkillFaults
           /\ \A disk : Boot(disk) => /\ skillFaults' \in 0 .. MaxSkillFaults
                                     /\ boots' \in Nat
<1>1. /\ boots \in Nat /\ skillSteps \in 0 .. MaxSkillSteps
      /\ skillFaults \in 0 .. MaxSkillFaults
      /\ MaxSkillSteps \in Nat /\ MaxSkillFaults \in Nat
  BY SkillsAssumption DEF SkillBounds
<1>2. skillFaults < MaxSkillFaults /\ skillFaults' = skillFaults + 1 =>
         skillFaults' \in 0 .. MaxSkillFaults
  BY <1>1
<1>3. \A disk : Boot(disk) => skillFaults' \in 0 .. MaxSkillFaults /\ boots' \in Nat
  BY <1>1, <1>2 DEF Boot, BootReading
<1>4. \A id : Persist(id) => skillFaults' \in 0 .. MaxSkillFaults
  BY <1>1, <1>2 DEF Persist
<1>5. SaveUsage => skillFaults' \in 0 .. MaxSkillFaults
  BY <1>1, <1>2 DEF SaveUsage
<1>6. Stepping => skillSteps' \in 0 .. MaxSkillSteps
  BY <1>1 DEF Stepping
<1> QED  BY <1>2, <1>3, <1>4, <1>5, <1>6

(* The bounds are kept by every step.                                       *)
LEMMA SkillBoundsKept == SkillBounds /\ [SkillsNext]_skillVars => SkillBounds'
<1> SUFFICES ASSUME SkillBounds, [SkillsNext]_skillVars  PROVE SkillBounds'
  OBVIOUS
<1>1. /\ boots \in Nat /\ skillSteps \in 0 .. MaxSkillSteps
      /\ skillFaults \in 0 .. MaxSkillFaults
  BY DEF SkillBounds
<1>2. ASSUME NEW id, NEW enabled, Upsert(id, enabled)  PROVE SkillBounds'
  BY <1>1, <1>2, BoundsKept DEF Upsert, SkillBounds
<1>3. ASSUME NEW id, Learn(id)  PROVE SkillBounds'
  BY <1>1, <1>3, BoundsKept DEF Learn, SkillBounds
<1>4. ASSUME NEW id, CutShort(id)  PROVE SkillBounds'
  BY <1>1, <1>4, BoundsKept DEF CutShort, SkillBounds
<1>5. ASSUME NEW id, Disable(id)  PROVE SkillBounds'
  BY <1>1, <1>5, BoundsKept DEF Disable, SkillBounds
<1>6. ASSUME NEW id, Discard(id)  PROVE SkillBounds'
  BY <1>1, <1>6, BoundsKept DEF Discard, SkillBounds
<1>7. ASSUME NEW id, Export(id)  PROVE SkillBounds'
  BY <1>1, <1>7, BoundsKept DEF Export, SkillBounds
<1>8. ASSUME NEW a, Import(a) \/ ImportFails(a)  PROVE SkillBounds'
  BY <1>1, <1>8, BoundsKept DEF Import, ImportFails, SkillBounds
<1>9. ASSUME NEW id, NEW incident, Execute(id, incident)  PROVE SkillBounds'
  BY <1>1, <1>9, BoundsKept DEF Execute, SkillBounds
<1>10. ASSUME NEW r, NEW recovered, NEW hardened, EndPass(r, recovered, hardened)
       PROVE  SkillBounds'
  BY <1>1, <1>10, BoundsKept DEF EndPass, SkillBounds
<1>11. CASE Restart
  BY <1>1, <1>11, BoundsKept DEF Restart, SkillBounds
<1>12. CASE UNCHANGED skillVars
  BY <1>1, <1>12 DEF skillVars, SkillBounds
<1> QED
  BY <1>2, <1>3, <1>4, <1>5, <1>6, <1>7, <1>8, <1>9, <1>10, <1>11, <1>12
     DEF SkillsNext, RegistryNext, HistoryNext

(* The registry and the tallies keep their types.                           *)
THEOREM SkillsTypeCorrect == SkillsSpec => []SkillsTypeOK
<1>1. SkillsInit => SkillBounds
  BY SkillsAssumption DEF SkillsInit, SkillBounds
<1>2. RegistryInv /\ HistoryInv /\ SkillBounds => SkillsTypeOK
  BY DEF RegistryInv, HistoryInv, SkillBounds, SkillsTypeOK, MaybeSkill, WellCounted, Runs
<1>3. SkillsSpec => []SkillBounds
  BY <1>1, SkillBoundsKept, PTL DEF SkillsSpec
<1> QED
  BY <1>2, <1>3, RegistryInvariant, HistoryInvariant, PTL


-----------------------------------------------------------------------------
(* The parts together.                                                      *)

(* In every state the instance starts in, each part is in a state it starts *)
(* in.                                                                      *)
LEMMA PlatformStarts ==
    PlatformInit => /\ EventsInit /\ ReleaseInit /\ PackagesInit /\ SkillsInit
                    /\ InspectionsInit /\ ChatInit /\ ClustersInit
BY DEF PlatformInit

(* A step of the instance is a step of one part, and none of the others.    *)
LEMMA PlatformMoves ==
    [PlatformNext]_platformVars =>
        /\ [EventsNext]_eventVars /\ [ReleaseNext]_releaseVars
        /\ [PackagesNext]_packageVars /\ [SkillsNext]_skillVars
        /\ [InspectionsNext]_inspectionVars /\ [ChatNext]_chatVars
        /\ [ClustersNext]_clusterVars
<1> SUFFICES ASSUME [PlatformNext]_platformVars
             PROVE  /\ [EventsNext]_eventVars /\ [ReleaseNext]_releaseVars
                    /\ [PackagesNext]_packageVars /\ [SkillsNext]_skillVars
                    /\ [InspectionsNext]_inspectionVars /\ [ChatNext]_chatVars
                    /\ [ClustersNext]_clusterVars
  OBVIOUS
<1>1. SkillsPart => SkillsNext
  BY DEF SkillsPart, SkillsNext
<1>2. CASE PlatformNext
  BY <1>1, <1>2 DEF PlatformNext
<1>3. CASE UNCHANGED platformVars
  BY <1>3 DEF platformVars
<1> QED  BY <1>2, <1>3

(* What is model-checked in one instance are behaviours of every part: each *)
(* property of a part holds of them, too.                                   *)
THEOREM PlatformIsItsParts ==
    PlatformSpec => /\ EventsSpec /\ ReleaseSpec /\ PackagesSpec /\ SkillsSpec
                    /\ InspectionsSpec /\ ChatSpec /\ ClustersSpec
BY PlatformStarts, PlatformMoves, PTL
   DEF PlatformSpec, EventsSpec, ReleaseSpec, PackagesSpec, SkillsSpec, InspectionsSpec,
       ChatSpec, ClustersSpec

(* Every part keeps its types.                                              *)
THEOREM PlatformTypeCorrect == PlatformSpec => []PlatformTypeOK
<1>1. ClustersInv => ClustersTypeOK
  BY DEF ClustersInv
<1>2. /\ EventsTypeOK /\ ReleaseTypeOK /\ PackagesTypeOK /\ SkillsTypeOK
      /\ InspectionsTypeOK /\ ChatTypeOK /\ ClustersTypeOK
      => PlatformTypeOK
  BY DEF PlatformTypeOK
<1> QED
  BY <1>1, <1>2, PlatformIsItsParts, EventsTypeCorrect, ReleaseTypeCorrect,
     PackagesTypeCorrect, SkillsTypeCorrect, InspectionsTypeCorrect, ChatTypeCorrect,
     ClustersInvariant, PTL

(* Whatever is installed, reloaded, edited and restarted, the plugins that  *)
(* are active are those that can be activated one after the other.          *)
THEOREM ActivePluginsSupported == PlatformSpec => []ActivePluginsAreSupported
<1>1. ActiveIsSupported => ActivePluginsAreSupported
  BY DEF ActivePluginsAreSupported
<1> QED
  BY <1>1, PlatformIsItsParts, PackagesActiveIsSupported, PTL
=============================================================================
