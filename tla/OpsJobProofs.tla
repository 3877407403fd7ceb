----------------------------- MODULE OpsJobProofs -----------------------------
(***************************************************************************)
(* Proofs about OpsJob for all sets of jobs, plans, changes and targets,   *)
(* every limit and any number of crashes.  The inductive invariant ties    *)
(* the three things an approval passes through to each other: the record   *)
(* in OPS_JOBS that shows it, the coroutine that waits for it, and the     *)
(* ticket that was issued for it.                                          *)
(***************************************************************************)
EXTENDS OpsJob, SequenceTheorems, TLAPS

(* The coroutine is between asking for a change and the end of its plan. *)
AtChange ==
    {"approval", "lease", "executing", "verify", "rollbackLease", "rollback", "verifyRollback"}

(* A coroutine at a change holds the ticket that was issued for it in this *)
(* life of the process, confirmed from the lease on, used once from the    *)
(* call on, and with a rollback after it from that call on; the changes    *)
(* that are left fit into the bound.                                       *)
TicketFits(j, s) ==
    /\ s.pc \in AtChange =>
          /\ s.plan \in Plans /\ s.step \in 1 .. Len(ChangesOf[s.plan])
          /\ s.ticket \in 1 .. Len(tickets[j])
          /\ tickets[j][s.ticket].change = ChangesOf[s.plan][s.step]
          /\ tickets[j][s.ticket].epoch = crashes
    /\ s.pc \in {"approval", "lease"} => tickets[j][s.ticket].uses = 0
    /\ s.pc \in AtChange \ {"approval", "lease"} => tickets[j][s.ticket].uses = 1
    /\ s.pc \in AtChange =>
          tickets[j][s.ticket].undone = IF s.pc \in {"rollback", "verifyRollback"} THEN 1 ELSE 0
    /\ s.pc \in {"rollbackLease", "rollback"} => s.rollback # NoChange
    /\ s.pc \in AtChange \ {"approval"} => tickets[j][s.ticket].verdict = "confirmed"
    /\ s.pc \in {"approval", "lease", "executing"} =>
          Len(tickets[j]) + Len(ChangesOf[s.plan]) - s.step <= MaxApprovals

(* What was settled was tried, and is not what is under way. *)
StrategyFits(done, s) ==
    /\ s.pc # "none" => done \subseteq s.tried
    /\ s.pc \notin {"none", "start", "recheck"} =>
          s.plan \notin done /\ (s.plan \in Plans => s.plan \in s.tried)

(* A coroutine whose job was stopped gets its CancelledError next, or finds *)
(* the cancel event set when it wakes from its wait for approval.           *)
StopFits(a, s) ==
    /\ s.pc = "none" => ~s.killed
    /\ s.event # "none" => s.pc = "approval"
    /\ a = "now" /\ s.pc # "none" =>
          s.killed \/ (s.pc = "approval" /\ s.event = "set" /\ s.cancel)

(* An approval that is shown is open; a confirmed receipt names a confirmed *)
(* ticket.                                                                  *)
RecordFits(q, r) ==
    /\ r.pending # NoPending /\ ~r.pending.consumed =>
          /\ r.pending.ticket \in 1 .. Len(q)
          /\ q[r.pending.ticket].verdict = "open"
    /\ r.receipt.confirmed =>
          /\ r.receipt.ticket \in 1 .. Len(q)
          /\ q[r.receipt.ticket].verdict = "confirmed"
          /\ q[r.receipt.ticket].change = r.receipt.change

(* An id that was never created has no past. *)
UnbornFits(j) ==
    job[j].status = "unborn" => task[j].pc = "none" /\ settled[j] = {} /\ acked[j] = "no"

(* A status goes with a coroutine, or without one. *)
StatusFits(r, s) ==
    /\ r.status \in Active => s.pc # "none"
    /\ r.status \in Terminal => s.pc = "none"

(* OPS_JOBS has each registered job once. *)
OrderIsRegistry ==
    /\ \A i \in 1 .. Len(order) : job[order[i]].status \in Active \cup Terminal
    /\ \A i, k \in 1 .. Len(order) : order[i] = order[k] => i = k
    /\ \A i, k \in 1 .. Len(disk) : disk[i].id = disk[k].id => i = k

WritesKnown == \A w \in writes : w.ticket # NoTicket => w.ticket \in 1 .. Len(tickets[w.job])

JobFits(j) ==
    /\ TicketFits(j, task[j]) /\ StrategyFits(settled[j], task[j]) /\ StopFits(acked[j], task[j])
    /\ RecordFits(tickets[j], job[j]) /\ StatusFits(job[j], task[j])
    /\ UnbornFits(j)

JobInv ==
    /\ TypeOK
    /\ \A j \in Jobs : JobFits(j)
    /\ OrderIsRegistry
    /\ WritesKnown /\ WritesAreApproved /\ ApprovalsAreOneShot

-----------------------------------------------------------------------------
(* Facts about the values. *)
LEMMA PlanChanges ==
    ASSUME NEW p \in Plans
    PROVE  /\ ChangesOf[p] \in Seq(Changes) /\ Len(ChangesOf[p]) \in Nat \ {0}
           /\ \A i \in 1 .. Len(ChangesOf[p]) : ChangesOf[p][i] \in Changes
  BY PlansAssumption

LEMMA ValuesTyped ==
    /\ NoTask \in TaskRecord /\ NoPending.ticket = 0
    /\ \A p \in AnyPlan, b \in Rollbacks, T \in SUBSET Plans :
          NewTask(p, b, T) \in TaskRecord /\ NewJob(p, b, T) \in JobRecord
    /\ \A p \in AnyPlan, b \in Rollbacks : Carried(p, b) \in Rollbacks
    /\ NoChange \in Rollbacks
    /\ \A s \in Statuses : NoEntry(s) \in JobRecord
<1>1. MaxApprovals \in Nat /\ Diagnosis \in AnyPlan
  BY BoundsAssumption DEF AnyPlan
<1>2. NoTask \in TaskRecord
  BY <1>1 DEF NoTask, NoTicket, TaskRecord, Phases, Rollbacks
<1>3. ASSUME NEW p \in AnyPlan, NEW b \in Rollbacks, NEW T \in SUBSET Plans
      PROVE  NewTask(p, b, T) \in TaskRecord /\ NewJob(p, b, T) \in JobRecord
  <2>1. NewTask(p, b, T) \in TaskRecord
    BY <1>2 DEF NewTask, TaskRecord, Phases
  <2>2. NewJob(p, b, T) \in JobRecord
    BY <1>1 DEF NewJob, NoPending, NoReceipt, NoTicket, JobRecord, Statuses, Active, Terminal
  <2> QED
    BY <2>1, <2>2
<1>4. ASSUME NEW s \in Statuses PROVE NoEntry(s) \in JobRecord
  <2>1. NewJob(Diagnosis, NoChange, {}) \in JobRecord
    BY <1>1, <1>3 DEF Rollbacks
  <2> QED
    BY <2>1 DEF NoEntry, JobRecord
<1>5. NoPending.ticket = 0
  BY DEF NoPending, NoTicket
<1>6. NoChange \in Rollbacks /\ \A p \in AnyPlan, b \in Rollbacks : Carried(p, b) \in Rollbacks
  BY DEF Rollbacks, Carried
<1> QED
  BY <1>2, <1>3, <1>4, <1>5, <1>6

-----------------------------------------------------------------------------
(* An empty registry satisfies the invariant. *)
LEMMA JobInvInit == Init => JobInv
<1> SUFFICES ASSUME Init PROVE JobInv
  OBVIOUS
<1>1. TypeOK
  BY ValuesTyped, BoundsAssumption, EmptySeq DEF Init, LeaseInit, TypeOK, Statuses
<1>2. ASSUME NEW j \in Jobs PROVE JobFits(j)
  <2>1. task[j] = NoTask /\ job[j] = NoEntry("unborn") /\ settled[j] = {} /\ acked[j] = "no"
    BY DEF Init
  <2>2. TicketFits(j, task[j]) /\ StrategyFits(settled[j], task[j]) /\ StopFits(acked[j], task[j])
    BY <2>1 DEF TicketFits, StrategyFits, StopFits, NoTask, AtChange
  <2>3. job[j].pending = NoPending /\ job[j].receipt.confirmed = FALSE /\ job[j].status = "unborn"
    BY <2>1 DEF NoEntry, NewJob, NoReceipt
  <2>4. RecordFits(tickets[j], job[j]) /\ StatusFits(job[j], task[j])
    BY <2>1, <2>3 DEF RecordFits, StatusFits, NoTask, Active, Terminal
  <2>5. UnbornFits(j)
    BY <2>1 DEF UnbornFits, NoTask
  <2> QED
    BY <2>2, <2>4, <2>5 DEF JobFits
<1>3. OrderIsRegistry /\ WritesKnown /\ WritesAreApproved /\ ApprovalsAreOneShot
  BY DEF Init, OrderIsRegistry, WritesKnown, WritesAreApproved, ApprovalsAreOneShot
<1> QED
  BY <1>1, <1>2, <1>3 DEF JobInv

-----------------------------------------------------------------------------
(* A call that a confirmed ticket of this life of the process stands behind: *)
(* as the ticket of the call, or as that of the change before a rollback.     *)
Backed(w) ==
    /\ w \in WriteRecord
    /\ w.ticket # NoTicket =>
          /\ w.ticket \in 1 .. Len(tickets[w.job])
          /\ tickets[w.job][w.ticket].verdict = "confirmed"
          /\ tickets[w.job][w.ticket].change = w.change
          /\ tickets[w.job][w.ticket].epoch = crashes
    /\ w.ticket = NoTicket =>
          /\ w.change \in Rollbacks
          /\ \E i \in 1 .. Len(tickets[w.job]) :
                /\ tickets[w.job][i].verdict = "confirmed"
                /\ tickets[w.job][i].epoch = crashes
                /\ tickets[w.job][i].undone = 1

LEMMA WritesAreBacked ==
    ASSUME TypeOK
    PROVE  WritesKnown /\ WritesAreApproved <=> \A w \in writes : Backed(w)
<1>1. \A w \in writes : w \in WriteRecord /\ w.job \in Jobs
  BY DEF TypeOK, WriteRecord
<1>2. \A m \in Jobs : DOMAIN tickets[m] = 1 .. Len(tickets[m])
  BY LenProperties DEF TypeOK
<1> QED
  BY <1>1, <1>2 DEF WritesKnown, WritesAreApproved, Stands, Backed

LEMMA WritesAreBackedNext ==
    (TypeOK => (WritesKnown /\ WritesAreApproved <=> \A w \in writes : Backed(w)))'
<1>1. TypeOK => (WritesKnown /\ WritesAreApproved <=> \A w \in writes : Backed(w))
  BY WritesAreBacked
<1> QED
  BY <1>1, PTL

(* A step of one coroutine that issues and uses no ticket: its variables    *)
(* become s and its record becomes r.                                       *)
QuietStep(j, s, r) ==
    /\ task' = [task EXCEPT ![j] = s]
    /\ job' = [job EXCEPT ![j] = r]
    /\ UNCHANGED <<order, disk, crashes, tickets, acked>>
    /\ \A w \in writes' \ writes : Backed(w)
    /\ activeJobs' \subseteq Jobs /\ activeTargets' \in [Targets -> Jobs \cup {NoJob}]
    /\ settled' \in [Jobs -> SUBSET Plans]
    /\ \A k \in Jobs \ {j} : settled'[k] = settled[k]

(* s and r go with what else there is. *)
Quiet(j, s, r) ==
    /\ s \in TaskRecord /\ r \in JobRecord
    /\ TicketFits(j, s) /\ StopFits(acked[j], s) /\ StatusFits(r, s)
    /\ r.pending \in {job[j].pending, NoPending} /\ r.receipt = job[j].receipt
    /\ r.status # "unborn"
    /\ job[j].status \in Active \cup Terminal => r.status \in Active \cup Terminal

LEMMA QuietKeepsInv ==
    ASSUME JobInv, NEW j \in Jobs, NEW s, NEW r,
           QuietStep(j, s, r), Quiet(j, s, r), StrategyFits(settled'[j], s)
    PROVE  JobInv'
<1> USE DEF JobInv
<1>1. TypeOK'
  <2>1. writes' \subseteq WriteRecord
    BY DEF QuietStep, Backed, TypeOK
  <2> QED
    BY <2>1 DEF QuietStep, Quiet, TypeOK
<1>2. ASSUME NEW k \in Jobs PROVE JobFits(k)'
  <2>1. CASE k = j
    <3>1. task'[k] = s /\ job'[k] = r
      BY <2>1 DEF QuietStep, TypeOK
    <3>2. TicketFits(k, task[k])' /\ StopFits(acked[k], task[k])' /\ StatusFits(job[k], task[k])'
      BY <2>1, <3>1 DEF QuietStep, Quiet, TicketFits, StopFits, StatusFits
    <3>3. StrategyFits(settled[k], task[k])'
      BY <2>1, <3>1 DEF StrategyFits
    <3>4. RecordFits(tickets[k], job[k])'
      BY <2>1, <3>1 DEF QuietStep, Quiet, JobFits, RecordFits
    <3>5. UnbornFits(k)'
      BY <2>1, <3>1 DEF Quiet, UnbornFits
    <3> QED
      BY <3>2, <3>3, <3>4, <3>5 DEF JobFits
  <2>2. CASE k # j
    <3>1. /\ task'[k] = task[k] /\ job'[k] = job[k] /\ settled'[k] = settled[k]
          /\ tickets' = tickets /\ acked' = acked /\ crashes' = crashes
      BY <2>2 DEF QuietStep, TypeOK
    <3>2. JobFits(k)
      OBVIOUS
    <3> QED
      BY <3>1, <3>2 DEF JobFits, TicketFits, StrategyFits, StopFits, RecordFits, StatusFits, UnbornFits
  <2> QED
    BY <2>1, <2>2
<1>3. OrderIsRegistry'
  <2>1. \A i \in 1 .. Len(order) : order[i] \in Jobs
    BY DEF TypeOK
  <2> QED
    BY <2>1 DEF QuietStep, Quiet, OrderIsRegistry, TypeOK
<1>4. WritesKnown' /\ WritesAreApproved'
  <2>1. \A w \in writes : Backed(w)
    BY WritesAreBacked
  <2>2. \A w \in writes' : Backed(w)'
    BY <2>1 DEF QuietStep, Backed
  <2> QED
    BY <1>1, <2>2, WritesAreBackedNext
<1>5. ApprovalsAreOneShot'
  BY DEF QuietStep, ApprovalsAreOneShot
<1> QED
  BY <1>1, <1>2, <1>3, <1>4, <1>5

-----------------------------------------------------------------------------
(* What every step of the coroutine may use of its job. *)
LEMMA JobFacts ==
    ASSUME JobInv, NEW j \in Jobs
    PROVE  /\ task[j] \in TaskRecord /\ job[j] \in JobRecord /\ JobFits(j)
           /\ tickets[j] \in Seq(Ticket) /\ settled[j] \in SUBSET Plans
           /\ task[j].pc # "none" => job[j].status \in Active \cup {"gone"}
           /\ job[j].status \in Statuses
<1>1. /\ task[j] \in TaskRecord /\ job[j] \in JobRecord /\ JobFits(j)
      /\ tickets[j] \in Seq(Ticket) /\ settled[j] \in SUBSET Plans
  BY DEF JobInv, TypeOK
<1>2. job[j].status \in Statuses
  BY <1>1 DEF JobRecord
<1>3. task[j].pc # "none" => job[j].status \in Active \cup {"gone"}
  BY <1>1, <1>2 DEF JobFits, UnbornFits, StatusFits, Statuses
<1> QED
  BY <1>1, <1>2, <1>3

(* The next record of a job: the given one, or the old one if the job is no *)
(* longer in OPS_JOBS.                                                      *)
NextRecord(j, r) == IF Registered(j) THEN r ELSE job[j]

LEMMA NoteIs ==
    ASSUME JobInv, NEW j \in Jobs, NEW r, Note(j, r)
    PROVE  job' = [job EXCEPT ![j] = NextRecord(j, r)]
  BY DEF Note, NextRecord, JobInv, TypeOK

(* A record whose status becomes st, with the pending approval or without. *)
LEMMA RecordMoves ==
    ASSUME JobInv, NEW j \in Jobs, task[j].pc # "none",
           NEW r \in JobRecord, r.status \in Active \cup Terminal,
           r.pending \in {job[j].pending, NoPending}, r.receipt = job[j].receipt,
           NEW s \in TaskRecord, StatusFits(r, s),
           TicketFits(j, s), StopFits(acked[j], s)
    PROVE  Quiet(j, s, NextRecord(j, r))
<1>1. CASE Registered(j)
  <2>1. NextRecord(j, r) = r
    BY <1>1 DEF NextRecord
  <2> QED
    BY <2>1 DEF Quiet, Active, Terminal
<1>2. CASE ~Registered(j)
  <2>1. NextRecord(j, r) = job[j] /\ job[j] \in JobRecord /\ job[j].status = "gone"
    BY <1>2, JobFacts DEF NextRecord, Registered, Active
  <2> QED
    BY <2>1 DEF Quiet, StatusFits, Active, Terminal
<1> QED
  BY <1>1, <1>2

-----------------------------------------------------------------------------
(* The end of the coroutine. *)
LEMMA EndKeepsInv ==
    ASSUME JobInv, NEW j \in Jobs, task[j].pc # "none",
           NEW r \in JobRecord, r.status \in Terminal,
           r.pending \in {job[j].pending, NoPending}, r.receipt = job[j].receipt,
           QuietStep(j, NoTask, NextRecord(j, r))
    PROVE  JobInv'
<1>1. NoTask \in TaskRecord /\ StatusFits(r, NoTask)
  BY ValuesTyped DEF StatusFits, NoTask, Active, Terminal
<1>2. TicketFits(j, NoTask) /\ StopFits(acked[j], NoTask) /\ StrategyFits(settled'[j], NoTask)
  BY DEF TicketFits, StopFits, StrategyFits, NoTask, AtChange
<1>3. Quiet(j, NoTask, NextRecord(j, r))
  BY <1>1, <1>2, RecordMoves
<1> QED
  BY <1>2, <1>3, QuietKeepsInv

(* The coroutine begins or waits for its next plan: no ticket is at stake.  *)
LEMMA TurnKeepsInv ==
    ASSUME JobInv, NEW j \in Jobs, task[j].pc # "none", ~task[j].killed,
           NEW s \in TaskRecord, s.pc \in {"diagnose", "recheck"}, s.event = "none",
           task[j].event = "none",
           NEW r \in JobRecord, r.status = "running",
           r.pending = job[j].pending, r.receipt = job[j].receipt,
           QuietStep(j, s, NextRecord(j, r)), StrategyFits(settled'[j], s)
    PROVE  JobInv'
<1>1. TicketFits(j, s) /\ StatusFits(r, s)
  BY DEF TicketFits, StatusFits, AtChange, Terminal
<1>2. StopFits(acked[j], s)
  BY JobFacts DEF JobFits, StopFits
<1>3. Quiet(j, s, NextRecord(j, r))
  BY <1>1, <1>2, RecordMoves DEF Active
<1> QED
  BY <1>3, QuietKeepsInv

(* Nothing but the coroutine and its record moves. *)
Aside(j) ==
    /\ UNCHANGED <<order, disk, crashes, tickets, acked>>
    /\ \A w \in writes' \ writes : Backed(w)
    /\ activeJobs' \subseteq Jobs /\ activeTargets' \in [Targets -> Jobs \cup {NoJob}]
    /\ settled' \in [Jobs -> SUBSET Plans]
    /\ \A k \in Jobs \ {j} : settled'[k] = settled[k]

LEMMA AttemptKeepsInv ==
    ASSUME JobInv, NEW j \in Jobs, task[j].pc # "none", ~task[j].killed,
           task[j].event = "none",
           NEW p \in AnyPlan, NEW b \in Rollbacks, NEW T \in SUBSET Plans,
           Attempt(j, p, b, T), Aside(j), settled'[j] \subseteq T
    PROVE  JobInv'
<1> USE JobFacts
<1>1. CASE p \in T
  <2> DEFINE s == [task[j] EXCEPT !.pc = "recheck", !.plan = p, !.rollback = b, !.step = 0,
                                  !.ticket = NoTicket, !.result = "ok", !.tried = T]
             r == [job[j] EXCEPT !.status = "running"]
  <2>1. s \in TaskRecord /\ s.pc = "recheck" /\ s.event = "none" /\ s.tried = T
    <3>1. NoTicket \in 0 .. MaxApprovals
      BY BoundsAssumption DEF NoTicket
    <3> QED
      BY <3>1 DEF TaskRecord, Phases
  <2>2. r \in JobRecord /\ r.status = "running" /\ r.pending = job[j].pending
        /\ r.receipt = job[j].receipt
    BY DEF JobRecord, Statuses, Active
  <2>3. QuietStep(j, s, NextRecord(j, r))
    BY <1>1, NoteIs DEF Attempt, Run, NoteStatus, QuietStep, Aside
  <2>4. StrategyFits(settled'[j], s)
    BY <2>1 DEF StrategyFits
  <2> HIDE DEF s, r
  <2> QED
    BY <2>1, <2>2, <2>3, <2>4, TurnKeepsInv
<1>2. CASE p \notin T
  <2> DEFINE s == [task[j] EXCEPT !.pc = "diagnose", !.plan = p, !.rollback = b, !.step = 0,
                                  !.ticket = NoTicket, !.result = "ok",
                                  !.tried = T \cup ({p} \ {Diagnosis})]
             r == [job[j] EXCEPT !.status = "running", !.plan = p, !.rollback = b, !.tried = T]
  <2>1. s \in TaskRecord /\ s.pc = "diagnose" /\ s.event = "none"
        /\ s.tried = T \cup ({p} \ {Diagnosis}) /\ s.plan = p
    <3>1. T \cup ({p} \ {Diagnosis}) \in SUBSET Plans
      BY DEF AnyPlan
    <3>2. NoTicket \in 0 .. MaxApprovals
      BY BoundsAssumption DEF NoTicket
    <3> QED
      BY <3>1, <3>2 DEF TaskRecord, Phases
  <2>2. r \in JobRecord /\ r.status = "running" /\ r.pending = job[j].pending
        /\ r.receipt = job[j].receipt
    BY DEF JobRecord, Statuses, Active
  <2>3. QuietStep(j, s, NextRecord(j, r))
    BY <1>2, NoteIs DEF Attempt, Run, QuietStep, Aside
  <2>4. StrategyFits(settled'[j], s)
    BY <1>2, <2>1, PlansAssumption DEF StrategyFits
  <2> HIDE DEF s, r
  <2> QED
    BY <2>1, <2>2, <2>3, <2>4, TurnKeepsInv
<1> QED
  BY <1>1, <1>2

LEMMA WaitKeepsInv ==
    ASSUME JobInv, NEW j \in Jobs, task[j].pc # "none", ~task[j].killed,
           task[j].event = "none",
           NEW T \in SUBSET Plans, WaitForRecheck(j, T), Aside(j), settled'[j] \subseteq T
    PROVE  JobInv'
<1> USE JobFacts
<1> DEFINE s == [task[j] EXCEPT !.pc = "recheck", !.tried = T, !.step = 0,
                                !.ticket = NoTicket, !.result = "ok"]
           r == [job[j] EXCEPT !.status = "running"]
<1>1. s \in TaskRecord /\ s.pc = "recheck" /\ s.event = "none" /\ s.tried = T
  <2>1. NoTicket \in 0 .. MaxApprovals
    BY BoundsAssumption DEF NoTicket
  <2> QED
    BY <2>1 DEF TaskRecord, Phases
<1>2. r \in JobRecord /\ r.status = "running" /\ r.pending = job[j].pending
      /\ r.receipt = job[j].receipt
  BY DEF JobRecord, Statuses, Active
<1>3. QuietStep(j, s, NextRecord(j, r))
  BY NoteIs DEF WaitForRecheck, Run, NoteStatus, QuietStep, Aside
<1>4. StrategyFits(settled'[j], s)
  BY <1>1 DEF StrategyFits
<1> HIDE DEF s, r
<1> QED
  BY <1>1, <1>2, <1>3, <1>4, TurnKeepsInv

LEMMA ContinueKeepsInv ==
    ASSUME JobInv, NEW j \in Jobs, task[j].pc # "none", ~task[j].killed,
           task[j].event = "none",
           NEW T \in SUBSET Plans, Continue(j, T), Aside(j), settled'[j] \subseteq T
    PROVE  JobInv'
<1>1. task[j].initial \in Rollbacks
  BY JobFacts DEF TaskRecord
<1>2. \A p \in AnyPlan : Carried(p, task[j].initial) \in Rollbacks
  BY <1>1, ValuesTyped
<1> QED
  BY <1>2, AttemptKeepsInv, WaitKeepsInv DEF Continue

-----------------------------------------------------------------------------
(* What a coroutine at a change would send, and where. *)
LEMMA CallTyped ==
    ASSUME JobInv, NEW j \in Jobs, task[j].pc \in AtChange
    PROVE  /\ ChangeAt(j) \in Changes /\ Call(j).job = j
           /\ Call(j).change \in Changes /\ TargetKey(j) \in Targets
           /\ RollsBack(j) => Call(j).change \in Rollbacks /\ Call(j).ticket = NoTicket
           /\ ~RollsBack(j) => Call(j).change = ChangeAt(j) /\ Call(j).ticket = task[j].ticket
<1>1. /\ task[j].plan \in Plans /\ task[j].step \in 1 .. Len(ChangesOf[task[j].plan])
      /\ RollsBack(j) => task[j].rollback # NoChange
  BY JobFacts DEF JobFits, TicketFits, RollsBack
<1>2. ChangeAt(j) \in Changes
  BY <1>1, PlanChanges DEF ChangeAt
<1>3. task[j].rollback \in Rollbacks
  BY JobFacts DEF TaskRecord
<1>4. RollsBack(j) => task[j].rollback \in Changes
  BY <1>1, <1>3, PlansAssumption DEF Rollbacks
<1>5. /\ Call(j).job = j /\ Call(j).change \in Changes
      /\ RollsBack(j) => Call(j).change \in Rollbacks /\ Call(j).ticket = NoTicket
      /\ ~RollsBack(j) => Call(j).change = ChangeAt(j) /\ Call(j).ticket = task[j].ticket
  BY <1>2, <1>3, <1>4 DEF Call
<1> QED
  BY <1>2, <1>5, PlansAssumption DEF TargetKey

(* What a coroutine that has no pending cancel knows. *)
LEMMA MayFacts ==
    ASSUME JobInv, NEW j \in Jobs, NEW pc, May(j, pc), pc # "none"
    PROVE  /\ task[j].pc = pc /\ task[j].pc # "none" /\ ~task[j].killed
           /\ pc # "approval" => task[j].event = "none" /\ acked[j] # "now"
           /\ pc \in AtChange =>
                 /\ task[j].plan \in Plans /\ TargetKey(j) \in Targets
                 /\ ChangeAt(j) \in Changes
                 /\ task[j].ticket \in 1 .. Len(tickets[j])
           /\ task[j].plan \in AnyPlan /\ task[j].tried \in SUBSET Plans
           /\ task[j].rollback \in Rollbacks
           /\ settled[j] \subseteq task[j].tried
<1>1. task[j].pc = pc /\ ~task[j].killed
  BY DEF May
<1>2. JobFits(j) /\ task[j] \in TaskRecord /\ settled[j] \in SUBSET Plans
  BY JobFacts
<1>3. pc # "approval" => task[j].event = "none" /\ acked[j] # "now"
  BY <1>1, <1>2 DEF JobFits, StopFits
<1>4. ASSUME pc \in AtChange
      PROVE  /\ task[j].plan \in Plans /\ TargetKey(j) \in Targets
             /\ ChangeAt(j) \in Changes /\ task[j].ticket \in 1 .. Len(tickets[j])
  <2>1. task[j].plan \in Plans /\ task[j].ticket \in 1 .. Len(tickets[j])
    BY <1>1, <1>2, <1>4 DEF JobFits, TicketFits
  <2> QED
    BY <1>1, <1>4, <2>1, CallTyped
<1>5. settled[j] \subseteq task[j].tried
  BY <1>1, <1>2 DEF JobFits, StrategyFits
<1> QED
  BY <1>1, <1>2, <1>3, <1>4, <1>5 DEF TaskRecord

(* The lease keeps its type. *)
LEMMA LeaseTyped ==
    ASSUME JobInv, NEW j \in Jobs, NEW t \in Targets, Acquired(j, t) \/ Released(j, t)
    PROVE  activeJobs' \subseteq Jobs /\ activeTargets' \in [Targets -> Jobs \cup {NoJob}]
  BY DEF Acquired, Released, TargetsAfterRelease, JobInv, TypeOK

LEMMA DropTyped ==
    ASSUME JobInv, NEW j \in Jobs, DropLease(j)
    PROVE  activeJobs' \subseteq Jobs /\ activeTargets' \in [Targets -> Jobs \cup {NoJob}]
<1>1. CASE InWrite(j)
  <2>1. TargetKey(j) \in Targets
    BY <1>1, CallTyped DEF InWrite, AtChange
  <2> QED
    BY <1>1, <2>1, LeaseTyped DEF DropLease
<1>2. CASE ~InWrite(j)
  BY <1>2 DEF DropLease, leaseVars, JobInv, TypeOK
<1> QED
  BY <1>1, <1>2

-----------------------------------------------------------------------------
(* The steps of the coroutine between its plans. *)
LEMMA BetweenPlansKeepsInv ==
    ASSUME JobInv, NEW j \in Jobs,
           StartRunner(j) \/ DiagnoseBlocked(j) \/ DiagnosePlanned(j) \/ Recheck(j)
    PROVE  JobInv'
<1>1. ASSUME UNCHANGED <<order, writes, disk, crashes, leaseVars, history>>
      PROVE  Aside(j) /\ settled'[j] = settled[j]
  BY <1>1 DEF Aside, leaseVars, history, JobInv, TypeOK
<1>2. CASE StartRunner(j)
  <2>1. Aside(j) /\ settled'[j] = settled[j] /\ Attempt(j, task[j].plan, task[j].rollback, task[j].tried)
    BY <1>1, <1>2 DEF StartRunner
  <2>2. May(j, "start")
    BY <1>2 DEF StartRunner
  <2> QED
    BY <2>1, <2>2, MayFacts, AttemptKeepsInv
<1>3. CASE DiagnoseBlocked(j)
  <2>1. Aside(j) /\ settled'[j] = settled[j]
        /\ WaitForRecheck(j, task[j].tried \ {task[j].plan})
    BY <1>1, <1>3 DEF DiagnoseBlocked
  <2>2. May(j, "diagnose")
    BY <1>3 DEF DiagnoseBlocked
  <2>3. task[j].plan \notin settled[j]
    BY <2>2, JobFacts DEF May, JobFits, StrategyFits
  <2>4. task[j].tried \ {task[j].plan} \in SUBSET Plans
        /\ settled'[j] \subseteq task[j].tried \ {task[j].plan}
    BY <2>1, <2>2, <2>3, MayFacts
  <2> QED
    BY <2>1, <2>2, <2>4, MayFacts, WaitKeepsInv
<1>4. CASE DiagnosePlanned(j)
  <2>1. Aside(j) /\ settled'[j] = settled[j] /\ Continue(j, task[j].tried)
    BY <1>1, <1>4 DEF DiagnosePlanned
  <2>2. May(j, "diagnose")
    BY <1>4 DEF DiagnosePlanned
  <2> QED
    BY <2>1, <2>2, MayFacts, ContinueKeepsInv
<1>5. CASE Recheck(j)
  <2>1. Aside(j) /\ settled'[j] = settled[j] /\ Attempt(j, Diagnosis, task[j].rollback, task[j].tried)
    BY <1>1, <1>5 DEF Recheck
  <2>2. May(j, "recheck") /\ Diagnosis \in AnyPlan
    BY <1>5 DEF Recheck, AnyPlan
  <2> QED
    BY <2>1, <2>2, MayFacts, AttemptKeepsInv
<1> QED
  BY <1>2, <1>3, <1>4, <1>5

(* The ways out, and the denial or the end of the wait for an approval. *)
LEMMA EndingKeepsInv ==
    ASSUME JobInv, NEW j \in Jobs,
           \/ DiagnoseHealthy(j) \/ ApprovalDenied(j) \/ ApprovalTimesOut(j)
           \/ Recovered(j) \/ CancelDelivered(j) \/ RunnerFails(j)
    PROVE  JobInv'
<1>1. task[j].pc # "none"
  <2>1. CASE CancelDelivered(j)
    <3>1. DropLease(j) /\ task[j].killed
      BY <2>1 DEF CancelDelivered
    <3> QED
      BY <3>1, JobFacts DEF JobFits, StopFits
  <2> QED
    BY <2>1 DEF DiagnoseHealthy, ApprovalDenied, ApprovalTimesOut, Recovered, RunnerFails, May
<1>2. Aside(j) /\ settled' = settled
  <2>1. CASE CancelDelivered(j) \/ RunnerFails(j)
    <3>1. DropLease(j) /\ writes' \subseteq writes
          /\ UNCHANGED <<order, disk, crashes, history>>
      BY <2>1 DEF CancelDelivered, RunnerFails
    <3> QED
      BY <3>1, DropTyped DEF Aside, history, JobInv, TypeOK
  <2>2. CASE DiagnoseHealthy(j) \/ ApprovalDenied(j) \/ ApprovalTimesOut(j) \/ Recovered(j)
    BY <2>2 DEF DiagnoseHealthy, ApprovalDenied, ApprovalTimesOut, Recovered, Aside,
                leaseVars, history, JobInv, TypeOK
  <2> QED
    BY <2>1, <2>2
<1>3. CASE ApprovalTimesOut(j)
  <2> DEFINE r == [job[j] EXCEPT !.status = "cancelled", !.pending = NoPending, !.approved = 0]
  <2>1. NoPending \in [ticket : 0 .. MaxApprovals, change : Changes \cup {NoChange},
                       step : Nat, consumed : BOOLEAN]
    BY BoundsAssumption DEF NoPending, NoTicket
  <2>2. r \in JobRecord /\ r.status \in Terminal /\ r.pending = NoPending
        /\ r.receipt = job[j].receipt
    BY <2>1, JobFacts DEF JobRecord, Statuses, Terminal
  <2>3. QuietStep(j, NoTask, NextRecord(j, r))
    BY <1>2, <1>3, NoteIs DEF ApprovalTimesOut, Run, QuietStep, Aside
  <2> HIDE DEF r
  <2> QED
    BY <1>1, <2>2, <2>3, EndKeepsInv
<1>4. ASSUME NEW st \in Terminal, End(j, st) PROVE JobInv'
  <2> DEFINE r == [job[j] EXCEPT !.status = st]
  <2>1. r \in JobRecord /\ r.status \in Terminal /\ r.pending = job[j].pending
        /\ r.receipt = job[j].receipt
    BY <1>4, JobFacts DEF JobRecord, Statuses
  <2>2. QuietStep(j, NoTask, NextRecord(j, r))
    BY <1>2, <1>4, NoteIs DEF End, NoteStatus, Run, QuietStep, Aside
  <2> HIDE DEF r
  <2> QED
    BY <1>1, <2>1, <2>2, EndKeepsInv
<1> QED
  BY <1>3, <1>4 DEF DiagnoseHealthy, ApprovalDenied, Recovered, CancelDelivered, RunnerFails,
                    Terminal

-----------------------------------------------------------------------------
(* The coroutine moves on within its plan, after the change was made. *)
LEMMA WithinKeepsInv ==
    ASSUME JobInv, NEW j \in Jobs, task[j].pc \in AtChange \ {"approval", "lease"},
           ~task[j].killed,
           NEW s \in TaskRecord, s.pc \in {"verify", "rollbackLease", "verifyRollback"},
           task[j].pc \in {"rollback", "verifyRollback"} <=> s.pc = "verifyRollback",
           s.pc = "rollbackLease" => s.rollback # NoChange,
           s.plan = task[j].plan, s.step = task[j].step, s.ticket = task[j].ticket,
           s.tried = task[j].tried, s.event = "none",
           task' = [task EXCEPT ![j] = s], job' = job, Aside(j), settled' = settled
    PROVE  JobInv'
<1>1. JobFits(j) /\ job[j].status \in Active \cup {"gone"} /\ job[j] \in JobRecord
  BY JobFacts DEF AtChange
<1>2. TicketFits(j, s) /\ StopFits(acked[j], s)
  BY <1>1 DEF JobFits, TicketFits, StopFits, AtChange
<1>3. StatusFits(job[j], s)
  BY <1>1 DEF StatusFits, Active, Terminal, AtChange
<1>4. StrategyFits(settled'[j], s)
  BY <1>1 DEF JobFits, StrategyFits, AtChange
<1>5. Quiet(j, s, job[j])
  BY <1>1, <1>2, <1>3 DEF Quiet, Active
<1>6. QuietStep(j, s, job[j])
  BY DEF QuietStep, Aside, JobInv, TypeOK
<1> QED
  BY <1>4, <1>5, <1>6, QuietKeepsInv

LEMMA RollbackKeepsInv ==
    ASSUME JobInv, NEW j \in Jobs,
           RollbackNeeded(j) \/ RollbackReturns(j)
    PROVE  JobInv'
<1>1. CASE RollbackNeeded(j)
  <2> DEFINE s == [task[j] EXCEPT !.pc = "rollbackLease"]
  <2>1. May(j, "verify") /\ task' = [task EXCEPT ![j] = s] /\ job' = job
    BY <1>1 DEF RollbackNeeded, Run
  <2>2. Aside(j) /\ settled' = settled
    BY <1>1 DEF RollbackNeeded, Aside, leaseVars, history, JobInv, TypeOK
  <2>3. s \in TaskRecord /\ s.pc = "rollbackLease" /\ s.plan = task[j].plan
        /\ s.step = task[j].step /\ s.ticket = task[j].ticket /\ s.tried = task[j].tried
        /\ s.event = task[j].event /\ s.rollback = task[j].rollback
    BY JobFacts DEF TaskRecord, Phases
  <2>4. task[j].pc = "verify" /\ ~task[j].killed /\ task[j].event = "none"
        /\ task[j].rollback # NoChange
    BY <1>1, <2>1, MayFacts DEF AtChange, RollbackNeeded
  <2> HIDE DEF s
  <2> QED
    BY <2>1, <2>2, <2>3, <2>4, WithinKeepsInv DEF AtChange
<1>2. CASE RollbackReturns(j)
  <2> DEFINE s == [task[j] EXCEPT !.pc = "verifyRollback"]
  <2>1. May(j, "rollback") /\ task' = [task EXCEPT ![j] = s] /\ job' = job
        /\ writes' \subseteq writes /\ UNCHANGED <<order, disk, crashes, history>>
    BY <1>2 DEF RollbackReturns, Run
  <2>2. activeJobs' \subseteq Jobs /\ activeTargets' \in [Targets -> Jobs \cup {NoJob}]
    BY <1>2, <2>1, MayFacts, LeaseTyped DEF RollbackReturns, AtChange
  <2>3. Aside(j) /\ settled' = settled
    BY <2>1, <2>2 DEF Aside, history, JobInv, TypeOK
  <2>4. s \in TaskRecord /\ s.pc = "verifyRollback" /\ s.plan = task[j].plan
        /\ s.step = task[j].step /\ s.ticket = task[j].ticket /\ s.tried = task[j].tried
        /\ s.event = task[j].event
    BY JobFacts DEF TaskRecord, Phases
  <2>5. task[j].pc = "rollback" /\ ~task[j].killed /\ task[j].event = "none"
    BY <2>1, MayFacts DEF AtChange
  <2> HIDE DEF s
  <2> QED
    BY <2>1, <2>3, <2>4, <2>5, WithinKeepsInv DEF AtChange
<1> QED
  BY <1>1, <1>2

(* An attempt that did not recover the target settles its strategy, or      *)
(* makes it possible again.                                                 *)
LEMMA UnrecoveredKeepsInv ==
    ASSUME JobInv, NEW j \in Jobs, Unrecovered(j)
    PROVE  JobInv'
<1>1. PICK pc \in {"verify", "verifyRollback"} : May(j, pc)
  BY DEF Unrecovered
<1>2. /\ task[j].pc # "none" /\ ~task[j].killed /\ task[j].event = "none"
      /\ task[j].plan \in Plans /\ task[j].tried \in SUBSET Plans
      /\ settled[j] \subseteq task[j].tried
  BY <1>1, MayFacts DEF AtChange
<1>3. task[j].plan \in task[j].tried /\ task[j].plan \notin settled[j]
  BY <1>1, <1>2, JobFacts DEF May, JobFits, StrategyFits
<1>4. CASE task[j].result = "blocking"
  <2>1. settled' = settled /\ WaitForRecheck(j, task[j].tried \ {task[j].plan})
    BY <1>4 DEF Unrecovered
  <2>2. Aside(j)
    BY <2>1 DEF Unrecovered, Aside, leaseVars, JobInv, TypeOK
  <2>3. task[j].tried \ {task[j].plan} \in SUBSET Plans
        /\ settled'[j] \subseteq task[j].tried \ {task[j].plan}
    BY <1>2, <1>3, <2>1
  <2> QED
    BY <1>2, <2>1, <2>2, <2>3, WaitKeepsInv
<1>5. CASE task[j].result # "blocking"
  <2>1. settled' = [settled EXCEPT ![j] = @ \cup {task[j].plan}]
        /\ Continue(j, task[j].tried)
    BY <1>5 DEF Unrecovered
  <2>2. Aside(j) /\ settled'[j] \subseteq task[j].tried
    BY <1>2, <1>3, <2>1 DEF Unrecovered, Aside, leaseVars, JobInv, TypeOK
  <2> QED
    BY <1>2, <2>1, <2>2, ContinueKeepsInv
<1> QED
  BY <1>4, <1>5

(* The confirmed receipt names the ticket that the coroutine waits for. *)
LEMMA GrantedKeepsInv ==
    ASSUME JobInv, NEW j \in Jobs, ApprovalGranted(j)
    PROVE  JobInv'
<1> DEFINE s == [task[j] EXCEPT !.pc = "lease", !.event = "none"]
           r == [job[j] EXCEPT !.status = "running", !.pending = NoPending,
                               !.approved = task[j].step]
<1>1. /\ task[j].pc = "approval" /\ ~task[j].killed /\ ~task[j].cancel
      /\ task[j] \in TaskRecord /\ job[j] \in JobRecord /\ JobFits(j)
  BY JobFacts DEF ApprovalGranted, May
<1>2. s \in TaskRecord /\ s.pc = "lease" /\ s.plan = task[j].plan /\ s.step = task[j].step
      /\ s.ticket = task[j].ticket /\ s.tried = task[j].tried /\ s.event = "none"
      /\ s.killed = task[j].killed
  BY <1>1 DEF TaskRecord, Phases
<1>3. /\ r \in JobRecord /\ r.status = "running" /\ r.pending = NoPending
      /\ r.receipt = job[j].receipt
  <2>1. NoPending \in [ticket : 0 .. MaxApprovals, change : Changes \cup {NoChange},
                       step : Nat, consumed : BOOLEAN]
    BY BoundsAssumption DEF NoPending, NoTicket
  <2>2. task[j].step \in Nat
    BY <1>1 DEF TaskRecord
  <2> QED
    BY <1>1, <2>1, <2>2 DEF JobRecord, Statuses, Active
<1>4. QuietStep(j, s, NextRecord(j, r))
  BY NoteIs DEF ApprovalGranted, Run, QuietStep, leaseVars, history, JobInv, TypeOK
<1> HIDE DEF s, r
<1>5. tickets[j][task[j].ticket].verdict = "confirmed"
  BY <1>1 DEF ApprovalGranted, Approved, JobFits, RecordFits
<1>6. TicketFits(j, s)
  BY <1>1, <1>2, <1>5 DEF JobFits, TicketFits, AtChange
<1>7. StopFits(acked[j], s) /\ StatusFits(r, s)
  BY <1>1, <1>2, <1>3 DEF JobFits, StopFits, StatusFits, Terminal
<1>8. settled'[j] = settled[j]
  BY DEF ApprovalGranted, history
<1>9. StrategyFits(settled'[j], s)
  BY <1>1, <1>2, <1>8 DEF JobFits, StrategyFits
<1>10. Quiet(j, s, NextRecord(j, r))
  BY <1>1, <1>2, <1>3, <1>6, <1>7, RecordMoves DEF Active
<1> QED
  BY <1>4, <1>9, <1>10, QuietKeepsInv

-----------------------------------------------------------------------------
(* A new ticket leaves the earlier ones as they are. *)
LEMMA TicketAppended ==
    ASSUME NEW q \in Seq(Ticket), NEW t \in Ticket
    PROVE  /\ Append(q, t) \in Seq(Ticket) /\ Len(q) \in Nat
           /\ Len(Append(q, t)) = Len(q) + 1
           /\ \A i \in 1 .. Len(q) : Append(q, t)[i] = q[i]
           /\ Append(q, t)[Len(q) + 1] = t
  BY AppendProperties, LenProperties

LEMMA RoomMoves ==
    ASSUME NEW a \in Int, NEW b \in Int, NEW k \in Int, NEW M \in Int, a + b - k + 1 <= M
    PROVE  (a + 1) + b - k <= M
  OBVIOUS

LEMMA RoomStarts ==
    ASSUME NEW a \in Int, NEW b \in Int, NEW M \in Int, a + b <= M
    PROVE  a + b - 1 + 1 <= M
  OBVIOUS

LEMMA AskKeepsInv ==
    ASSUME JobInv, NEW j \in Jobs, task[j].pc \in {"diagnose", "executing"}, ~task[j].killed,
           task[j].plan \in Plans, NEW k \in 1 .. Len(ChangesOf[task[j].plan]),
           Len(tickets[j]) + Len(ChangesOf[task[j].plan]) - k + 1 <= MaxApprovals,
           NEW result \in {"ok", "failed", "blocking"}, Ask(j, k, result),
           writes' \subseteq writes,
           activeJobs' \subseteq Jobs, activeTargets' \in [Targets -> Jobs \cup {NoJob}],
           UNCHANGED <<order, disk, crashes, acked, settled>>
    PROVE  JobInv'
<1> DEFINE id == Len(tickets[j]) + 1
           change == ChangesOf[task[j].plan][k]
           t == [change |-> change, step |-> k, epoch |-> crashes,
                 verdict |-> "open", uses |-> 0, undone |-> 0]
           s == [task[j] EXCEPT !.pc = "approval", !.step = k, !.ticket = id,
                                !.result = result, !.event = "clear"]
           pending == [ticket |-> id, change |-> change, step |-> k, consumed |-> FALSE]
           r == [job[j] EXCEPT !.status = "awaiting_approval", !.pending = pending]
<1>1. /\ task[j] \in TaskRecord /\ job[j] \in JobRecord /\ JobFits(j)
      /\ tickets[j] \in Seq(Ticket) /\ job[j].status \in Active \cup {"gone"}
      /\ tickets \in [Jobs -> Seq(Ticket)] /\ crashes \in 0 .. MaxCrashes
      /\ task \in [Jobs -> TaskRecord]
  BY JobFacts DEF JobInv, TypeOK
<1>2. /\ Len(ChangesOf[task[j].plan]) \in Nat \ {0} /\ change \in Changes
      /\ k \in Nat /\ k <= Len(ChangesOf[task[j].plan])
  BY PlanChanges
<1>3. /\ Len(tickets[j]) \in Nat /\ id = Len(tickets[j]) + 1 /\ id \in Nat
      /\ id \in 1 .. MaxApprovals /\ id \in 0 .. MaxApprovals
  BY <1>1, <1>2, LenProperties, BoundsAssumption
<1>4. t \in Ticket /\ t.verdict = "open" /\ t.uses = 0 /\ t.undone = 0 /\ t.change = change
      /\ t.epoch = crashes
  BY <1>1, <1>2 DEF Ticket
<1>5. /\ s \in TaskRecord /\ s.pc = "approval" /\ s.step = k /\ s.ticket = id
      /\ s.plan = task[j].plan /\ s.tried = task[j].tried /\ s.event = "clear"
      /\ s.killed = task[j].killed
  <2> HIDE DEF id
  <2> QED
    BY <1>1, <1>2, <1>3 DEF TaskRecord, Phases
<1>6. /\ r \in JobRecord /\ r.status = "awaiting_approval" /\ r.pending = pending
      /\ r.receipt = job[j].receipt
  <2>1. pending \in [ticket : 0 .. MaxApprovals, change : Changes \cup {NoChange},
                     step : Nat, consumed : BOOLEAN]
    BY <1>2, <1>3
  <2> QED
    BY <1>1, <2>1 DEF JobRecord, Statuses, Active
<1>7. tickets' = [tickets EXCEPT ![j] = Append(tickets[j], t)]
  BY DEF Ask
<1>8. task' = [task EXCEPT ![j] = s]
  BY DEF Ask, Run
<1>9. job' = [job EXCEPT ![j] = NextRecord(j, r)]
  BY NoteIs DEF Ask
<1>10. change = ChangesOf[task[j].plan][k] /\ pending.ticket = id
  OBVIOUS
<1> HIDE DEF t, s, r, id, change, pending
<1>11. /\ tickets'[j] \in Seq(Ticket) /\ Len(tickets'[j]) = id
       /\ \A i \in 1 .. Len(tickets[j]) : tickets'[j][i] = tickets[j][i]
       /\ tickets'[j][id] = t
  BY <1>1, <1>3, <1>4, <1>7, TicketAppended
<1>12. \A m \in Jobs \ {j} : tickets'[m] = tickets[m]
  BY <1>1, <1>7
<1>13. \A m \in Jobs : \A i \in 1 .. Len(tickets[m]) :
          i \in 1 .. Len(tickets'[m]) /\ tickets'[m][i] = tickets[m][i]
  BY SMTT(20), <1>3, <1>11, <1>12
<1>14. NextRecord(j, r) \in JobRecord
  BY <1>1, <1>6 DEF NextRecord
<1>15. TypeOK'
  <2>1. tickets' \in [Jobs -> Seq(Ticket)]
    BY <1>1, <1>7, <1>11
  <2>2. task' \in [Jobs -> TaskRecord] /\ job' \in [Jobs -> JobRecord]
    BY <1>5, <1>8, <1>9, <1>14 DEF JobInv, TypeOK
  <2> QED
    BY <2>1, <2>2 DEF JobInv, TypeOK
<1>16. ASSUME NEW m \in Jobs PROVE JobFits(m)'
  <2>1. CASE m = j
    <3>1. task'[m] = s /\ job'[m] = NextRecord(j, r)
      BY <1>1, <1>8, <1>9, <2>1 DEF JobInv, TypeOK
    <3>2. TicketFits(m, task[m])'
      <4>1. /\ s.plan \in Plans /\ s.step \in 1 .. Len(ChangesOf[s.plan])
            /\ s.ticket \in 1 .. Len(tickets'[j])
            /\ tickets'[j][s.ticket].change = ChangesOf[s.plan][s.step]
            /\ tickets'[j][s.ticket].epoch = crashes'
            /\ tickets'[j][s.ticket].uses = 0 /\ tickets'[j][s.ticket].undone = 0
        BY <1>3, <1>4, <1>5, <1>11, <1>10
      <4>2. Len(tickets'[j]) + Len(ChangesOf[s.plan]) - s.step <= MaxApprovals
        <5>1. /\ Len(tickets[j]) \in Int /\ Len(ChangesOf[task[j].plan]) \in Int
              /\ k \in Int /\ MaxApprovals \in Int
          BY <1>2, <1>3, BoundsAssumption
        <5>2. (Len(tickets[j]) + 1) + Len(ChangesOf[task[j].plan]) - k <= MaxApprovals
          BY <5>1, RoomMoves
        <5> QED
          BY <1>3, <1>5, <1>11, <5>2
      <4> QED
        BY <1>5, <2>1, <3>1, <4>1, <4>2 DEF TicketFits
    <3>3. StrategyFits(settled[m], task[m])'
      BY <1>1, <1>5, <2>1, <3>1 DEF JobFits, StrategyFits
    <3>4. StopFits(acked[m], task[m])'
      BY <1>1, <1>5, <2>1, <3>1 DEF JobFits, StopFits
    <3>5. RecordFits(tickets[m], job[m])'
      <4>1. CASE Registered(j)
        <5>1. job'[m] = r
          BY <3>1, <4>1 DEF NextRecord
        <5>2. r.receipt.confirmed =>
                 /\ r.receipt.ticket \in 1 .. Len(tickets[j])
                 /\ tickets[j][r.receipt.ticket].verdict = "confirmed"
                 /\ tickets[j][r.receipt.ticket].change = r.receipt.change
          BY <1>1, <1>6 DEF JobFits, RecordFits
        <5>3. r.receipt.confirmed =>
                 /\ r.receipt.ticket \in 1 .. Len(tickets'[j])
                 /\ tickets'[j][r.receipt.ticket].verdict = "confirmed"
                 /\ tickets'[j][r.receipt.ticket].change = r.receipt.change
          BY <1>13, <5>2
        <5>4. /\ r.pending.ticket \in 1 .. Len(tickets'[j])
              /\ tickets'[j][r.pending.ticket].verdict = "open" /\ r.status # "unborn"
          BY <1>3, <1>4, <1>6, <1>11, <1>10
        <5> QED
          BY <2>1, <5>1, <5>3, <5>4 DEF RecordFits
      <4>2. CASE ~Registered(j)
        <5>1. job'[m] = job[j] /\ job[j].status = "gone"
          BY <1>1, <3>1, <4>2 DEF NextRecord, Registered, Active
        <5> QED
          BY <1>1, <1>13, <2>1, <5>1 DEF JobFits, RecordFits
      <4> QED
        BY <4>1, <4>2
    <3>6. StatusFits(job[m], task[m])'
      BY <1>1, <1>5, <1>6, <3>1 DEF NextRecord, Registered, StatusFits, Active, Terminal
    <3>7. UnbornFits(m)'
      BY <1>1, <1>6, <3>1 DEF NextRecord, UnbornFits, Active
    <3> QED
      BY <3>2, <3>3, <3>4, <3>5, <3>6, <3>7 DEF JobFits
  <2>2. CASE m # j
    <3>1. /\ task'[m] = task[m] /\ job'[m] = job[m] /\ tickets'[m] = tickets[m]
          /\ settled'[m] = settled[m] /\ acked' = acked /\ crashes' = crashes
      BY <1>8, <1>9, <1>12, <2>2 DEF JobInv, TypeOK
    <3> QED
      BY <3>1 DEF JobInv, JobFits, TicketFits, StrategyFits, StopFits, RecordFits, StatusFits, UnbornFits
  <2> QED
    BY <2>1, <2>2
<1>17. OrderIsRegistry'
  <2>1. \A m \in Jobs : job[m].status \in Active \cup Terminal =>
                         job'[m].status \in Active \cup Terminal
    BY <1>6, <1>9 DEF NextRecord, Registered, Active, Terminal, JobInv, TypeOK
  <2>2. \A i \in 1 .. Len(order) : order[i] \in Jobs
    BY DEF JobInv, TypeOK
  <2> QED
    BY <2>1, <2>2 DEF JobInv, OrderIsRegistry
<1>18. WritesKnown' /\ WritesAreApproved'
  <2>1. ASSUME NEW w \in writes' PROVE w \in WriteRecord /\ w.job \in Jobs /\ Backed(w)
    BY WritesAreBacked DEF JobInv, TypeOK, WriteRecord
  <2>2. \A w \in writes' : Backed(w)'
    BY <1>13, <2>1 DEF Backed
  <2> QED
    BY <1>15, <2>2, WritesAreBackedNext
<1>19. ApprovalsAreOneShot'
  <2>1. \A m \in Jobs : DOMAIN tickets[m] = 1 .. Len(tickets[m])
                        /\ DOMAIN tickets'[m] = 1 .. Len(tickets'[m])
    BY <1>1, <1>11, <1>12, LenProperties
  <2> QED
    BY SMTT(20), <1>3, <1>4, <1>11, <1>12, <2>1 DEF JobInv, ApprovalsAreOneShot
<1> QED
  BY <1>15, <1>16, <1>17, <1>18, <1>19 DEF JobInv

LEMMA DiagnoseReadyKeepsInv ==
    ASSUME JobInv, NEW j \in Jobs, DiagnoseReady(j)
    PROVE  JobInv'
<1>1. /\ task[j].pc = "diagnose" /\ ~task[j].killed /\ task[j].plan \in Plans
      /\ Ask(j, 1, "ok")
      /\ UNCHANGED <<order, writes, disk, crashes, leaseVars, acked, settled>>
      /\ Len(tickets[j]) + Len(ChangesOf[task[j].plan]) <= MaxApprovals
  BY DEF DiagnoseReady, May
<1>2. Len(tickets[j]) \in Nat /\ Len(ChangesOf[task[j].plan]) \in Nat \ {0}
      /\ MaxApprovals \in Nat
  BY <1>1, JobFacts, PlanChanges, LenProperties, BoundsAssumption
<1>3. /\ 1 \in 1 .. Len(ChangesOf[task[j].plan])
      /\ Len(tickets[j]) + Len(ChangesOf[task[j].plan]) - 1 + 1 <= MaxApprovals
  <2>1. Len(tickets[j]) \in Int /\ Len(ChangesOf[task[j].plan]) \in Int
        /\ MaxApprovals \in Int
    BY <1>2
  <2>2. Len(tickets[j]) + Len(ChangesOf[task[j].plan]) - 1 + 1 <= MaxApprovals
    BY ONLY <1>1, <2>1, RoomStarts
  <2>3. 1 \in 1 .. Len(ChangesOf[task[j].plan])
    BY <1>2
  <2> QED
    BY <2>2, <2>3
<1>4. activeJobs' \subseteq Jobs /\ activeTargets' \in [Targets -> Jobs \cup {NoJob}]
  BY <1>1 DEF leaseVars, JobInv, TypeOK
<1> QED
  BY <1>1, <1>3, <1>4, AskKeepsInv

(* The change is answered for: the next one is asked for, or the plan is    *)
(* verified.                                                                *)
LEMMA ChangeEndsKeepsInv ==
    ASSUME JobInv, NEW j \in Jobs, ChangeReturns(j) \/ ChangeTimesOut(j)
    PROVE  JobInv'
<1>1. PICK v \in {"ok", "failed", "blocking"} : AfterChange(j, v)
  BY DEF ChangeReturns, ChangeTimesOut
<1>2. May(j, "executing") /\ writes' \subseteq writes
  BY DEF ChangeReturns, ChangeTimesOut
<1>3. /\ task[j].pc = "executing" /\ ~task[j].killed /\ task[j].event = "none"
      /\ task[j].plan \in Plans /\ TargetKey(j) \in Targets
      /\ task[j] \in TaskRecord
  BY <1>2, MayFacts, JobFacts DEF AtChange
<1>4. activeJobs' \subseteq Jobs /\ activeTargets' \in [Targets -> Jobs \cup {NoJob}]
  BY <1>1, <1>3, LeaseTyped DEF AfterChange
<1>5. /\ UNCHANGED <<order, disk, crashes, acked, settled>>
      /\ Worse(task[j].result, v) \in {"ok", "failed", "blocking"}
  BY <1>1 DEF AfterChange, Worse
<1>6. CASE LastStep(j)
  <2> DEFINE s == [task[j] EXCEPT !.pc = "verify", !.result = Worse(task[j].result, v)]
  <2>1. task' = [task EXCEPT ![j] = s] /\ job' = job /\ tickets' = tickets
    BY <1>1, <1>6 DEF AfterChange, Run
  <2>2. s \in TaskRecord /\ s.pc = "verify" /\ s.plan = task[j].plan
        /\ s.step = task[j].step /\ s.ticket = task[j].ticket /\ s.tried = task[j].tried
        /\ s.event = task[j].event
    BY <1>3, <1>5 DEF TaskRecord, Phases
  <2>3. Aside(j)
    BY <1>2, <1>4, <1>5, <2>1 DEF Aside, JobInv, TypeOK
  <2> HIDE DEF s
  <2> QED
    BY <1>3, <1>5, <2>1, <2>2, <2>3, WithinKeepsInv DEF AtChange
<1>7. CASE ~LastStep(j)
  <2> DEFINE k == task[j].step + 1
  <2>1. Ask(j, k, Worse(task[j].result, v))
    BY <1>1, <1>7 DEF AfterChange
  <2>2. /\ task[j].step \in 1 .. Len(ChangesOf[task[j].plan])
        /\ Len(tickets[j]) + Len(ChangesOf[task[j].plan]) - task[j].step <= MaxApprovals
    BY <1>3, JobFacts DEF JobFits, TicketFits, AtChange
  <2>3. Len(tickets[j]) \in Nat /\ Len(ChangesOf[task[j].plan]) \in Nat
        /\ task[j].step # Len(ChangesOf[task[j].plan]) /\ MaxApprovals \in Nat
    BY <1>3, <1>7, JobFacts, PlanChanges, LenProperties, BoundsAssumption DEF LastStep
  <2>4. /\ k \in 1 .. Len(ChangesOf[task[j].plan])
        /\ Len(tickets[j]) + Len(ChangesOf[task[j].plan]) - k + 1 <= MaxApprovals
    <3> DEFINE i == task[j].step
               n == Len(ChangesOf[task[j].plan])
               t == Len(tickets[j])
    <3>1. /\ i \in 1 .. n /\ t + n - i <= MaxApprovals
          /\ t \in Nat /\ n \in Nat /\ i # n /\ MaxApprovals \in Nat
      BY <2>2, <2>3
    <3> HIDE DEF i, n, t
    <3>2. i + 1 \in 1 .. n /\ t + n - (i + 1) + 1 <= MaxApprovals
      BY <3>1
    <3> QED
      BY <3>2 DEF i, n, t
  <2> HIDE DEF k
  <2> QED
    BY <1>2, <1>3, <1>4, <1>5, <2>1, <2>4, AskKeepsInv
<1> QED
  BY <1>6, <1>7

-----------------------------------------------------------------------------
(* A call is made: of the change, for the first time under its ticket, or of *)
(* the rollback, once after that change.                                     *)
LEMMA CallKeepsInv ==
    ASSUME JobInv, NEW j \in Jobs, task[j].pc \in {"lease", "rollbackLease"}, ~task[j].killed,
           task[j].event = "none",
           NEW s \in TaskRecord,
           s.pc = IF task[j].pc = "lease" THEN "executing" ELSE "rollback",
           s.plan = task[j].plan, s.step = task[j].step, s.ticket = task[j].ticket,
           s.rollback = task[j].rollback, s.tried = task[j].tried, s.event = "none",
           s.killed = FALSE,
           NEW t \in Ticket,
           t.verdict = tickets[j][s.ticket].verdict, t.change = tickets[j][s.ticket].change,
           t.epoch = tickets[j][s.ticket].epoch, t.uses = 1,
           t.undone = IF task[j].pc = "lease" THEN 0 ELSE 1,
           task' = [task EXCEPT ![j] = s], writes' = writes \cup {Call(j)},
           tickets' = [tickets EXCEPT ![j] = [tickets[j] EXCEPT ![s.ticket] = t]],
           UNCHANGED <<order, job, disk, crashes, acked, settled>>,
           activeJobs' \subseteq Jobs, activeTargets' \in [Targets -> Jobs \cup {NoJob}]
    PROVE  JobInv'
<1> DEFINE id == s.ticket
           q == [tickets[j] EXCEPT ![id] = t]
<1>1. /\ JobFits(j) /\ TicketFits(j, task[j]) /\ id \in 1 .. Len(tickets[j])
      /\ tickets[j] \in Seq(Ticket) /\ tickets \in [Jobs -> Seq(Ticket)]
      /\ tickets[j][id].verdict = "confirmed" /\ tickets[j][id].epoch = crashes
      /\ tickets[j][id].change = ChangeAt(j)
  BY JobFacts DEF JobFits, TicketFits, AtChange, ChangeAt, JobInv, TypeOK
<1>2. /\ tickets[j][id].undone = 0
      /\ tickets[j][id].uses = IF task[j].pc = "lease" THEN 0 ELSE 1
  BY <1>1 DEF TicketFits, AtChange
<1>3. q \in Seq(Ticket) /\ Len(q) = Len(tickets[j]) /\ q[id] = t
      /\ \A i \in 1 .. Len(tickets[j]) : i # id => q[i] = tickets[j][i]
  BY <1>1, ExceptSeq
<1>4. id = s.ticket /\ tickets' = [tickets EXCEPT ![j] = q]
  OBVIOUS
<1> HIDE DEF id, q
<1>5. tickets'[j] = q /\ \A m \in Jobs \ {j} : tickets'[m] = tickets[m]
  BY <1>1, <1>4
<1>6. \A m \in Jobs : /\ Len(tickets'[m]) = Len(tickets[m])
                      /\ \A i \in 1 .. Len(tickets[m]) :
                            /\ tickets'[m][i].verdict = tickets[m][i].verdict
                            /\ tickets'[m][i].change = tickets[m][i].change
                            /\ tickets'[m][i].epoch = tickets[m][i].epoch
                            /\ tickets[m][i].undone = 1 => tickets'[m][i].undone = 1
  BY <1>1, <1>2, <1>3, <1>4, <1>5
<1>7. Call(j) \in WriteRecord
  <2>1. Call(j).job = j /\ Call(j).change \in Changes
        /\ Call(j).ticket \in {NoTicket, task[j].ticket}
    BY CallTyped DEF AtChange
  <2>2. task[j].ticket \in 0 .. MaxApprovals /\ NoTicket \in 0 .. MaxApprovals
    BY JobFacts, BoundsAssumption DEF TaskRecord, NoTicket
  <2>3. Call(j) = [job |-> Call(j).job, change |-> Call(j).change, ticket |-> Call(j).ticket]
    BY DEF Call
  <2> HIDE DEF Call
  <2> QED
    BY <2>1, <2>2, <2>3 DEF WriteRecord
<1>8. TypeOK'
  BY <1>3, <1>4, <1>7 DEF JobInv, TypeOK
<1>9. ASSUME NEW m \in Jobs PROVE JobFits(m)'
  <2>1. CASE m = j
    <3>1. task'[m] = s /\ job'[m] = job[m] /\ settled'[m] = settled[m] /\ acked'[m] = acked[m]
      BY <2>1 DEF JobInv, TypeOK
    <3>2. TicketFits(m, task[m])'
      <4>1. /\ s.plan \in Plans /\ s.step \in 1 .. Len(ChangesOf[s.plan])
            /\ tickets[j][id].change = ChangesOf[s.plan][s.step]
            /\ s.pc = "executing" =>
                  Len(tickets[j]) + Len(ChangesOf[s.plan]) - s.step <= MaxApprovals
            /\ s.pc = "rollback" => s.rollback # NoChange
        BY <1>1 DEF TicketFits, AtChange, ChangeAt
      <4>2. /\ id \in 1 .. Len(tickets'[j]) /\ Len(tickets'[j]) = Len(tickets[j])
            /\ tickets'[j][id].change = ChangesOf[s.plan][s.step]
            /\ tickets'[j][id].epoch = crashes' /\ tickets'[j][id].verdict = "confirmed"
            /\ tickets'[j][id].uses = 1
            /\ tickets'[j][id].undone = IF s.pc = "rollback" THEN 1 ELSE 0
        BY <1>1, <1>3, <1>4, <1>5, <4>1
      <4>3. s.pc = "executing" =>
               Len(tickets'[j]) + Len(ChangesOf[s.plan]) - s.step <= MaxApprovals
        BY <4>1, <4>2
      <4> QED
        BY <1>4, <2>1, <3>1, <4>1, <4>2, <4>3 DEF TicketFits
    <3>3. StrategyFits(settled[m], task[m])' /\ StopFits(acked[m], task[m])'
          /\ StatusFits(job[m], task[m])'
      BY <1>1, <2>1, <3>1 DEF JobFits, StrategyFits, StopFits, StatusFits, Terminal
    <3>4. RecordFits(tickets[m], job[m])'
      <4>1. RecordFits(tickets[m], job[m])
        BY <1>1, <2>1 DEF JobFits
      <4> QED
        BY <1>6, <3>1, <4>1 DEF RecordFits
    <3>5. UnbornFits(m)'
      BY <1>1, <2>1, <3>1 DEF JobFits, UnbornFits
    <3> QED
      BY <3>2, <3>3, <3>4, <3>5 DEF JobFits
  <2>2. CASE m # j
    <3>1. /\ task'[m] = task[m] /\ job'[m] = job[m] /\ tickets'[m] = tickets[m]
          /\ settled'[m] = settled[m] /\ acked' = acked /\ crashes' = crashes
      BY <1>5, <2>2 DEF JobInv, TypeOK
    <3> QED
      BY <3>1 DEF JobInv, JobFits, TicketFits, StrategyFits, StopFits, RecordFits, StatusFits, UnbornFits
  <2> QED
    BY <2>1, <2>2
<1>10. OrderIsRegistry'
  BY DEF JobInv, OrderIsRegistry
<1>11. WritesKnown' /\ WritesAreApproved'
  <2>1. \A w \in writes : Backed(w) /\ w.job \in Jobs
    BY WritesAreBacked DEF JobInv, TypeOK, WriteRecord
  <2>2. \A w \in writes : Backed(w)'
    BY <1>6, <2>1 DEF Backed
  <2>3. \A v : v = Call(j) => Backed(v)'
    <3> DEFINE w == Call(j)
    <3>1. /\ w.job = j
          /\ task[j].pc = "lease" => w.ticket = id /\ w.change = ChangeAt(j)
          /\ task[j].pc = "rollbackLease" => w.ticket = NoTicket /\ w.change \in Rollbacks
      BY <1>4, CallTyped DEF AtChange, RollsBack
    <3>2. w \in WriteRecord /\ id # NoTicket
      BY <1>1, <1>7 DEF NoTicket
    <3> HIDE DEF w
    <3>3. /\ id \in 1 .. Len(tickets'[j]) /\ tickets'[j][id].verdict = "confirmed"
          /\ tickets'[j][id].change = ChangeAt(j) /\ tickets'[j][id].epoch = crashes'
          /\ task[j].pc = "rollbackLease" => tickets'[j][id].undone = 1
      BY <1>1, <1>3, <1>4, <1>5
    <3>4. /\ w.ticket # NoTicket =>
                /\ w.ticket \in 1 .. Len(tickets'[w.job])
                /\ tickets'[w.job][w.ticket].verdict = "confirmed"
                /\ tickets'[w.job][w.ticket].change = w.change
                /\ tickets'[w.job][w.ticket].epoch = crashes'
          /\ w.ticket = NoTicket =>
                /\ w.change \in Rollbacks
                /\ \E i \in 1 .. Len(tickets'[w.job]) :
                      /\ tickets'[w.job][i].verdict = "confirmed"
                      /\ tickets'[w.job][i].epoch = crashes'
                      /\ tickets'[w.job][i].undone = 1
      BY <3>1, <3>2, <3>3
    <3>5. \A v : v = w => Backed(v)'
      BY <3>2, <3>4 DEF Backed
    <3> QED
      BY <3>5 DEF w
  <2>4. \A w \in writes' : Backed(w)'
    BY <2>2, <2>3
  <2> QED
    BY <1>8, <2>4, WritesAreBackedNext
<1>12. ApprovalsAreOneShot'
  <2>1. \A m \in Jobs : DOMAIN tickets[m] = 1 .. Len(tickets[m])
                        /\ DOMAIN tickets'[m] = 1 .. Len(tickets[m])
    BY <1>1, <1>3, <1>5, LenProperties
  <2> QED
    BY <1>3, <1>4, <1>5, <2>1 DEF JobInv, ApprovalsAreOneShot
<1> QED
  BY <1>8, <1>9, <1>10, <1>11, <1>12 DEF JobInv

LEMMA SubmitKeepsInv ==
    ASSUME JobInv, NEW j \in Jobs, Submit(j) \/ RollbackSubmit(j)
    PROVE  JobInv'
<1> DEFINE id == task[j].ticket
           old == tickets[j][id]
<1>1. PICK pc \in {"lease", "rollbackLease"} : May(j, pc)
  BY DEF Submit, RollbackSubmit
<1>2. /\ task[j].pc = pc /\ ~task[j].killed /\ task[j].event = "none"
      /\ TargetKey(j) \in Targets /\ id \in 1 .. Len(tickets[j])
      /\ task[j] \in TaskRecord /\ tickets[j] \in Seq(Ticket) /\ JobFits(j)
      /\ pc = "lease" <=> Submit(j)
  BY <1>1, MayFacts, JobFacts DEF AtChange, Submit, RollbackSubmit, May
<1>3. /\ activeJobs' \subseteq Jobs /\ activeTargets' \in [Targets -> Jobs \cup {NoJob}]
  BY <1>2, LeaseTyped DEF Submit, RollbackSubmit
<1>4. old \in Ticket /\ old.undone = 0 /\ old.uses = IF pc = "lease" THEN 0 ELSE 1
  BY <1>2 DEF JobFits, TicketFits, AtChange
<1>5. CASE pc = "lease"
  <2> DEFINE s == [task[j] EXCEPT !.pc = "executing"]
             t == [old EXCEPT !.uses = 1]
  <2>1. /\ task' = [task EXCEPT ![j] = s] /\ writes' = writes \cup {Call(j)}
        /\ tickets' = [tickets EXCEPT ![j] = [tickets[j] EXCEPT ![id] = t]]
        /\ UNCHANGED <<order, job, disk, crashes, acked, settled>>
    BY <1>2, <1>4, <1>5 DEF Submit, Run
  <2>2. /\ s \in TaskRecord /\ s.pc = "executing" /\ s.plan = task[j].plan
        /\ s.step = task[j].step /\ s.ticket = id /\ s.rollback = task[j].rollback
        /\ s.tried = task[j].tried /\ s.event = "none" /\ s.killed = FALSE
    BY <1>2 DEF TaskRecord, Phases
  <2>3. /\ t \in Ticket /\ t.verdict = old.verdict /\ t.change = old.change
        /\ t.epoch = old.epoch /\ t.uses = 1 /\ t.undone = 0
    BY <1>4 DEF Ticket
  <2> HIDE DEF s, t
  <2> QED
    BY <1>2, <1>3, <1>5, <2>1, <2>2, <2>3, CallKeepsInv
<1>6. CASE pc = "rollbackLease"
  <2> DEFINE s == [task[j] EXCEPT !.pc = "rollback"]
             t == [old EXCEPT !.undone = 1]
  <2>1. /\ task' = [task EXCEPT ![j] = s] /\ writes' = writes \cup {Call(j)}
        /\ tickets' = [tickets EXCEPT ![j] = [tickets[j] EXCEPT ![id] = t]]
        /\ UNCHANGED <<order, job, disk, crashes, acked, settled>>
    BY <1>2, <1>4, <1>6 DEF RollbackSubmit, Run
  <2>2. /\ s \in TaskRecord /\ s.pc = "rollback" /\ s.plan = task[j].plan
        /\ s.step = task[j].step /\ s.ticket = id /\ s.rollback = task[j].rollback
        /\ s.tried = task[j].tried /\ s.event = "none" /\ s.killed = FALSE
    BY <1>2 DEF TaskRecord, Phases
  <2>3. /\ t \in Ticket /\ t.verdict = old.verdict /\ t.change = old.change
        /\ t.epoch = old.epoch /\ t.uses = 1 /\ t.undone = 1
    BY <1>4, <1>6 DEF Ticket
  <2> HIDE DEF s, t
  <2> QED
    BY <1>2, <1>3, <1>6, <2>1, <2>2, <2>3, CallKeepsInv
<1> QED
  BY <1>5, <1>6

(* A call that nobody waits for returns. *)
LEMMA StrayKeepsInv ==
    ASSUME JobInv, NEW w \in writes, StrayCallReturns(w)
    PROVE  JobInv'
<1>1. writes' \subseteq writes
      /\ UNCHANGED <<order, job, task, disk, crashes, leaseVars, history>>
  BY DEF StrayCallReturns
<1>2. TypeOK' /\ OrderIsRegistry' /\ WritesKnown' /\ WritesAreApproved' /\ ApprovalsAreOneShot'
  BY <1>1 DEF JobInv, TypeOK, OrderIsRegistry, WritesKnown, WritesAreApproved, Stands,
              ApprovalsAreOneShot, leaseVars, history
<1>3. ASSUME NEW m \in Jobs PROVE JobFits(m)'
  BY <1>1 DEF JobInv, JobFits, TicketFits, StrategyFits, StopFits, RecordFits, StatusFits, UnbornFits, history
<1> QED
  BY <1>2, <1>3 DEF JobInv
-----------------------------------------------------------------------------
(* A request that leaves the calls, the lease and the registry alone: its   *)
(* one job gets a record, a coroutine and tickets that go together.         *)
LEMMA RequestKeepsInv ==
    ASSUME JobInv, NEW j \in Jobs, job[j].status \in Active \cup Terminal,
           NEW s \in TaskRecord, NEW r \in JobRecord, r.status \in Active \cup Terminal,
           task' = [task EXCEPT ![j] = s], job' = [job EXCEPT ![j] = r],
           UNCHANGED <<order, writes, disk, crashes, leaseVars, settled>>,
           tickets' \in [Jobs -> Seq(Ticket)], acked' \in [Jobs -> {"no", "now", "earlier"}],
           \A m \in Jobs \ {j} : tickets'[m] = tickets[m] /\ acked'[m] = acked[m],
           Len(tickets'[j]) = Len(tickets[j]),
           \A i \in 1 .. Len(tickets[j]) :
              /\ tickets'[j][i].change = tickets[j][i].change
              /\ tickets'[j][i].epoch = tickets[j][i].epoch
              /\ tickets'[j][i].uses = tickets[j][i].uses
              /\ tickets'[j][i].undone = tickets[j][i].undone
              /\ tickets[j][i].verdict = "confirmed" => tickets'[j][i].verdict = "confirmed",
           s.pc = task[j].pc, s.plan = task[j].plan, s.step = task[j].step,
           s.ticket = task[j].ticket, s.tried = task[j].tried, s.rollback = task[j].rollback,
           StopFits(acked'[j], s), RecordFits(tickets'[j], r), StatusFits(r, s)
    PROVE  JobInv'
<1>1. /\ task'[j] = s /\ job'[j] = r /\ settled' = settled /\ crashes' = crashes
      /\ order' = order /\ disk' = disk /\ writes' = writes
  BY DEF JobInv, TypeOK
<1>2. \A m \in Jobs \ {j} : task'[m] = task[m] /\ job'[m] = job[m]
  BY DEF JobInv, TypeOK
<1>3. \A m \in Jobs : /\ Len(tickets'[m]) = Len(tickets[m])
                      /\ \A i \in 1 .. Len(tickets[m]) :
                            /\ tickets'[m][i].change = tickets[m][i].change
                            /\ tickets'[m][i].epoch = tickets[m][i].epoch
                            /\ tickets'[m][i].uses = tickets[m][i].uses
                            /\ tickets'[m][i].undone = tickets[m][i].undone
                            /\ tickets[m][i].verdict = "confirmed" =>
                                  tickets'[m][i].verdict = "confirmed"
  OBVIOUS
<1>4. TypeOK'
  BY DEF JobInv, TypeOK, leaseVars
<1>5. ASSUME NEW m \in Jobs PROVE JobFits(m)'
  <2>1. JobFits(m)
    BY DEF JobInv
  <2>2. CASE m = j
    <3>1. TicketFits(m, task[m])'
      <4>1. TicketFits(j, task[j]) /\ task'[m] = s
        BY <1>1, <2>1, <2>2 DEF JobFits
      <4>2. /\ s.pc \in AtChange =>
                  /\ s.plan \in Plans /\ s.step \in 1 .. Len(ChangesOf[s.plan])
                  /\ s.ticket \in 1 .. Len(tickets'[j])
                  /\ tickets'[j][s.ticket].change = ChangesOf[s.plan][s.step]
                  /\ tickets'[j][s.ticket].epoch = crashes'
            /\ s.pc \in {"approval", "lease", "executing"} =>
                  Len(tickets'[j]) + Len(ChangesOf[s.plan]) - s.step <= MaxApprovals
        BY <1>1, <4>1 DEF TicketFits
      <4>3. s.pc \in AtChange => s.ticket \in 1 .. Len(tickets[j])
        BY <4>1 DEF TicketFits
      <4>4. /\ s.pc \in {"approval", "lease"} => tickets'[j][s.ticket].uses = 0
            /\ s.pc \in AtChange \ {"approval", "lease"} => tickets'[j][s.ticket].uses = 1
            /\ s.pc \in AtChange =>
                  tickets'[j][s.ticket].undone =
                     IF s.pc \in {"rollback", "verifyRollback"} THEN 1 ELSE 0
            /\ s.pc \in {"rollbackLease", "rollback"} => s.rollback # NoChange
            /\ s.pc \in AtChange \ {"approval"} => tickets'[j][s.ticket].verdict = "confirmed"
        BY <1>3, <4>1, <4>3 DEF TicketFits, AtChange
      <4> QED
        BY <2>2, <4>1, <4>2, <4>4 DEF TicketFits
    <3>2. StrategyFits(settled[m], task[m])'
      BY <1>1, <2>1, <2>2 DEF JobFits, StrategyFits
    <3>3. StopFits(acked[m], task[m])' /\ RecordFits(tickets[m], job[m])'
      BY <1>1, <2>2
    <3>4. StatusFits(job[m], task[m])'
      BY <1>1, <2>2 DEF StatusFits
    <3>5. UnbornFits(m)'
      BY <1>1, <2>2 DEF UnbornFits, Active, Terminal
    <3> QED
      BY <3>1, <3>2, <3>3, <3>4, <3>5 DEF JobFits
  <2>3. CASE m # j
    BY <1>1, <1>2, <2>1, <2>3
       DEF JobFits, TicketFits, StrategyFits, StopFits, RecordFits, StatusFits, UnbornFits
  <2> QED
    BY <2>2, <2>3
<1>6. OrderIsRegistry'
  <2>1. \A i \in 1 .. Len(order) : order[i] \in Jobs
    BY DEF JobInv, TypeOK
  <2>2. \A m \in Jobs : job[m].status \in Active \cup Terminal =>
                         job'[m].status \in Active \cup Terminal
    BY <1>1, <1>2
  <2>3. OrderIsRegistry
    BY DEF JobInv
  <2> QED
    BY <1>1, <2>1, <2>2, <2>3 DEF OrderIsRegistry
<1>7. WritesKnown' /\ WritesAreApproved'
  <2>1. \A w \in writes : Backed(w) /\ w.job \in Jobs
    BY WritesAreBacked DEF JobInv, TypeOK, WriteRecord
  <2>2. ASSUME NEW w \in writes PROVE Backed(w)'
    <3>1. Backed(w) /\ w.job \in Jobs /\ crashes' = crashes
      BY <1>1, <2>1
    <3>2. ASSUME w.ticket # NoTicket
          PROVE  /\ w.ticket \in 1 .. Len(tickets'[w.job])
                 /\ tickets'[w.job][w.ticket].verdict = "confirmed"
                 /\ tickets'[w.job][w.ticket].change = w.change
                 /\ tickets'[w.job][w.ticket].epoch = crashes'
      BY <1>3, <3>1, <3>2 DEF Backed
    <3>3. ASSUME w.ticket = NoTicket
          PROVE  \E i \in 1 .. Len(tickets'[w.job]) :
                    /\ tickets'[w.job][i].verdict = "confirmed"
                    /\ tickets'[w.job][i].epoch = crashes'
                    /\ tickets'[w.job][i].undone = 1
      <4>1. PICK i \in 1 .. Len(tickets[w.job]) :
               /\ tickets[w.job][i].verdict = "confirmed"
               /\ tickets[w.job][i].epoch = crashes
               /\ tickets[w.job][i].undone = 1
        BY <3>1, <3>3 DEF Backed
      <4> QED
        BY <1>3, <3>1, <4>1
    <3> QED
      BY <3>1, <3>2, <3>3 DEF Backed
  <2> QED
    BY <1>1, <1>4, <2>2, WritesAreBackedNext
<1>8. ApprovalsAreOneShot'
  <2>1. ASSUME NEW m \in Jobs
        PROVE  DOMAIN tickets[m] = 1 .. Len(tickets[m]) /\ DOMAIN tickets'[m] = 1 .. Len(tickets[m])
    <3>1. tickets[m] \in Seq(Ticket) /\ tickets'[m] \in Seq(Ticket)
      BY DEF JobInv, TypeOK
    <3> QED
      BY <1>3, <3>1, LenProperties
  <2> QED
    BY <1>3, <2>1 DEF JobInv, ApprovalsAreOneShot
<1> QED
  BY <1>4, <1>5, <1>6, <1>7, <1>8 DEF JobInv

(* The operator's answer closes the open ticket that was shown. *)
LEMMA AnswerKeepsInv ==
    ASSUME JobInv, NEW j \in Jobs, NEW id \in DOMAIN tickets[j], NEW c \in BOOLEAN,
           Answer(j, id, c)
    PROVE  JobInv'
<1> DEFINE p == job[j].pending
           verdict == IF c THEN "confirmed" ELSE "rejected"
           t == [tickets[j][id] EXCEPT !.verdict = verdict]
           q == [tickets[j] EXCEPT ![id] = t]
           s == [task[j] EXCEPT !.event = "set", !.cancel = @ \/ ~c]
           receipt == [ticket |-> id, change |-> p.change, step |-> p.step, confirmed |-> c]
           r == [job[j] EXCEPT !.pending = Consumed(p), !.receipt = receipt,
                               !.approved = IF c THEN p.step ELSE 0,
                               !.status = IF c THEN "running" ELSE @]
<1>1. /\ job[j].status = "awaiting_approval" /\ p # NoPending /\ ~p.consumed
      /\ p.ticket = id /\ p.change = tickets[j][id].change /\ task[j].event # "none"
      /\ UNCHANGED <<order, writes, disk, crashes, leaseVars, settled>>
      /\ task' = [task EXCEPT ![j] = s] /\ tickets' = [tickets EXCEPT ![j] = q]
      /\ acked' = [acked EXCEPT ![j] = IF c THEN @ ELSE "now"]
  BY DEF Answer, Run
<1>2. job' = [job EXCEPT ![j] = r]
  BY DEF Answer
<1>3. /\ task[j] \in TaskRecord /\ job[j] \in JobRecord /\ JobFits(j)
      /\ tickets[j] \in Seq(Ticket) /\ tickets \in [Jobs -> Seq(Ticket)]
      /\ acked \in [Jobs -> {"no", "now", "earlier"}]
  BY JobFacts DEF JobInv, TypeOK
<1>4. /\ id \in 1 .. Len(tickets[j]) /\ tickets[j][id].verdict = "open"
      /\ task[j].pc = "approval" /\ tickets[j][id] \in Ticket
  BY <1>1, <1>3, LenProperties DEF JobFits, RecordFits, StopFits
<1>5. /\ t \in Ticket /\ t.verdict = verdict /\ t.change = tickets[j][id].change
      /\ t.epoch = tickets[j][id].epoch /\ t.uses = tickets[j][id].uses
      /\ t.undone = tickets[j][id].undone
  BY <1>4 DEF Ticket
<1>6. s \in TaskRecord /\ s.pc = "approval" /\ s.plan = task[j].plan
      /\ s.step = task[j].step /\ s.ticket = task[j].ticket /\ s.tried = task[j].tried
      /\ s.event = "set" /\ s.killed = task[j].killed /\ s.cancel = (task[j].cancel \/ ~c)
      /\ s.rollback = task[j].rollback
  BY <1>3, <1>4 DEF TaskRecord
<1>7. /\ p \in [ticket : 0 .. MaxApprovals, change : Changes \cup {NoChange},
                step : Nat, consumed : BOOLEAN]
      /\ Consumed(p) \in [ticket : 0 .. MaxApprovals, change : Changes \cup {NoChange},
                          step : Nat, consumed : BOOLEAN]
      /\ Consumed(p).consumed
  BY <1>3 DEF JobRecord, Consumed
<1>8. receipt \in [ticket : 0 .. MaxApprovals, change : Changes \cup {NoChange},
                   step : Nat, confirmed : BOOLEAN]
  BY <1>1, <1>7
<1>9. r \in JobRecord /\ r.pending = Consumed(p) /\ r.receipt = receipt
      /\ r.status \in Active
  BY <1>1, <1>3, <1>7, <1>8 DEF JobRecord, Statuses, Active
<1>10. receipt.ticket = id /\ receipt.change = p.change /\ receipt.confirmed = c
       /\ verdict = (IF c THEN "confirmed" ELSE "rejected")
  OBVIOUS
<1> HIDE DEF t, q, s, r, p, receipt, verdict
<1>11. /\ q \in Seq(Ticket) /\ Len(q) = Len(tickets[j]) /\ q[id] = t
       /\ \A i \in 1 .. Len(tickets[j]) : i # id => q[i] = tickets[j][i]
  BY <1>3, <1>4, <1>5, ExceptSeq DEF q
<1>12. /\ tickets'[j] = q /\ tickets' \in [Jobs -> Seq(Ticket)]
       /\ acked' \in [Jobs -> {"no", "now", "earlier"}]
       /\ acked'[j] = (IF c THEN acked[j] ELSE "now")
       /\ \A m \in Jobs \ {j} : tickets'[m] = tickets[m] /\ acked'[m] = acked[m]
  BY <1>1, <1>3, <1>11
<1>13. \A i \in 1 .. Len(tickets[j]) :
          /\ tickets'[j][i].change = tickets[j][i].change
          /\ tickets'[j][i].epoch = tickets[j][i].epoch
          /\ tickets'[j][i].uses = tickets[j][i].uses
          /\ tickets'[j][i].undone = tickets[j][i].undone
          /\ tickets[j][i].verdict = "confirmed" => tickets'[j][i].verdict = "confirmed"
  BY <1>4, <1>5, <1>11, <1>12
<1>14. StopFits(acked'[j], s)
  BY <1>3, <1>4, <1>6, <1>12 DEF JobFits, StopFits
<1>15. RecordFits(tickets'[j], r)
  <2>1. r.pending.consumed /\ r.status # "unborn"
    BY <1>7, <1>9 DEF Active
  <2>2. r.receipt.confirmed =>
           /\ r.receipt.ticket \in 1 .. Len(tickets'[j])
           /\ tickets'[j][r.receipt.ticket].verdict = "confirmed"
           /\ tickets'[j][r.receipt.ticket].change = r.receipt.change
    BY <1>1, <1>4, <1>5, <1>9, <1>10, <1>11, <1>12
  <2> QED
    BY <2>1, <2>2 DEF RecordFits
<1>16. StatusFits(r, s) /\ job[j].status \in Active
  BY <1>1, <1>6, <1>9 DEF StatusFits, Active, Terminal
<1> QED
  <2>1. Len(tickets'[j]) = Len(tickets[j]) /\ s.pc = task[j].pc
        /\ r.status \in Active \cup Terminal /\ job[j].status \in Active \cup Terminal
    BY <1>4, <1>6, <1>9, <1>11, <1>12, <1>16
  <2> QED
    BY <1>1, <1>2, <1>6, <1>9, <1>12, <1>13, <1>14, <1>15, <1>16, <2>1, RequestKeepsInv

(* Cancelling the job cancels its coroutine. *)
LEMMA CancelKeepsInv ==
    ASSUME JobInv, NEW j \in Jobs, Cancel(j)
    PROVE  JobInv'
<1> DEFINE s == [task[j] EXCEPT !.cancel = TRUE, !.killed = TRUE]
           r == [job[j] EXCEPT !.status = "cancelling"]
<1>1. /\ job[j].status \in Active /\ JobFits(j) /\ task[j] \in TaskRecord
      /\ job[j] \in JobRecord /\ tickets \in [Jobs -> Seq(Ticket)]
      /\ acked \in [Jobs -> {"no", "now", "earlier"}]
  BY JobFacts DEF Cancel, JobInv, TypeOK
<1>2. Live(j) /\ Registered(j)
  BY <1>1 DEF JobFits, StatusFits, Live, Registered, Active
<1>3. /\ task' = [task EXCEPT ![j] = s] /\ job' = [job EXCEPT ![j] = r]
      /\ acked' = [acked EXCEPT ![j] = "now"] /\ tickets' = tickets
      /\ UNCHANGED <<order, writes, disk, crashes, leaseVars, settled>>
  BY <1>2 DEF Cancel, Run, NoteStatus, Note
<1>4. s \in TaskRecord /\ s.pc = task[j].pc /\ s.plan = task[j].plan
      /\ s.step = task[j].step /\ s.ticket = task[j].ticket /\ s.tried = task[j].tried
      /\ s.event = task[j].event /\ s.killed /\ s.rollback = task[j].rollback
  BY <1>1 DEF TaskRecord
<1>5. r \in JobRecord /\ r.status = "cancelling" /\ r.pending = job[j].pending
      /\ r.receipt = job[j].receipt
  BY <1>1 DEF JobRecord, Statuses, Active
<1> HIDE DEF s, r
<1>6. StopFits(acked'[j], s)
  BY <1>1, <1>2, <1>4 DEF JobFits, StopFits, Live
<1>7. RecordFits(tickets'[j], r)
  BY <1>1, <1>3, <1>5 DEF JobFits, RecordFits
<1>8. StatusFits(r, s)
  BY <1>2, <1>4, <1>5 DEF StatusFits, Live, Terminal
<1> QED
  BY <1>1, <1>3, <1>4, <1>5, <1>6, <1>7, <1>8, RequestKeepsInv DEF Active
-----------------------------------------------------------------------------
(* Requests that change which jobs are in OPS_JOBS, the flush and the       *)
(* restart.  No call is made and no ticket moves.                           *)
LEMMA KeptIs ==
    ASSUME JobInv
    PROVE  /\ Kept \in Seq(Jobs) /\ Len(Kept) \in Nat /\ Len(order) \in Nat
           /\ \E d \in Nat : \A i \in 1 .. Len(Kept) :
                 i + d \in 1 .. Len(order) /\ Kept[i] = order[i + d]
<1>1. order \in Seq(Jobs) /\ Len(order) \in Nat /\ StoreLimit \in Nat \ {0}
  BY LenProperties, StoreAssumption DEF JobInv, TypeOK
<1>2. CASE Len(order) >= StoreLimit
  <2> DEFINE d == Len(order) - StoreLimit + 1
  <2>1. d \in Nat /\ d + 1 \in 1 .. Len(order) + 1
    BY <1>1, <1>2
  <2>2. Kept = SubSeq(order, d + 1, Len(order))
    BY <1>1, <1>2 DEF Kept
  <2> HIDE DEF d
  <2>3. /\ Kept \in Seq(Jobs) /\ Len(Kept) = Len(order) - d
        /\ \A i \in 1 .. Len(order) - d : Kept[i] = order[i + d]
    BY <1>1, <2>1, <2>2, SubSeqProperties
  <2>4. Len(Kept) \in Nat
    BY <2>3, LenProperties
  <2>5. \A i \in 1 .. Len(Kept) : i + d \in 1 .. Len(order) /\ Kept[i] = order[i + d]
    BY <1>1, <2>1, <2>3, <2>4
  <2> QED
    BY <1>1, <2>1, <2>3, <2>4, <2>5
<1>3. CASE ~(Len(order) >= StoreLimit)
  <2>1. Kept = order
    BY <1>3 DEF Kept
  <2>2. \A i \in 1 .. Len(Kept) : i + 0 \in 1 .. Len(order) /\ Kept[i] = order[i + 0]
    BY <1>1, <2>1
  <2> QED
    BY <1>1, <2>1, <2>2
<1> QED
  BY <1>2, <1>3

(* The job of an id is replaced or leaves; its coroutine may be new. *)
LEMMA EntryFits ==
    ASSUME JobInv, NEW m \in Jobs, UNCHANGED <<tickets, acked, settled, crashes>>,
           task'[m] = task[m],
           \/ job'[m] = job[m]
           \/ job'[m] = NoEntry("gone")
    PROVE  JobFits(m)'
<1>1. JobFits(m)
  BY DEF JobInv
<1>2. CASE job'[m] = job[m]
  BY <1>1, <1>2 DEF JobFits, TicketFits, StrategyFits, StopFits, RecordFits, StatusFits,
                    UnbornFits
<1>3. CASE job'[m] = NoEntry("gone")
  <2>1. job'[m].status = "gone" /\ job'[m].pending = NoPending /\ ~job'[m].receipt.confirmed
    BY <1>3 DEF NoEntry, NewJob, NoReceipt
  <2> QED
    BY <1>1, <2>1 DEF JobFits, TicketFits, StrategyFits, StopFits, RecordFits, StatusFits,
                      UnbornFits, Active, Terminal
<1> QED
  BY <1>2, <1>3

LEMMA CreateKeepsInv ==
    ASSUME JobInv, NEW j \in Jobs, NEW p \in AnyPlan, NEW T \in Priors, Create(j, p, T)
    PROVE  JobInv'
<1> DEFINE b == Carried(p, NoChange)
<1>1. /\ job[j].status = "unborn" /\ order' = Append(Kept, j)
      /\ task' = [task EXCEPT ![j] = NewTask(p, b, T)]
      /\ UNCHANGED <<writes, disk, crashes, leaseVars, tickets, acked, settled>>
  BY DEF Create, Run, history
<1>2. \A m \in Jobs : job'[m] = IF m = j THEN NewJob(p, b, T)
                                ELSE IF m \in ToSet(order) \ ToSet(Kept)
                                     THEN NoEntry("gone") ELSE job[m]
  BY DEF Create
<1> HIDE DEF b
<1>3. T \in SUBSET Plans /\ NewTask(p, b, T) \in TaskRecord /\ NewJob(p, b, T) \in JobRecord
      /\ NoEntry("gone") \in JobRecord
  BY ValuesTyped, BoundsAssumption DEF Statuses, b
<1>4. Kept \in Seq(Jobs) /\ Len(Kept) \in Nat /\ Len(order) \in Nat
  BY KeptIs
<1>5. PICK d \in Nat : \A i \in 1 .. Len(Kept) :
                          i + d \in 1 .. Len(order) /\ Kept[i] = order[i + d]
  BY KeptIs
<1>6. /\ order' \in Seq(Jobs) /\ Len(order') = Len(Kept) + 1
      /\ \A i \in 1 .. Len(Kept) : order'[i] = Kept[i]
      /\ order'[Len(Kept) + 1] = j
  BY <1>1, <1>4, AppendProperties
<1>7. TypeOK'
  <2>1. job' \in [Jobs -> JobRecord]
    BY <1>2, <1>3 DEF Create, JobInv, TypeOK
  <2>2. task' \in [Jobs -> TaskRecord]
    BY <1>1, <1>3 DEF JobInv, TypeOK
  <2> QED
    BY <1>1, <1>6, <2>1, <2>2 DEF JobInv, TypeOK, leaseVars
<1>8. ASSUME NEW m \in Jobs PROVE JobFits(m)'
  <2>1. CASE m = j
    <3>1. task'[m] = NewTask(p, b, T) /\ job'[m] = NewJob(p, b, T)
          /\ settled'[m] = {} /\ acked'[m] = "no"
      BY <1>1, <1>2, <2>1, JobFacts DEF JobInv, TypeOK, JobFits, UnbornFits
    <3>2. /\ NewTask(p, b, T).pc = "start" /\ ~NewTask(p, b, T).killed
          /\ NewTask(p, b, T).event = "none" /\ NewJob(p, b, T).status = "queued"
          /\ NewJob(p, b, T).pending = NoPending /\ ~NewJob(p, b, T).receipt.confirmed
      BY DEF NewTask, NoTask, NewJob, NoReceipt
    <3> QED
      BY <3>1, <3>2 DEF JobFits, TicketFits, StrategyFits, StopFits, RecordFits, StatusFits,
                        UnbornFits, AtChange, Terminal
  <2>2. CASE m # j
    BY <1>1, <1>2, <2>2, EntryFits DEF JobInv, TypeOK
  <2> QED
    BY <2>1, <2>2
<1>9. OrderIsRegistry'
  <2>1. OrderIsRegistry
    BY DEF JobInv
  <2>2. ASSUME NEW i \in 1 .. Len(Kept)
        PROVE  /\ Kept[i] \in Jobs /\ Kept[i] # j /\ Kept[i] \in ToSet(Kept)
               /\ job[Kept[i]].status \in Active \cup Terminal
    <3>1. Kept[i] \in Jobs /\ Kept[i] \in ToSet(Kept)
      BY <1>4, LenProperties DEF ToSet
    <3>2. job[Kept[i]].status \in Active \cup Terminal
      BY <1>5, <2>1 DEF OrderIsRegistry
    <3> QED
      BY <1>1, <3>1, <3>2 DEF Active, Terminal
  <2>3. \A i \in 1 .. Len(Kept) : job'[Kept[i]] = job[Kept[i]]
    BY <1>2, <2>2
  <2>4. job'[j].status = "queued"
    BY <1>2 DEF NewJob
  <2>5. \A i \in 1 .. Len(order') : job'[order'[i]].status \in Active \cup Terminal
    BY <1>4, <1>6, <2>2, <2>3, <2>4 DEF Active
  <2>6. \A i, k \in 1 .. Len(Kept) : Kept[i] = Kept[k] => i = k
    <3> SUFFICES ASSUME NEW i \in 1 .. Len(Kept), NEW k \in 1 .. Len(Kept), Kept[i] = Kept[k]
                 PROVE  i = k
      OBVIOUS
    <3>1. i + d = k + d
      BY <1>5, <2>1 DEF OrderIsRegistry
    <3> QED
      BY <1>4, <3>1
  <2>7. \A i, k \in 1 .. Len(order') : order'[i] = order'[k] => i = k
    BY <1>4, <1>6, <2>2, <2>6
  <2> QED
    BY <1>1, <2>1, <2>5, <2>7 DEF OrderIsRegistry
<1>10. WritesKnown' /\ WritesAreApproved' /\ ApprovalsAreOneShot'
  BY <1>1 DEF JobInv, WritesKnown, WritesAreApproved, Stands, ApprovalsAreOneShot
<1> QED
  BY <1>7, <1>8, <1>9, <1>10 DEF JobInv

(* Removing one element keeps the others, in their order. *)
LEMMA RemoveAtIs ==
    ASSUME NEW S, NEW q \in Seq(S), NEW i \in 1 .. Len(q)
    PROVE  /\ RemoveAt(q, i) \in Seq(S) /\ Len(RemoveAt(q, i)) = Len(q) - 1
           /\ \A k \in 1 .. Len(q) - 1 :
                 RemoveAt(q, i)[k] = IF k < i THEN q[k] ELSE q[k + 1]
<1> DEFINE a == SubSeq(q, 1, i - 1)
           b == SubSeq(q, i + 1, Len(q))
<1>1. Len(q) \in Nat /\ i \in Nat /\ i >= 1 /\ i <= Len(q)
  BY LenProperties
<1>2. a \in Seq(S) /\ Len(a) = i - 1 /\ \A k \in 1 .. i - 1 : a[k] = q[k]
  BY <1>1, SubSeqProperties
<1>3. b \in Seq(S) /\ Len(b) = Len(q) - i /\ \A k \in 1 .. Len(q) - i : b[k] = q[k + i]
  BY <1>1, SubSeqProperties
<1>4. RemoveAt(q, i) = a \o b
  BY DEF RemoveAt
<1> HIDE DEF a, b
<1>5. /\ a \o b \in Seq(S) /\ Len(a \o b) = Len(a) + Len(b)
      /\ \A k \in 1 .. Len(a) + Len(b) :
            (a \o b)[k] = IF k <= Len(a) THEN a[k] ELSE b[k - Len(a)]
  BY <1>2, <1>3, ConcatProperties
<1>6. Len(a \o b) = Len(q) - 1
  BY <1>1, <1>2, <1>3, <1>5
<1>7. ASSUME NEW k \in 1 .. Len(q) - 1
      PROVE  (a \o b)[k] = IF k < i THEN q[k] ELSE q[k + 1]
  <2>1. CASE k < i
    BY <1>1, <1>2, <1>3, <1>5, <2>1
  <2>2. CASE ~(k < i)
    <3>1. k - (i - 1) \in 1 .. Len(q) - i /\ k - (i - 1) + i = k + 1 /\ ~(k <= i - 1)
      BY <1>1, <2>2
    <3>2. (a \o b)[k] = b[k - (i - 1)]
      BY <1>1, <1>2, <1>3, <1>5, <3>1
    <3> QED
      BY <1>3, <2>2, <3>1, <3>2
  <2> QED
    BY <2>1, <2>2
<1> QED
  BY <1>4, <1>5, <1>6, <1>7

LEMMA DeleteKeepsInv ==
    ASSUME JobInv, NEW j \in Jobs, Delete(j)
    PROVE  JobInv'
<1>1. /\ job' = [job EXCEPT ![j] = NoEntry("gone")]
      /\ UNCHANGED <<task, writes, disk, crashes, leaseVars, tickets, acked, settled>>
  BY DEF Delete, history
<1>2. order \in Seq(Jobs) /\ Len(order) \in Nat /\ DOMAIN order = 1 .. Len(order)
  BY LenProperties DEF JobInv, TypeOK
<1>3. PICK i \in 1 .. Len(order) : order[i] = j /\ order' = RemoveAt(order, i)
  BY <1>2 DEF Delete
<1>4. /\ order' \in Seq(Jobs) /\ Len(order') = Len(order) - 1
      /\ \A k \in 1 .. Len(order) - 1 :
            order'[k] = IF k < i THEN order[k] ELSE order[k + 1]
  BY <1>2, <1>3, RemoveAtIs
<1>5. NoEntry("gone") \in JobRecord
  BY ValuesTyped DEF Statuses
<1>6. TypeOK'
  BY <1>1, <1>4, <1>5 DEF JobInv, TypeOK, leaseVars
<1>7. ASSUME NEW m \in Jobs PROVE JobFits(m)'
  BY <1>1, EntryFits DEF JobInv, TypeOK
<1>8. OrderIsRegistry'
  <2> DEFINE At(k) == IF k < i THEN k ELSE k + 1
  <2>1. \A k \in 1 .. Len(order') : /\ At(k) \in 1 .. Len(order) /\ At(k) # i
                                    /\ order'[k] = order[At(k)]
    BY <1>2, <1>4
  <2>2. \A k, l \in 1 .. Len(order') : At(k) = At(l) => k = l
    BY <1>2, <1>4
  <2> HIDE DEF At
  <2>3. OrderIsRegistry
    BY DEF JobInv
  <2>4. \A k \in 1 .. Len(order') : order'[k] \in Jobs /\ order'[k] # j
    BY <1>2, <1>3, <2>1, <2>3 DEF OrderIsRegistry
  <2>5. \A m \in Jobs \ {j} : job'[m] = job[m]
    BY <1>1 DEF JobInv, TypeOK
  <2>6. \A k \in 1 .. Len(order') : job'[order'[k]].status \in Active \cup Terminal
    BY <2>1, <2>3, <2>4, <2>5 DEF OrderIsRegistry
  <2>7. \A k, l \in 1 .. Len(order') : order'[k] = order'[l] => k = l
    BY SMTT(20), <2>1, <2>2, <2>3 DEF OrderIsRegistry
  <2> QED
    BY <1>1, <2>3, <2>6, <2>7 DEF OrderIsRegistry
<1>9. WritesKnown' /\ WritesAreApproved' /\ ApprovalsAreOneShot'
  BY <1>1 DEF JobInv, WritesKnown, WritesAreApproved, Stands, ApprovalsAreOneShot
<1> QED
  BY <1>6, <1>7, <1>8, <1>9 DEF JobInv
(* What a flush writes is what OPS_JOBS holds. *)
LEMMA PersistKeepsInv ==
    ASSUME JobInv, Persist
    PROVE  JobInv'
<1>1. /\ disk' = [i \in 1 .. Len(order) |-> Record(order[i])]
      /\ UNCHANGED <<order, job, task, writes, crashes, leaseVars, tickets, acked, settled>>
      /\ order \in Seq(Jobs) /\ Len(order) \in Nat
  BY LenProperties DEF Persist, history, JobInv, TypeOK
<1>2. \A i \in 1 .. Len(order) : /\ Record(order[i]) \in DiskRecord
                                 /\ Record(order[i]).id = order[i]
  <2> SUFFICES ASSUME NEW i \in 1 .. Len(order)
               PROVE  Record(order[i]) \in DiskRecord /\ Record(order[i]).id = order[i]
    OBVIOUS
  <2>1. order[i] \in Jobs /\ job[order[i]].status \in Active \cup Terminal
    BY <1>1 DEF JobInv, OrderIsRegistry
  <2>2. job[order[i]] \in JobRecord
    BY <2>1, JobFacts
  <2> QED
    BY <2>1, <2>2 DEF Record, DiskRecord, JobRecord
<1>3. disk' \in Seq(DiskRecord) /\ Len(disk') = Len(order)
      /\ \A i \in 1 .. Len(order) : disk'[i].id = order[i]
  BY <1>1, <1>2
<1>4. TypeOK'
  BY <1>1, <1>3 DEF JobInv, TypeOK, leaseVars
<1>5. ASSUME NEW m \in Jobs PROVE JobFits(m)'
  BY <1>1, EntryFits DEF JobInv
<1>6. OrderIsRegistry'
  BY <1>1, <1>3 DEF JobInv, OrderIsRegistry
<1>7. WritesKnown' /\ WritesAreApproved' /\ ApprovalsAreOneShot'
  BY <1>1 DEF JobInv, WritesKnown, WritesAreApproved, Stands, ApprovalsAreOneShot
<1> QED
  BY <1>4, <1>5, <1>6, <1>7 DEF JobInv

(* After a restart there are no calls, no approvals and new coroutines. *)
LEMMA CrashKeepsInv ==
    ASSUME JobInv, CrashAndRestart
    PROVE  JobInv'
<1> DEFINE At(j) == CHOOSE i \in DOMAIN disk : disk[i].id = j
           OnDisk(j) == \E i \in DOMAIN disk : disk[i].id = j
           Resumed(j) == OnDisk(j) /\ disk[At(j)].status = "queued"
           Restored(j) ==
               [NewJob(disk[At(j)].plan, disk[At(j)].rollback, disk[At(j)].tried) EXCEPT
                   !.status = disk[At(j)].status]
<1>1. /\ crashes < MaxCrashes /\ crashes' = crashes + 1
      /\ writes' = {} /\ activeJobs' = {} /\ activeTargets' = [t \in Targets |-> NoJob]
      /\ settled' = [j \in Jobs |-> {}] /\ UNCHANGED <<disk, tickets>>
      /\ acked' = [j \in Jobs |-> IF acked[j] = "no" THEN "no" ELSE "earlier"]
      /\ order' = [i \in DOMAIN disk |-> disk[i].id]
      /\ job' = [j \in Jobs |-> IF OnDisk(j) THEN Restored(j)
                                ELSE IF job[j].status = "unborn" THEN job[j]
                                ELSE NoEntry("gone")]
      /\ task' = [j \in Jobs |-> IF Resumed(j)
                                 THEN NewTask(disk[At(j)].plan, disk[At(j)].rollback, disk[At(j)].tried)
                                 ELSE NoTask]
  BY DEF CrashAndRestart
<1>2. /\ disk \in Seq(DiskRecord) /\ Len(disk) \in Nat /\ DOMAIN disk = 1 .. Len(disk)
      /\ OrderIsRegistry
  BY LenProperties DEF JobInv, TypeOK
<1>3. \A j \in Jobs : OnDisk(j) => At(j) \in DOMAIN disk /\ disk[At(j)] \in DiskRecord
  BY <1>2
<1> HIDE DEF At
<1>4. ASSUME NEW j \in Jobs, OnDisk(j)
      PROVE  /\ NewJob(disk[At(j)].plan, disk[At(j)].rollback, disk[At(j)].tried) \in JobRecord
             /\ NewTask(disk[At(j)].plan, disk[At(j)].rollback, disk[At(j)].tried) \in TaskRecord
             /\ disk[At(j)].status \in {"queued"} \cup Terminal
  BY <1>3, <1>4, ValuesTyped DEF DiskRecord
<1>5. ASSUME NEW j \in Jobs, OnDisk(j)
      PROVE  /\ Restored(j) \in JobRecord /\ Restored(j).pending = NoPending
             /\ ~Restored(j).receipt.confirmed
             /\ Restored(j).status = disk[At(j)].status
  <2> DEFINE st == disk[At(j)].status
             n == NewJob(disk[At(j)].plan, disk[At(j)].rollback, disk[At(j)].tried)
  <2>1. st \in Statuses
    BY <1>4, <1>5 DEF Statuses, Active
  <2>2. n \in JobRecord /\ n.pending = NoPending /\ ~n.receipt.confirmed
    BY <1>4, <1>5 DEF NewJob, NoReceipt
  <2>3. Restored(j) = [n EXCEPT !.status = st]
    OBVIOUS
  <2> HIDE DEF st, n, Restored
  <2>4. Restored(j).status = st /\ Restored(j) \in JobRecord
        /\ Restored(j).pending = NoPending /\ ~Restored(j).receipt.confirmed
    BY <2>1, <2>2, <2>3 DEF JobRecord
  <2> QED
    BY <2>4 DEF st
<1> HIDE DEF Restored
<1>6. TypeOK'
  <2>1. order' \in Seq(Jobs)
    <3>1. ASSUME NEW i \in 1 .. Len(disk) PROVE disk[i].id \in Jobs
      <4>1. disk[i] \in DiskRecord
        BY <1>2, ElementOfSeq
      <4> QED
        BY <4>1 DEF DiskRecord
    <3>2. order' = [i \in 1 .. Len(disk) |-> disk[i].id]
      BY <1>1, <1>2
    <3> QED
      BY <1>2, <3>1, <3>2
  <2>2. job' \in [Jobs -> JobRecord]
    BY <1>1, <1>5, JobFacts, ValuesTyped DEF Statuses
  <2>3. task' \in [Jobs -> TaskRecord]
    BY <1>1, <1>4, ValuesTyped
  <2>4. crashes' \in 0 .. MaxCrashes
    BY <1>1, BoundsAssumption DEF JobInv, TypeOK
  <2> QED
    BY <1>1, <2>1, <2>2, <2>3, <2>4 DEF JobInv, TypeOK
<1>7. ASSUME NEW m \in Jobs PROVE JobFits(m)'
  <2>1. /\ task'[m] = IF Resumed(m) THEN NewTask(disk[At(m)].plan, disk[At(m)].rollback, disk[At(m)].tried)
                      ELSE NoTask
        /\ job'[m] = IF OnDisk(m) THEN Restored(m)
                     ELSE IF job[m].status = "unborn" THEN job[m] ELSE NoEntry("gone")
        /\ settled'[m] = {} /\ tickets'[m] = tickets[m]
        /\ acked'[m] = IF acked[m] = "no" THEN "no" ELSE "earlier"
    BY <1>1
  <2>2. /\ ~task'[m].killed /\ task'[m].event = "none"
        /\ task'[m].pc = IF Resumed(m) THEN "start" ELSE "none"
    BY <2>1 DEF NewTask, NoTask
  <2> HIDE DEF Resumed
  <2>3. TicketFits(m, task[m])' /\ StrategyFits(settled[m], task[m])'
        /\ StopFits(acked[m], task[m])'
    BY <2>1, <2>2 DEF TicketFits, StrategyFits, StopFits, AtChange
  <2>4. CASE OnDisk(m)
    <3>1. /\ job'[m].pending = NoPending /\ ~job'[m].receipt.confirmed
          /\ job'[m].status = disk[At(m)].status
          /\ disk[At(m)].status \in {"queued"} \cup Terminal
          /\ Resumed(m) => disk[At(m)].status = "queued"
          /\ ~Resumed(m) => disk[At(m)].status \in Terminal
      BY <1>4, <1>5, <2>1, <2>4 DEF Resumed
    <3>2. RecordFits(tickets[m], job[m])'
      BY <3>1 DEF RecordFits
    <3>3. StatusFits(job[m], task[m])' /\ UnbornFits(m)'
      BY <2>2, <3>1 DEF StatusFits, UnbornFits, Active, Terminal
    <3> QED
      BY <2>3, <3>2, <3>3 DEF JobFits
  <2>5. CASE ~OnDisk(m) /\ job[m].status = "unborn"
    <3>1. job'[m] = job[m] /\ task'[m].pc = "none" /\ JobFits(m)
      BY <2>1, <2>2, <2>5, JobFacts DEF Resumed
    <3>2. RecordFits(tickets[m], job[m])'
      BY <2>1, <3>1 DEF JobFits, RecordFits
    <3>3. StatusFits(job[m], task[m])' /\ UnbornFits(m)'
      BY <2>1, <2>5, <3>1 DEF JobFits, StatusFits, UnbornFits, Active, Terminal
    <3> QED
      BY <2>3, <3>2, <3>3 DEF JobFits
  <2>6. CASE ~OnDisk(m) /\ job[m].status # "unborn"
    <3>1. job'[m] = NoEntry("gone") /\ task'[m].pc = "none"
      BY <2>1, <2>2, <2>6 DEF Resumed
    <3>2. job'[m].status = "gone" /\ job'[m].pending = NoPending
          /\ ~job'[m].receipt.confirmed
      BY <3>1 DEF NoEntry, NewJob, NoReceipt
    <3> QED
      BY <2>3, <3>2 DEF JobFits, RecordFits, StatusFits, UnbornFits, Active, Terminal
  <2> QED
    BY <2>4, <2>5, <2>6
<1>8. OrderIsRegistry'
  <2>1. Len(order') = Len(disk) /\ \A i \in 1 .. Len(disk) : order'[i] = disk[i].id
    BY <1>1, <1>2
  <2>2. ASSUME NEW i \in 1 .. Len(disk)
        PROVE  job'[order'[i]].status \in Active \cup Terminal
    <3>1. disk[i] \in DiskRecord /\ order'[i] = disk[i].id
      BY <1>2, <2>1
    <3>2. order'[i] \in Jobs /\ OnDisk(order'[i])
      BY <1>2, <3>1 DEF DiskRecord
    <3>3. job'[order'[i]] = Restored(order'[i])
      BY <1>1, <3>2
    <3> QED
      BY <1>4, <1>5, <3>2, <3>3 DEF Active
  <2>3. \A i, k \in 1 .. Len(disk) : order'[i] = order'[k] => i = k
    BY <1>2, <2>1 DEF OrderIsRegistry
  <2> QED
    BY <1>1, <1>2, <2>1, <2>2, <2>3 DEF OrderIsRegistry
<1>9. WritesKnown' /\ WritesAreApproved' /\ ApprovalsAreOneShot'
  BY <1>1 DEF JobInv, WritesKnown, WritesAreApproved, Stands, ApprovalsAreOneShot
<1> QED
  BY <1>6, <1>7, <1>8, <1>9 DEF JobInv

-----------------------------------------------------------------------------
LEMMA JobInvStutters == JobInv /\ UNCHANGED vars => JobInv'
<1> SUFFICES ASSUME JobInv, UNCHANGED vars PROVE JobInv'
  OBVIOUS
<1>1. UNCHANGED <<order, job, task, writes, disk, crashes, leaseVars, tickets, acked, settled>>
  BY DEF vars, runVars, history
<1>2. ASSUME NEW m \in Jobs PROVE JobFits(m)'
  BY <1>1, EntryFits
<1>3. TypeOK' /\ OrderIsRegistry' /\ WritesKnown' /\ WritesAreApproved' /\ ApprovalsAreOneShot'
  BY <1>1 DEF JobInv, TypeOK, leaseVars, OrderIsRegistry, WritesKnown, WritesAreApproved, Stands,
              ApprovalsAreOneShot
<1> QED
  BY <1>2, <1>3 DEF JobInv

LEMMA JobInvNext == JobInv /\ [Next]_vars => JobInv'
<1> SUFFICES ASSUME JobInv, [Next]_vars PROVE JobInv'
  OBVIOUS
<1>1. ASSUME NEW j \in Jobs, RunnerStep(j) PROVE JobInv'
  <2>1. CASE StartRunner(j) \/ DiagnoseBlocked(j) \/ DiagnosePlanned(j) \/ Recheck(j)
    BY <2>1, BetweenPlansKeepsInv
  <2>2. CASE \/ DiagnoseHealthy(j) \/ ApprovalDenied(j) \/ ApprovalTimesOut(j)
             \/ Recovered(j) \/ CancelDelivered(j) \/ RunnerFails(j)
    BY <2>2, EndingKeepsInv
  <2>3. CASE DiagnoseReady(j)
    BY <2>3, DiagnoseReadyKeepsInv
  <2>4. CASE ApprovalGranted(j)
    BY <2>4, GrantedKeepsInv
  <2>5. CASE Submit(j) \/ RollbackSubmit(j)
    BY <2>5, SubmitKeepsInv
  <2>6. CASE ChangeReturns(j) \/ ChangeTimesOut(j)
    BY <2>6, ChangeEndsKeepsInv
  <2>7. CASE RollbackNeeded(j) \/ RollbackReturns(j)
    BY <2>7, RollbackKeepsInv
  <2>8. CASE Unrecovered(j)
    BY <2>8, UnrecoveredKeepsInv
  <2> QED
    BY <1>1, <2>1, <2>2, <2>3, <2>4, <2>5, <2>6, <2>7, <2>8 DEF RunnerStep
<1>2. CASE \E w \in writes : StrayCallReturns(w)
  BY <1>2, StrayKeepsInv
<1>3. CASE \E j \in Jobs, p \in AnyPlan, T \in Priors : Create(j, p, T)
  BY <1>3, CreateKeepsInv
<1>4. CASE \E j \in Jobs : \E id \in DOMAIN tickets[j], c \in BOOLEAN : Answer(j, id, c)
  BY <1>4, AnswerKeepsInv
<1>5. CASE \E j \in Jobs : Cancel(j) \/ Delete(j)
  BY <1>5, CancelKeepsInv, DeleteKeepsInv
<1>6. CASE Persist
  BY <1>6, PersistKeepsInv
<1>7. CASE CrashAndRestart
  BY <1>7, CrashKeepsInv
<1>8. CASE UNCHANGED vars
  BY <1>8, JobInvStutters
<1> QED
  BY <1>1, <1>2, <1>3, <1>4, <1>5, <1>6, <1>7, <1>8 DEF Next

(* The record of a job, its coroutine, its tickets and the calls in flight  *)
(* always go together.                                                      *)
THEOREM JobInvariant == Spec => []JobInv
<1>1. Init => JobInv
  BY JobInvInit
<1>2. JobInv /\ [Next]_vars => JobInv'
  BY JobInvNext
<1> QED
  BY <1>1, <1>2, PTL DEF Spec

(* Every variable keeps its type. *)
THEOREM JobTypeCorrect == Spec => []TypeOK
<1>1. JobInv => TypeOK
  BY DEF JobInv
<1> QED
  BY <1>1, JobInvariant, PTL

(* A job whose status is active has a coroutine, and a job whose status is  *)
(* terminal has none, over every way in and out of _run_ops_job.            *)
THEOREM JobStatusMatchesRunner == Spec => []StatusMatchesRunner
<1>1. JobInv => StatusMatchesRunner
  BY DEF JobInv, JobFits, StatusFits, StatusMatchesRunner, Live
<1> QED
  BY <1>1, JobInvariant, PTL

(* Every call in flight was confirmed for its change in this life of the    *)
(* process, or is the rollback of a hardening that nobody is asked for;     *)
(* one confirmation submits one change, and at most one rollback follows.   *)
THEOREM JobApprovalsGuardWrites == Spec => []ApprovalsGuardWrites
<1>1. JobInv => ApprovalsGuardWrites
  BY DEF JobInv, ApprovalsGuardWrites
<1> QED
  BY <1>1, JobInvariant, PTL

(* A strategy that was executed without success is not attempted again by   *)
(* the same coroutine.                                                      *)
THEOREM JobNoSettledStrategyAgain == Spec => []NoSettledStrategyAgain
<1>1. JobInv => NoSettledStrategyAgain
  BY DEF JobInv, JobFits, StrategyFits, NoSettledStrategyAgain
<1> QED
  BY <1>1, JobInvariant, PTL

-----------------------------------------------------------------------------
(* A call is only made by a coroutine that has no pending cancel. *)
LEMMA OnlyTheUnstoppedCall ==
    ASSUME JobInv, Next, NEW w \in writes', w \notin writes
    PROVE  acked[w.job] # "now"
<1>1. PICK j \in Jobs : Submit(j) \/ RollbackSubmit(j)
  <2>1. CASE \E j \in Jobs : RunnerStep(j)
    <3>1. PICK j \in Jobs : RunnerStep(j)
      BY <2>1
    <3>2. Submit(j) \/ RollbackSubmit(j)
      BY <3>1 DEF RunnerStep, StartRunner, DiagnoseBlocked, DiagnoseHealthy, DiagnosePlanned,
                  DiagnoseReady, Recheck, ApprovalGranted, ApprovalDenied, ApprovalTimesOut,
                  ChangeReturns, ChangeTimesOut, Recovered, RollbackNeeded, RollbackReturns,
                  Unrecovered, CancelDelivered, RunnerFails
    <3> QED
      BY <3>2
  <2>2. CASE ~\E j \in Jobs : RunnerStep(j)
    <3>1. ASSUME NEW v \in writes, StrayCallReturns(v) PROVE writes' \subseteq writes
      BY <3>1 DEF StrayCallReturns
    <3>2. ASSUME NEW j \in Jobs, NEW p, NEW T, Create(j, p, T) PROVE writes' \subseteq writes
      BY <3>2 DEF Create
    <3>3. ASSUME NEW j \in Jobs, NEW id, NEW c, Answer(j, id, c) PROVE writes' \subseteq writes
      BY <3>3 DEF Answer
    <3>4. ASSUME NEW j \in Jobs, Cancel(j) \/ Delete(j) PROVE writes' \subseteq writes
      BY <3>4 DEF Cancel, Delete
    <3>5. Persist \/ CrashAndRestart => writes' \subseteq writes
      BY DEF Persist, CrashAndRestart
    <3> QED
      BY <2>2, <3>1, <3>2, <3>3, <3>4, <3>5 DEF Next
  <2> QED
    BY <2>1, <2>2
<1>2. w = Call(j) /\ \E pc \in {"lease", "rollbackLease"} : May(j, pc)
  BY <1>1 DEF Submit, RollbackSubmit
<1>3. w.job = j
  BY <1>2, CallTyped DEF May, AtChange
<1> QED
  BY <1>2, <1>3, MayFacts

(* After the operator rejected a step or cancelled the job, the process     *)
(* starts no further call for it.                                           *)
THEOREM JobNoWriteAfterStop == Spec => NoWriteAfterStop
<1>1. JobInv /\ [Next]_vars => [\A w \in writes' \ writes : acked[w.job] # "now"]_vars
  BY OnlyTheUnstoppedCall
<1> QED
  BY <1>1, JobInvariant, PTL DEF Spec, NoWriteAfterStop

-----------------------------------------------------------------------------
(* The lease table and the coroutines that are inside a write.              *)

(* The table names the coroutines inside a write, and nobody else.          *)
TableMirrors ==
    /\ activeJobs = {j \in Jobs : InWrite(j)}
    /\ \A t \in Targets, j \in Jobs : activeTargets[t] = j <=> InWrite(j) /\ TargetKey(j) = t

(* What a step does to the write of a job: nothing, its begin, its end.     *)
Stays(j) == /\ InWrite(j)' <=> InWrite(j)
            /\ InWrite(j) => TargetKey(j)' = TargetKey(j)
Enters(j) == /\ ~InWrite(j) /\ InWrite(j)' /\ TargetKey(j)' = TargetKey(j)
             /\ TargetKey(j) \in Targets /\ CanGrant(j, TargetKey(j)) /\ Acquired(j, TargetKey(j))
Leaves(j) == InWrite(j) /\ ~InWrite(j)' /\ TargetKey(j) \in Targets /\ Released(j, TargetKey(j))

(* A step of one coroutine leaves the writes of the others alone.           *)
LEMMA OthersStay ==
    ASSUME JobInv, NEW j \in Jobs, NEW r, Run(j, r)
    PROVE  /\ task'[j] = r
           /\ \A m \in Jobs \ {j} : Stays(m)
           /\ InWrite(j)' <=> r.pc \in {"executing", "rollback"}
           /\ /\ r.plan = task[j].plan /\ r.step = task[j].step
              /\ r.rollback = task[j].rollback
              /\ r.pc \in {"rollbackLease", "rollback"} <=> RollsBack(j)
              => TargetKey(j)' = TargetKey(j)
<1>1. task \in [Jobs -> TaskRecord] /\ task' = [task EXCEPT ![j] = r]
  BY DEF JobInv, TypeOK, Run
<1>2. task'[j] = r /\ \A m \in Jobs \ {j} : task'[m] = task[m]
  BY <1>1
<1> QED
  BY <1>2 DEF Stays, InWrite, TargetKey, Call, RollsBack, ChangeAt

(* A step outside the writes.                                               *)
LEMMA OutsideStays ==
    ASSUME JobInv, NEW j \in Jobs, ~InWrite(j), NEW r, Run(j, r),
           r.pc \notin {"executing", "rollback"}
    PROVE  \A m \in Jobs : Stays(m)
BY OthersStay DEF Stays

(* The head of the loop is outside the writes.                              *)
LEMMA AttemptStays ==
    ASSUME JobInv, NEW j \in Jobs, ~InWrite(j), NEW p, NEW b, NEW T, Attempt(j, p, b, T)
    PROVE  \A m \in Jobs : Stays(m)
<1>1. task[j] \in TaskRecord
  BY DEF JobInv, TypeOK
<1> DEFINE q == [task[j] EXCEPT !.pc = "recheck", !.plan = p, !.rollback = b, !.step = 0,
                                !.ticket = NoTicket, !.result = "ok", !.tried = T]
           r == [task[j] EXCEPT !.pc = "diagnose", !.plan = p, !.rollback = b, !.step = 0,
                                !.ticket = NoTicket, !.result = "ok",
                                !.tried = T \cup ({p} \ {Diagnosis})]
<1>2. q.pc = "recheck" /\ r.pc = "diagnose"
  BY <1>1 DEF TaskRecord
<1>3. Run(j, q) \/ Run(j, r)
  BY DEF Attempt
<1> HIDE DEF q, r
<1> QED
  BY <1>2, <1>3, OutsideStays

(* So is the wait for a recheck.                                            *)
LEMMA WaitStays ==
    ASSUME JobInv, NEW j \in Jobs, ~InWrite(j), NEW T, WaitForRecheck(j, T)
    PROVE  \A m \in Jobs : Stays(m)
<1>1. task[j] \in TaskRecord
  BY DEF JobInv, TypeOK
<1> DEFINE r == [task[j] EXCEPT !.pc = "recheck", !.tried = T, !.step = 0,
                                !.ticket = NoTicket, !.result = "ok"]
<1>2. r.pc = "recheck"
  BY <1>1 DEF TaskRecord
<1>3. Run(j, r)
  BY DEF WaitForRecheck
<1> HIDE DEF r
<1> QED
  BY <1>2, <1>3, OutsideStays

(* The next approval is asked for outside the writes.                       *)
LEMMA AskRuns ==
    ASSUME JobInv, NEW j \in Jobs, NEW k, NEW result, Ask(j, k, result)
    PROVE  \E r : Run(j, r) /\ r.pc = "approval"
<1>1. task[j] \in TaskRecord
  BY DEF JobInv, TypeOK
<1> DEFINE r == [task[j] EXCEPT !.pc = "approval", !.step = k, !.ticket = Len(tickets[j]) + 1,
                                !.result = result, !.event = "clear"]
<1>2. r.pc = "approval"
  BY <1>1 DEF TaskRecord
<1>3. Run(j, r)
  BY DEF Ask
<1> HIDE DEF r
<1> QED
  BY <1>2, <1>3

(* What the steps of a coroutine do to the writes.                          *)
LEMMA RunnerMoves ==
    ASSUME JobInv, NEW j \in Jobs, RunnerStep(j)
    PROVE  /\ \A m \in Jobs \ {j} : Stays(m)
           /\ \/ UNCHANGED leaseVars /\ Stays(j)
              \/ Enters(j) \/ Leaves(j)
<1>1. task[j] \in TaskRecord /\ \A m \in Jobs : m # j => m \in Jobs \ {j}
  BY DEF JobInv, TypeOK
<1>2. CASE StartRunner(j) \/ DiagnoseBlocked(j) \/ DiagnosePlanned(j) \/ Recheck(j) \/ Unrecovered(j)
  <2>1. ~InWrite(j) /\ UNCHANGED leaseVars
    BY <1>2 DEF StartRunner, DiagnoseBlocked, DiagnosePlanned, Recheck, Unrecovered, May, InWrite
  <2>2. \/ \E p, b, T : Attempt(j, p, b, T)
        \/ \E T : WaitForRecheck(j, T)
    BY <1>2 DEF StartRunner, DiagnoseBlocked, DiagnosePlanned, Recheck, Unrecovered, Continue
  <2> QED
    BY <2>1, <2>2, AttemptStays, WaitStays
<1>3. CASE DiagnoseHealthy(j) \/ ApprovalDenied(j) \/ ApprovalTimesOut(j) \/ Recovered(j)
  <2>1. ~InWrite(j) /\ UNCHANGED leaseVars /\ Run(j, NoTask)
    BY <1>3 DEF DiagnoseHealthy, ApprovalDenied, ApprovalTimesOut, Recovered, May, InWrite, End
  <2>2. NoTask.pc = "none"
    BY DEF NoTask
  <2> QED
    BY <2>1, <2>2, OutsideStays
<1>4. CASE DiagnoseReady(j)
  <2>1. ~InWrite(j) /\ UNCHANGED leaseVars /\ Ask(j, 1, "ok")
    BY <1>4 DEF DiagnoseReady, May, InWrite
  <2>2. PICK r : Run(j, r) /\ r.pc = "approval"
    BY <2>1, AskRuns
  <2> QED
    BY <2>1, <2>2, OutsideStays
<1>5. CASE ApprovalGranted(j) \/ RollbackNeeded(j)
  <2>1. ~InWrite(j) /\ UNCHANGED leaseVars
    BY <1>5 DEF ApprovalGranted, RollbackNeeded, May, InWrite
  <2> DEFINE q == [task[j] EXCEPT !.pc = "lease", !.event = "none"]
             r == [task[j] EXCEPT !.pc = "rollbackLease"]
  <2>2. q.pc = "lease" /\ r.pc = "rollbackLease"
    BY <1>1 DEF TaskRecord
  <2>3. Run(j, q) \/ Run(j, r)
    BY <1>5 DEF ApprovalGranted, RollbackNeeded
  <2> HIDE DEF q, r
  <2> QED
    BY <2>1, <2>2, <2>3, OutsideStays
<1>6. CASE Submit(j) \/ RollbackSubmit(j)
  <2>1. /\ task[j].pc \in {"lease", "rollbackLease"}
        /\ CanGrant(j, TargetKey(j)) /\ Acquired(j, TargetKey(j))
    BY <1>6 DEF Submit, RollbackSubmit, May
  <2>2. PICK s \in {"executing", "rollback"} :
           /\ Run(j, [task[j] EXCEPT !.pc = s])
           /\ s = "rollback" <=> task[j].pc = "rollbackLease"
    BY <1>6 DEF Submit, RollbackSubmit, May
  <2> DEFINE r == [task[j] EXCEPT !.pc = s]
  <2>3. r.pc = s /\ r.plan = task[j].plan /\ r.step = task[j].step
        /\ r.rollback = task[j].rollback
        /\ (s = "rollback" <=> task[j].pc = "rollbackLease")
    BY <1>1, <2>2 DEF TaskRecord
  <2>4. TargetKey(j) \in Targets
    BY <2>1, CallTyped DEF AtChange
  <2> HIDE DEF r
  <2>5. Run(j, r)
    BY <2>2 DEF r
  <2> QED
    BY <2>1, <2>3, <2>4, <2>5, OthersStay DEF Enters, InWrite, RollsBack
<1>7. CASE ChangeReturns(j) \/ ChangeTimesOut(j) \/ RollbackReturns(j)
  <2>1. InWrite(j) /\ task[j].pc \in AtChange /\ Released(j, TargetKey(j))
    BY <1>7 DEF ChangeReturns, ChangeTimesOut, RollbackReturns, AfterChange, May, InWrite,
                AtChange
  <2>2. CASE \E k, result : Ask(j, k, result)
    BY <2>1, <2>2, AskRuns, OthersStay, CallTyped DEF Leaves
  <2>3. CASE \E q : Run(j, [task[j] EXCEPT !.pc = "verify", !.result = q])
    <3>1. PICK q : Run(j, [task[j] EXCEPT !.pc = "verify", !.result = q])
      BY <2>3
    <3> DEFINE r == [task[j] EXCEPT !.pc = "verify", !.result = q]
    <3>2. r.pc = "verify" /\ Run(j, r)
      BY <1>1, <3>1 DEF TaskRecord
    <3> HIDE DEF r
    <3> QED
      BY <2>1, <3>2, OthersStay, CallTyped DEF Leaves
  <2>4. CASE Run(j, [task[j] EXCEPT !.pc = "verifyRollback"])
    <3> DEFINE r == [task[j] EXCEPT !.pc = "verifyRollback"]
    <3>1. r.pc = "verifyRollback" /\ Run(j, r)
      BY <1>1, <2>4 DEF TaskRecord
    <3> HIDE DEF r
    <3> QED
      BY <2>1, <3>1, OthersStay, CallTyped DEF Leaves
  <2>5. ASSUME NEW q, AfterChange(j, q)
        PROVE  \/ \E k, result : Ask(j, k, result)
               \/ \E v : Run(j, [task[j] EXCEPT !.pc = "verify", !.result = v])
    BY <2>5 DEF AfterChange
  <2> QED
    BY <1>7, <2>2, <2>3, <2>4, <2>5 DEF ChangeReturns, ChangeTimesOut, RollbackReturns
<1>8. CASE CancelDelivered(j) \/ RunnerFails(j)
  <2>1. Run(j, NoTask) /\ DropLease(j) /\ NoTask.pc = "none"
    BY <1>8 DEF CancelDelivered, RunnerFails, End, NoTask
  <2>2. CASE InWrite(j)
    <3>1. Released(j, TargetKey(j)) /\ TargetKey(j) \in Targets
      BY <2>1, <2>2, CallTyped DEF DropLease, InWrite, AtChange
    <3> QED
      BY <2>1, <2>2, <3>1, OthersStay DEF Leaves
  <2>3. CASE ~InWrite(j)
    BY <2>1, <2>3, OutsideStays DEF DropLease
  <2> QED
    BY <2>2, <2>3
<1> QED
  BY <1>2, <1>3, <1>4, <1>5, <1>6, <1>7, <1>8 DEF RunnerStep

(* Requests, flushes and calls that return touch no lease.                  *)
LEMMA RequestMoves ==
    ASSUME JobInv, [Next]_vars, ~\E j \in Jobs : RunnerStep(j), ~CrashAndRestart
    PROVE  UNCHANGED leaseVars /\ \A m \in Jobs : Stays(m)
<1>1. CASE UNCHANGED <<task, leaseVars>>
  BY <1>1 DEF Stays, InWrite, TargetKey, Call, RollsBack, ChangeAt, leaseVars
<1>2. CASE \E w \in writes : StrayCallReturns(w)
  BY <1>1, <1>2 DEF StrayCallReturns
<1>3. CASE Persist \/ \E j \in Jobs : Delete(j)
  BY <1>1, <1>3 DEF Persist, Delete
<1>4. CASE \E j \in Jobs, p \in AnyPlan, T \in Priors : Create(j, p, T)
  <2>1. PICK j \in Jobs, p \in AnyPlan, T \in Priors : Create(j, p, T)
    BY <1>4
  <2> DEFINE b == Carried(p, NoChange)
  <2>2. ~InWrite(j) /\ Run(j, NewTask(p, b, T)) /\ UNCHANGED leaseVars
    BY <2>1, JobFacts DEF Create, JobFits, UnbornFits, InWrite
  <2>3. NewTask(p, b, T).pc = "start"
    BY DEF NewTask, NoTask
  <2> QED
    BY <2>2, <2>3, OutsideStays
<1>5. CASE \E j \in Jobs : \E id \in DOMAIN tickets[j], c \in BOOLEAN : Answer(j, id, c)
  <2>1. PICK j \in Jobs : \E id \in DOMAIN tickets[j], c \in BOOLEAN : Answer(j, id, c)
    BY <1>5
  <2>2. PICK id \in DOMAIN tickets[j], c \in BOOLEAN : Answer(j, id, c)
    BY <2>1
  <2> DEFINE r == [task[j] EXCEPT !.event = "set", !.cancel = @ \/ ~c]
  <2>3. Run(j, r) /\ UNCHANGED leaseVars
    BY <2>2 DEF Answer
  <2>4. task[j] \in TaskRecord
    BY DEF JobInv, TypeOK
  <2>5. r.pc = task[j].pc /\ r.plan = task[j].plan /\ r.step = task[j].step
        /\ r.rollback = task[j].rollback
    BY <2>4 DEF TaskRecord
  <2> HIDE DEF r
  <2> QED
    BY <2>3, <2>5, OthersStay DEF Stays, InWrite, RollsBack
<1>6. CASE \E j \in Jobs : Cancel(j)
  <2>1. PICK j \in Jobs : Cancel(j)
    BY <1>6
  <2> DEFINE r == IF Live(j) THEN [task[j] EXCEPT !.cancel = TRUE, !.killed = TRUE]
                             ELSE task[j]
  <2>2. Run(j, r) /\ UNCHANGED leaseVars
    BY <2>1 DEF Cancel
  <2>3. task[j] \in TaskRecord
    BY DEF JobInv, TypeOK
  <2>4. r.pc = task[j].pc /\ r.plan = task[j].plan /\ r.step = task[j].step
        /\ r.rollback = task[j].rollback
    BY <2>3 DEF TaskRecord
  <2> HIDE DEF r
  <2> QED
    BY <2>2, <2>4, OthersStay DEF Stays, InWrite, RollsBack
<1>7. CASE UNCHANGED vars
  BY <1>1, <1>7 DEF vars, runVars
<1> QED
  BY <1>2, <1>3, <1>4, <1>5, <1>6, <1>7 DEF Next

(* A restart ends every write with its lease.                               *)
LEMMA CrashForgets ==
    ASSUME CrashAndRestart
    PROVE  /\ activeJobs' = {} /\ activeTargets' = [t \in Targets |-> NoJob]
           /\ \A m \in Jobs : ~InWrite(m)'
<1>1. activeJobs' = {} /\ activeTargets' = [t \in Targets |-> NoJob]
  BY DEF CrashAndRestart
<1>2. ASSUME NEW m \in Jobs  PROVE task'[m].pc \in {"none", "start"}
  BY DEF CrashAndRestart, NewTask, NoTask
<1> QED
  BY <1>1, <1>2 DEF InWrite

(* The table stays the mirror of the coroutines.                            *)
LEMMA TableMirrorsNext ==
    ASSUME JobInv, TableMirrors, [Next]_vars
    PROVE  TableMirrors'
<1>0. /\ activeTargets \in [Targets -> Jobs \cup {NoJob}] /\ NoJob \notin Jobs
      /\ \A m \in Jobs : m \in activeJobs <=> InWrite(m)
  BY NoJobAssumption DEF JobInv, TypeOK, TableMirrors
<1>1. ASSUME UNCHANGED leaseVars, \A m \in Jobs : Stays(m)  PROVE TableMirrors'
  BY <1>1 DEF TableMirrors, Stays, leaseVars
<1>2. ASSUME NEW j \in Jobs, \A m \in Jobs \ {j} : Stays(m), Enters(j)  PROVE TableMirrors'
  <2> DEFINE k == TargetKey(j)
  <2>1. /\ k \in Targets /\ activeTargets[k] \in {NoJob, j} /\ ~InWrite(j) /\ InWrite(j)'
        /\ activeJobs' = activeJobs \cup {j} /\ activeTargets' = [activeTargets EXCEPT ![k] = j]
        /\ TargetKey(j)' = k
    BY <1>2 DEF Enters, CanGrant, Acquired
  <2> HIDE DEF k
  <2>2. activeTargets[k] = NoJob
    BY <2>1 DEF TableMirrors
  <2>3. activeJobs' = {m \in Jobs : InWrite(m)'}
    BY <1>2, <2>1 DEF TableMirrors, Stays
  <2>4. ASSUME NEW t \in Targets, NEW m \in Jobs
        PROVE  activeTargets'[t] = m <=> InWrite(m)' /\ TargetKey(m)' = t
    <3>1. activeTargets'[t] = IF t = k THEN j ELSE activeTargets[t]
      BY <1>0, <2>1
    <3>2. CASE m = j
      BY <2>1, <3>1, <3>2 DEF TableMirrors
    <3>3. CASE m # j
      <4>1. /\ InWrite(m)' <=> InWrite(m)
            /\ InWrite(m) => TargetKey(m)' = TargetKey(m)
        BY <1>2, <3>3 DEF Stays
      <4>2. ~(InWrite(m) /\ TargetKey(m) = k)
        BY <1>0, <2>1, <2>2 DEF TableMirrors
      <4> QED
        BY <3>1, <3>3, <4>1, <4>2 DEF TableMirrors
    <3> QED
      BY <3>2, <3>3
  <2> QED
    BY <2>3, <2>4 DEF TableMirrors
<1>3. ASSUME NEW j \in Jobs, \A m \in Jobs \ {j} : Stays(m), Leaves(j)  PROVE TableMirrors'
  <2> DEFINE k == TargetKey(j)
  <2>1. /\ k \in Targets /\ InWrite(j) /\ ~InWrite(j)' /\ activeTargets[k] = j
        /\ Released(j, k)
    BY <1>3 DEF Leaves, TableMirrors
  <2>2. \A t \in Targets : activeTargets[t] = j => t = k
    BY <1>3 DEF TableMirrors
  <2> HIDE DEF k
  <2>3. activeTargets' = [activeTargets EXCEPT ![k] = NoJob]
    BY <2>1 DEF Released, TargetsAfterRelease
  <2>4. \A t \in Targets : activeTargets'[t] # j
    BY <1>0, <2>2, <2>3
  <2>5. activeJobs' = activeJobs \ {j}
    BY <2>1, <2>4 DEF Released
  <2>6. activeJobs' = {m \in Jobs : InWrite(m)'}
    BY <1>3, <2>1, <2>5 DEF TableMirrors, Stays
  <2>7. ASSUME NEW t \in Targets, NEW m \in Jobs
        PROVE  activeTargets'[t] = m <=> InWrite(m)' /\ TargetKey(m)' = t
    <3>1. activeTargets'[t] = IF t = k THEN NoJob ELSE activeTargets[t]
      BY <1>0, <2>3
    <3>2. CASE m = j
      BY <2>1, <2>4, <3>2
    <3>3. CASE m # j
      <4>1. /\ InWrite(m)' <=> InWrite(m)
            /\ InWrite(m) => TargetKey(m)' = TargetKey(m)
        BY <1>3, <3>3 DEF Stays
      <4>2. ~(InWrite(m) /\ TargetKey(m) = k)
        BY <2>1, <3>3 DEF TableMirrors
      <4>3. NoJob # m
        BY <1>0
      <4> QED
        BY <3>1, <3>3, <4>1, <4>2, <4>3 DEF TableMirrors
    <3> QED
      BY <3>2, <3>3
  <2> QED
    BY <2>6, <2>7 DEF TableMirrors
<1>4. CASE \E j \in Jobs : RunnerStep(j)
  <2>1. PICK j \in Jobs : RunnerStep(j)
    BY <1>4
  <2>2. \A m \in Jobs \ {j} : Stays(m)
    BY <2>1, RunnerMoves
  <2>3. Stays(j) => \A m \in Jobs : Stays(m)
    BY <2>2
  <2> QED
    BY <1>1, <1>2, <1>3, <2>1, <2>2, <2>3, RunnerMoves
<1>5. CASE CrashAndRestart
  BY <1>0, <1>5, CrashForgets DEF TableMirrors
<1> QED
  BY <1>1, <1>4, <1>5, RequestMoves

-----------------------------------------------------------------------------
(* The holders of the abstract specification are the target map.            *)
heldMap == [t \in Targets |-> HolderOf(t)]

LEMMA HeldMapIsTargets == JobInv /\ TableMirrors => heldMap = activeTargets
<1> SUFFICES ASSUME JobInv, TableMirrors  PROVE heldMap = activeTargets
  OBVIOUS
<1>1. activeTargets \in [Targets -> Jobs \cup {NoJob}]
  BY DEF JobInv, TypeOK
<1>2. ASSUME NEW t \in Targets  PROVE HolderOf(t) = activeTargets[t]
  <2>1. \A j \in Jobs : activeTargets[t] = j <=> (InWrite(j) /\ TargetKey(j) = t)
    BY DEF TableMirrors
  <2> QED
    BY <1>1, <2>1, NoJobAssumption DEF HolderOf
<1> QED
  BY <1>1, <1>2 DEF heldMap

LEMMA HeldMapIsTargetsNext == (JobInv /\ TableMirrors => heldMap = activeTargets)'
<1>1. JobInv /\ TableMirrors => heldMap = activeTargets
  BY HeldMapIsTargets
<1> QED
  BY <1>1, PTL

(* The abstract module counts with its own instance of Cardinality.         *)
LEMMA SameCount ==
    ASSUME NEW S PROVE Abstract!Cardinality(S) = Cardinality(S)
BY DEF Abstract!Cardinality, Cardinality

(* The jobs that hold a target in the abstract state are the active jobs.   *)
LEMMA HoldersAreActive ==
    ASSUME JobInv, TableMirrors
    PROVE  Abstract!Holders = activeJobs
<1>1. heldMap = activeTargets
  BY HeldMapIsTargets
<1>2. Abstract!Holders = {j \in Jobs : \E t \in Targets : activeTargets[t] = j}
  BY <1>1 DEF Abstract!Holders, heldMap
<1>3. \A j \in Jobs : InWrite(j) => TargetKey(j) \in Targets
  BY CallTyped DEF InWrite, AtChange
<1> QED
  BY <1>2, <1>3 DEF TableMirrors

(* The begin of a write is an abstract Take, its end a Give, a restart      *)
(* forgets, the rest stutters.                                              *)
LEMMA JobStepRefines ==
    JobInv /\ TableMirrors /\ JobInv' /\ TableMirrors' /\ [Next]_vars
        => [Abstract!Next]_(heldMap)
<1> SUFFICES ASSUME JobInv, TableMirrors, JobInv', TableMirrors', [Next]_vars
             PROVE  Abstract!Next \/ heldMap' = heldMap
  OBVIOUS
<1>1. heldMap = activeTargets /\ heldMap' = activeTargets'
  BY HeldMapIsTargets, HeldMapIsTargetsNext
<1>2. ASSUME NEW j \in Jobs, Enters(j) PROVE Abstract!Next
  <2> DEFINE k == TargetKey(j)
  <2>1. k \in Targets /\ j \notin activeJobs /\ CanGrant(j, k) /\ Acquired(j, k)
    BY <1>2 DEF Enters, TableMirrors
  <2>2. activeTargets[k] = NoJob /\ Cardinality(activeJobs) < Limit
    BY <1>2, <2>1 DEF CanGrant, TableMirrors, Enters
  <2>3. heldMap' = [heldMap EXCEPT ![k] = j]
    BY <1>1, <2>1 DEF Acquired
  <2> HIDE DEF k
  <2>4. Abstract!Take(j, k)
    BY <1>1, <2>1, <2>2, <2>3, HoldersAreActive, SameCount DEF Abstract!Take, heldMap
  <2>5. \E i \in Jobs, t \in Targets : Abstract!Take(i, t)
    BY <2>1, <2>4, Zenon
  <2> QED
    BY <2>5, Zenon DEF Abstract!Next
<1>3. ASSUME NEW j \in Jobs, Leaves(j) PROVE Abstract!Next
  <2> DEFINE k == TargetKey(j)
  <2>1. k \in Targets /\ activeTargets[k] = j /\ Released(j, k)
    BY <1>3 DEF Leaves, TableMirrors
  <2> HIDE DEF k
  <2>2. heldMap' = [heldMap EXCEPT ![k] = NoJob]
    BY <1>1, <2>1 DEF Released, TargetsAfterRelease
  <2>3. Abstract!Give(k)
    BY <1>1, <2>1, <2>2, NoJobAssumption DEF Abstract!Give, heldMap
  <2>4. \E t \in Targets : Abstract!Give(t)
    BY <2>1, <2>3, Zenon
  <2> QED
    BY <2>4, Zenon DEF Abstract!Next
<1>4. CASE CrashAndRestart
  <2>1. Abstract!Forget
    BY <1>1, <1>4, CrashForgets DEF Abstract!Forget, heldMap
  <2> QED
    BY <2>1, Zenon DEF Abstract!Next
<1>5. CASE UNCHANGED leaseVars
  BY <1>1, <1>5 DEF leaseVars
<1> QED
  BY <1>2, <1>3, <1>4, <1>5, RunnerMoves, RequestMoves

(* However many jobs there are, and whichever of them ends, times out, is   *)
(* cancelled, rolled back, evicted or lost with its process, the coroutines *)
(* that wait for a write obey the single-flight rule.                       *)
THEOREM JobsImplementSingleFlight == Spec => ImplementsSingleFlight
<1>1. Init => JobInv /\ TableMirrors
  <2>1. SUFFICES ASSUME Init  PROVE JobInv /\ TableMirrors
    OBVIOUS
  <2>2. \A j \in Jobs : ~InWrite(j)
    BY <2>1 DEF Init, InWrite, NoTask
  <2> QED
    BY <2>1, <2>2, JobInvInit, NoJobAssumption DEF Init, LeaseInit, TableMirrors
<1>2. Init => Abstract!Init
  <2>1. SUFFICES ASSUME Init  PROVE heldMap = [t \in Targets |-> NoJob]
    BY DEF Abstract!Init, heldMap
  <2> QED
    BY <1>1, <2>1, HeldMapIsTargets DEF Init, LeaseInit
<1>3. JobInv /\ TableMirrors /\ [Next]_vars => JobInv' /\ TableMirrors'
  BY JobInvNext, TableMirrorsNext
<1>4. JobInv /\ TableMirrors /\ JobInv' /\ TableMirrors' /\ [Next]_vars
        => [Abstract!Next]_([t \in Targets |-> HolderOf(t)])
  BY JobStepRefines DEF heldMap
<1> QED
  BY <1>1, <1>2, <1>3, <1>4, PTL DEF Spec, ImplementsSingleFlight, Abstract!Spec
=============================================================================
