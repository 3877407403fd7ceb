--------------------------- MODULE RunWithHeartbeat ---------------------------
(***************************************************************************)
(* run_with_heartbeat of backend/app/services/ops_execution.py: one stage  *)
(* of an operations job (an evidence read, a model call, a Kubernetes      *)
(* write) under a deadline, with heartbeats to a progress sink and a       *)
(* cancel event.                                                           *)
(*                                                                         *)
(* Time is a clock of equal units; the clamps of the code that only keep   *)
(* an interval above zero become "at least one unit".  The event loop is   *)
(* not late: a coroutine whose wait is over runs before the clock moves.   *)
(* The operation and the sink may take for ever, also after their          *)
(* task.cancel(): both may run in a thread.                                *)
(***************************************************************************)
EXTENDS Integers

CONSTANT Requests    \* arguments: [timeout, beat, sink, grace], see Request

\* A caller passes any positive timeout; sink = 0 stands for no on_heartbeat.
ASSUME RequestsAssumption ==
    \A r \in Requests :
        r.timeout \in Nat \ {0} /\ r.beat \in Nat /\ r.sink \in Nat /\ r.grace \in Nat

VARIABLES
    par,      \* the arguments, clamped
    now,      \* the clock, 0 when the stage starts
    pc,       \* where the supervising coroutine is
    until,    \* when its present wait ends at the latest
    left,     \* local variable remaining
    op,       \* the operation's task
    sink,     \* the task of the present heartbeat
    stop,     \* when the cancel event was set, or Never
    outcome   \* how the stage ended

stageVars == <<par, now, pc, until, left, op, sink, stop, outcome>>

Never == -1
Least(a, b) == IF a <= b THEN a ELSE b
\* Mutant: an interval of zero is taken as given.
AsGiven(a) == a
AtLeastOne(a) == IF a = 0 THEN 1 ELSE a

Clamped(r) ==
    [timeout |-> r.timeout,
     beat |-> AtLeastOne(Least(r.beat, r.timeout)),
     sink |-> Least(r.sink, r.timeout),
     grace |-> Least(r.grace, r.timeout)]

StageInit ==
    /\ par \in {Clamped(r) : r \in Requests}
    /\ now = 0 /\ pc = "head" /\ until = 0 /\ left = 0
    /\ op = "running" /\ sink = "none"
    /\ stop = Never /\ outcome = "none"

-----------------------------------------------------------------------------
Wait(where, length) == pc' = where /\ until' = now + length

\* Mutant: the operation is not cancelled on the way out.
LeaveRunning(how) ==
    /\ outcome' = how
    /\ pc' = "out"
    /\ UNCHANGED <<until, op>>

\* The finally clause: cancel_bounded(task).
Leave(how) ==
    /\ outcome' = how
    /\ IF op = "finished"
       THEN pc' = "out" /\ UNCHANGED <<until, op>>
       ELSE Wait("cleanup", par.grace) /\ op' = "cancelling"

\* Mutant: the cancel event is not looked at.
LoopHeadDeaf ==
    /\ pc = "head"
    /\ \/ /\ now >= par.timeout
          /\ Leave("timeout")
          /\ UNCHANGED left
       \/ /\ now < par.timeout
          /\ left' = par.timeout - now
          /\ Wait("wait", Least(par.beat, par.timeout - now))
          /\ UNCHANGED <<op, outcome>>
    /\ UNCHANGED <<par, now, sink, stop>>

\* The head of the loop: the cancel event, then the deadline, then a wait.
LoopHead ==
    /\ pc = "head"
    /\ \/ /\ stop # Never
          /\ Leave("cancelled")
          /\ UNCHANGED left
       \/ /\ stop = Never /\ now >= par.timeout
          /\ Leave("timeout")
          /\ UNCHANGED left
       \/ /\ stop = Never /\ now < par.timeout
          /\ left' = par.timeout - now
          /\ Wait("wait", Least(par.beat, par.timeout - now))
          /\ UNCHANGED <<op, outcome>>
    /\ UNCHANGED <<par, now, sink, stop>>

\* asyncio.wait({task}) returns because the operation ended.
Returns ==
    /\ pc = "wait" /\ op = "finished"
    /\ Leave("value")
    /\ UNCHANGED <<par, now, left, sink, stop>>

\* It returns after the heartbeat interval: a heartbeat is sent, if wanted.
\* Mutant: the sink may take as long as it likes to take.
BeatUnbounded ==
    /\ pc = "wait" /\ op # "finished" /\ now = until
    /\ IF par.sink = 0
       THEN pc' = "head" /\ UNCHANGED <<until, sink>>
       ELSE Wait("beat", par.timeout) /\ sink' = "running"
    /\ UNCHANGED <<par, now, left, op, stop, outcome>>
Beat ==
    /\ pc = "wait" /\ op # "finished" /\ now = until
    /\ IF par.sink = 0
       THEN pc' = "head" /\ UNCHANGED <<until, sink>>
       ELSE Wait("beat", Least(par.sink, left)) /\ sink' = "running"
    /\ UNCHANGED <<par, now, left, op, stop, outcome>>

\* The heartbeat was delivered or failed: both are ignored.
BeatAnswered ==
    /\ pc \in {"beat", "beatCleanup"} /\ sink = "done"
    /\ pc' = "head"
    /\ UNCHANGED <<par, now, until, left, op, sink, stop, outcome>>

\* cancel_bounded(heartbeat)
BeatTooSlow ==
    /\ pc = "beat" /\ sink # "done" /\ now = until
    /\ sink' = "cancelling"
    /\ Wait("beatCleanup", par.grace)
    /\ UNCHANGED <<par, now, left, op, stop, outcome>>

\* Mutant: the cleanup of a heartbeat waits for its end.
BeatAwaited ==
    /\ pc = "beatCleanup" /\ sink = "done"
    /\ pc' = "head"
    /\ UNCHANGED <<par, now, until, left, op, sink, stop, outcome>>

BeatAbandoned ==
    /\ pc = "beatCleanup" /\ now = until
    /\ pc' = "head"
    /\ UNCHANGED <<par, now, until, left, op, sink, stop, outcome>>

\* The way out ends with the operation, or with the grace for its cleanup.
CleanupEnds ==
    /\ pc = "cleanup"
    /\ op = "finished" \/ now = until
    /\ pc' = "out"
    /\ UNCHANGED <<par, now, until, left, op, sink, stop, outcome>>

\* The coroutine itself is cancelled, at whatever it waits for.  In the
\* finally clause only the wait for the cleanup is cut short.
Killed ==
    /\ \/ /\ pc \in {"wait", "beat", "beatCleanup"}
          /\ Leave("cancelled")
       \/ /\ pc = "cleanup"
          /\ pc' = "out" /\ outcome' = "cancelled"
          /\ UNCHANGED <<until, op>>
    /\ UNCHANGED <<par, now, left, sink, stop>>

-----------------------------------------------------------------------------
\* The operation and the sink end when they want to, cancelled or not.
OperationEnds ==
    /\ op \in {"running", "cancelling"}
    /\ op' = "finished"
    /\ UNCHANGED <<par, now, pc, until, left, sink, stop, outcome>>

SinkEnds ==
    /\ sink \in {"running", "cancelling"}
    /\ sink' = "done"
    /\ UNCHANGED <<par, now, pc, until, left, op, stop, outcome>>

\* The operator's cancel, or the rejection of a step.
SetCancelEvent ==
    /\ pc # "out" /\ stop = Never
    /\ stop' = now
    /\ UNCHANGED <<par, now, pc, until, left, op, sink, outcome>>

\* A wait goes on.
Waiting ==
    /\ pc \in {"wait", "beat", "beatCleanup", "cleanup"}
    /\ now < until
    /\ ~(pc \in {"wait", "cleanup"} /\ op = "finished")
    /\ ~(pc \in {"beat", "beatCleanup"} /\ sink = "done")

Tick ==
    /\ Waiting
    /\ now' = now + 1
    /\ UNCHANGED <<par, pc, until, left, op, sink, stop, outcome>>

Supervise ==
    \/ LoopHead \/ Returns \/ Beat \/ BeatAnswered \/ BeatTooSlow \/ BeatAbandoned
    \/ CleanupEnds

StageNext ==
    \/ Supervise
    \/ Killed \/ OperationEnds \/ SinkEnds \/ SetCancelEvent \/ Tick

\* The event loop runs the coroutine, and time passes.  The operation, the
\* sink and the operator owe nothing.
StageSpec == StageInit /\ [][StageNext]_stageVars /\ WF_stageVars(Supervise) /\ WF_stageVars(Tick)

-----------------------------------------------------------------------------
Arguments ==
    /\ DOMAIN par = {"timeout", "beat", "sink", "grace"}
    /\ par.timeout \in Nat \ {0} /\ par.beat \in Nat \ {0}
    /\ par.sink \in Nat /\ par.grace \in Nat

StageTypeOK ==
    /\ Arguments
    /\ now \in Nat /\ until \in Nat /\ left \in Nat
    /\ pc \in {"head", "wait", "beat", "beatCleanup", "cleanup", "out"}
    /\ op \in {"running", "cancelling", "finished"}
    /\ sink \in {"none", "running", "cancelling", "done"}
    /\ stop \in Nat \cup {Never}
    /\ outcome \in {"none", "value", "timeout", "cancelled"}

\* The longest a heartbeat keeps the loop from its head.
BeatCost == IF par.sink = 0 THEN 0 ELSE Least(par.beat, par.sink) + par.grace

\* The stage is over at its deadline, up to one heartbeat and one cleanup.
DeadlineHolds == now <= par.timeout + BeatCost + par.grace
\* The cancel event ends the stage within one heartbeat interval, one heartbeat
\* and one cleanup, however long the deadline is.
CancelIsPrompt ==
    stop # Never =>
        now - stop <= par.beat + par.sink + par.grace + par.grace

(* A job stays in a stage of run_with_heartbeat until its deadline or its   *)
(* cancel event and little longer: neither a sink that hangs nor an         *)
(* operation that ignores its cancellation can keep it there.               *)
WaitsAreBounded == DeadlineHolds /\ CancelIsPrompt

(* Whatever way the stage is left, its operation has ended or was told to.  *)
NoOperationLeftRunning == pc = "out" => op # "running"

(* Every stage comes to its end, with the operation and the sink hanging.   *)
StageEnds == <>(pc = "out")
=============================================================================
