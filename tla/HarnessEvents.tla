----------------------------- MODULE HarnessEvents -----------------------------
(***************************************************************************)
(* The session events of backend/app/services/harness_events.py: a list in *)
(* memory, cut to its last max_events, over an append-only journal with a  *)
(* fallback path; sessions that are forked, resumed and hidden by a        *)
(* tombstone; a restart that reads the primary journal.                    *)
(*                                                                         *)
(* The number of an event stands for its hash: previous_hash is the number *)
(* of the event before it, 0 for none.  A handler runs without suspension, *)
(* but forks and deletes append twice (owed is the second append), and a   *)
(* crash may fall between.                                                 *)
(***************************************************************************)
EXTENDS Integers, Sequences, SequencesExt, FiniteSets, FiniteSetsExt

CONSTANTS
    Roots,            \* sessions opened by jobs and by the platform
    Forks,            \* ids of forked sessions
    NoSession,        \* no parent
    MaxEvents,        \* HARNESS_EVENT_STORE_MAX_EVENTS
    SessionLimit,     \* the limit children and session pass to sessions
    MaxAppends,       \* bound: events ever appended
    MaxWriteFaults,   \* bound: appends that meet an OSError
    MaxEventCrashes   \* bound: restarts of the process

ASSUME EventSessionsAssumption ==
    Roots \cap Forks = {} /\ NoSession \notin Roots \cup Forks
ASSUME EventLimitsAssumption ==
    /\ MaxEvents \in Nat \ {0} /\ SessionLimit \in Nat \ {0}
    /\ MaxAppends \in Nat /\ MaxWriteFaults \in Nat /\ MaxEventCrashes \in Nat

VARIABLES
    memory,     \* _memory
    primary,    \* the lines of primary_path
    halfLine,   \* whether that file ends in the middle of a line
    onFallback, \* path = fallback_path
    spare,      \* the lines of the fallback file, which is never read
    owed,       \* appends of the running request that are still to come
    issued,     \* history: how many events there have been
    writeFaults, eventCrashes,
    missed      \* history: some event is not in the primary journal

eventVars == <<memory, primary, halfLine, onFallback, spare, owed, issued,
               writeFaults, eventCrashes, missed>>

Sessions == Roots \cup Forks
\* Mutant: the list is never cut.
AllOf(s, n) == s
LastOf(s, n) == IF Len(s) <= n THEN s ELSE SubSeq(s, Len(s) - n + 1, Len(s))
\* Where the list has the events of a session, and the last one of them.
EventsOf(s) == {i \in DOMAIN memory : memory[i].session = s}
Latest(s) == memory[Max(EventsOf(s))]

-----------------------------------------------------------------------------
(* Projections of the list in memory.                                       *)

IsDeleted(s) == \E i \in EventsOf(s) : memory[i].kind = "deleted"
Known(s) == EventsOf(s) # {}

\* sessions(): those with events, without the tombstoned ones.
Listed(s) == Known(s) /\ ~IsDeleted(s)

\* The first parent named by an event that is still in memory.
ParentOf(s) ==
    LET named == {i \in EventsOf(s) : memory[i].parent # NoSession}
    IN IF named = {} THEN NoSession ELSE memory[Min(named)].parent
StatusOf(s) == IF Known(s) THEN Latest(s).status ELSE "recorded"

\* The most recently updated sessions come first and the rest is cut off.
Fresher(s, r) == Latest(s).id > Latest(r).id
Children(s) ==
    {c \in Sessions :
        /\ Listed(c) /\ ParentOf(c) = s
        /\ Cardinality({r \in Sessions : Listed(r) /\ Fresher(r, c)}) < SessionLimit}

-----------------------------------------------------------------------------
\* Mutant: the chain runs over all sessions, the seq counts what is in memory.
ChainedToLast(s, kind, status, parent) ==
    [id |-> issued + 1, session |-> s, kind |-> kind, status |-> status, parent |-> parent,
     seq |-> 1 + Cardinality(EventsOf(s)),
     prev |-> IF memory = <<>> THEN 0 ELSE Last(memory).id]

\* The body append builds: chained to the last event of the session in memory.
EventBody(s, kind, status, parent) ==
    [id |-> issued + 1, session |-> s, kind |-> kind, status |-> status, parent |-> parent,
     seq |-> IF Known(s) THEN Latest(s).seq + 1 ELSE 1,
     prev |-> IF Known(s) THEN Latest(s).id ELSE 0]

\* _persist.  A line after half a line cannot be parsed: both are lost.
Persisted(e) ==
    \/ /\ ~onFallback /\ ~halfLine
       /\ primary' = Append(primary, e)
       /\ UNCHANGED <<halfLine, onFallback, spare, writeFaults, missed>>
    \/ /\ ~onFallback /\ halfLine
       /\ halfLine' = FALSE /\ missed' = TRUE
       /\ UNCHANGED <<primary, onFallback, spare, writeFaults>>
    \/ /\ onFallback
       /\ spare' = Append(spare, e)
       /\ UNCHANGED <<primary, halfLine, onFallback, writeFaults, missed>>

\* An OSError, which may leave half a line; then the fallback, which may fail
\* as well: the event is only in memory and persistence_error says so.
PersistFails(e) ==
    /\ writeFaults < MaxWriteFaults
    /\ writeFaults' = writeFaults + 1
    /\ missed' = TRUE
    /\ halfLine' \in (IF onFallback THEN {halfLine} ELSE {halfLine, TRUE})
    /\ \/ /\ ~onFallback /\ onFallback' = TRUE
          /\ spare' = Append(spare, e)
       \/ UNCHANGED <<onFallback, spare>>
    /\ UNCHANGED primary

AppendEvent(s, kind, status, parent) ==
    LET e == EventBody(s, kind, status, parent) IN
    /\ issued < MaxAppends
    /\ issued' = issued + 1
    /\ memory' = LastOf(Append(memory, e), MaxEvents)
    /\ Persisted(e) \/ PersistFails(e)
    /\ UNCHANGED eventCrashes

Requests == owed = <<>>

-----------------------------------------------------------------------------
(* The requests.                                                            *)

\* _append_ops_job_event and the notes of the platform.
Checkpoint(s, status) ==
    /\ Requests
    /\ AppendEvent(s, "event", status, NoSession)
    /\ UNCHANGED owed

\* The child inherits the phase and target of the boundary event; its status
\* is paused.  The parent is told afterwards.
Fork(s, c) ==
    /\ Requests /\ Known(s)
    /\ c \in Forks /\ ~Known(c)
    /\ AppendEvent(c, "forked", "paused", s)
    /\ owed' = <<[session |-> s, kind |-> "child-created", status |-> StatusOf(s)]>>

Resume(s) ==
    /\ Requests /\ Known(s)
    /\ AppendEvent(s, "resumed", "running", NoSession)
    /\ UNCHANGED owed

\* Mutant: the children are not looked at.
DeleteWithChildren(s) ==
    /\ Requests /\ Known(s) /\ StatusOf(s) \notin {"deleted", "running"}
    /\ ParentOf(s) # NoSession
    /\ AppendEvent(s, "deleted", "deleted", ParentOf(s))
    /\ owed' = <<[session |-> ParentOf(s), kind |-> "child-deleted",
                  status |-> StatusOf(ParentOf(s))]>>

\* delete_branch: only a settled leaf, never a root; a second call changes
\* nothing.
DeleteBranch(s) ==
    /\ Requests /\ Known(s) /\ StatusOf(s) \notin {"deleted", "running"}
    /\ ParentOf(s) # NoSession
    /\ Children(s) = {}
    /\ AppendEvent(s, "deleted", "deleted", ParentOf(s))
    /\ owed' = <<[session |-> ParentOf(s), kind |-> "child-deleted",
                  status |-> StatusOf(ParentOf(s))]>>

\* The second append of a fork or of a delete.
TellParent ==
    /\ ~Requests
    /\ AppendEvent(Head(owed).session, Head(owed).kind, Head(owed).status, NoSession)
    /\ owed' = Tail(owed)

\* The process ends, maybe while it writes a line; the next one reads the
\* primary journal and writes to it again.
RestartEvents ==
    /\ eventCrashes < MaxEventCrashes
    /\ eventCrashes' = eventCrashes + 1
    /\ memory' = LastOf(primary, MaxEvents)
    /\ halfLine' \in (IF onFallback THEN {halfLine} ELSE {halfLine, TRUE})
    /\ onFallback' = FALSE
    /\ owed' = <<>>
    /\ UNCHANGED <<primary, spare, issued, writeFaults, missed>>

EventsInit ==
    /\ memory = <<>> /\ primary = <<>> /\ spare = <<>>
    /\ halfLine = FALSE /\ onFallback = FALSE
    /\ owed = <<>> /\ issued = 0
    /\ writeFaults = 0 /\ eventCrashes = 0 /\ missed = FALSE

EventsNext ==
    \/ \E s \in Roots : \E status \in {"running", "completed"} : Checkpoint(s, status)
    \/ \E s \in Sessions, c \in Forks : Fork(s, c)
    \/ \E s \in Sessions : Resume(s) \/ DeleteBranch(s)
    \/ TellParent
    \/ RestartEvents

EventsSpec == EventsInit /\ [][EventsNext]_eventVars

-----------------------------------------------------------------------------
SessionEvent ==
    [id : 1 .. MaxAppends, session : Sessions,
     kind : {"event", "forked", "child-created", "resumed", "deleted", "child-deleted"},
     status : {"running", "completed", "paused", "deleted", "recorded"},
     parent : Sessions \cup {NoSession}, seq : Nat \ {0}, prev : 0 .. MaxAppends]

EventsTypeOK ==
    /\ memory \in Seq(SessionEvent) /\ Len(memory) <= MaxEvents
    /\ primary \in Seq(SessionEvent) /\ spare \in Seq(SessionEvent)
    /\ halfLine \in BOOLEAN /\ onFallback \in BOOLEAN /\ missed \in BOOLEAN
    /\ issued \in 0 .. MaxAppends
    /\ writeFaults \in 0 .. MaxWriteFaults /\ eventCrashes \in 0 .. MaxEventCrashes
    /\ owed \in Seq([session : Sessions, kind : {"child-created", "child-deleted"},
                     status : {"running", "completed", "paused", "deleted", "recorded"}])

(* What a session shows is one unbroken piece of its history, whatever was  *)
(* cut off at the front, and across restarts: each event names the one      *)
(* before it and carries the next number, as long as every event reached    *)
(* the primary journal.                                                     *)
ChainUnbroken ==
    ~missed =>
        \A i, j \in DOMAIN memory :
            (/\ i < j /\ memory[i].session = memory[j].session
             /\ \A k \in i + 1 .. j - 1 : memory[k].session # memory[i].session)
            => /\ memory[j].prev = memory[i].id
               /\ memory[j].seq = memory[i].seq + 1

(* No branch is hidden under the children that sessions lists: with at most *)
(* SessionLimit sessions a delete takes leaves only.                        *)
OnlyLeavesAreHidden ==
    [][\A s \in Sessions :
          /\ Listed(s) /\ ~Listed(s)' /\ memory' # memory /\ eventCrashes' = eventCrashes
          /\ \E i \in DOMAIN memory' : memory'[i].session = s
          /\ Cardinality({r \in Sessions : Listed(r)}) <= SessionLimit
          => \A c \in Sessions : Listed(c) => ParentOf(c) # s]_eventVars

(* The history of sessions stays whole: no chain breaks, no branch is       *)
(* hidden with something alive below it.                                    *)
HistoryStaysWhole == []ChainUnbroken /\ OnlyLeavesAreHidden
=============================================================================
