----------------------------- MODULE OpsJobStore -----------------------------
(***************************************************************************)
(* How the registry of operations jobs reaches OPS_JOB_STORE_PATH and      *)
(* comes back: _schedule_ops_jobs_persistence, _flush_ops_jobs_debounced,  *)
(* _persist_ops_jobs (in a writer thread) and _restore_ops_jobs of         *)
(* backend/app/application.py.  OpsJob has one action Persist for all of   *)
(* this.                                                                   *)
(*                                                                         *)
(* A record is the number of changes made to it, 0 as long as it does not  *)
(* exist; its removal is a change as well.  The snapshot of the flusher is *)
(* a list of the live records, so a writer thread reads each of them some  *)
(* time later, while the event loop goes on changing them.                 *)
(*                                                                         *)
(* When the flusher stops waiting for a write, the thread goes on with it, *)
(* and the next write uses the same temporary file.                        *)
(***************************************************************************)
EXTENDS Integers, FiniteSets

CONSTANTS
    Records,       \* ids of jobs
    MaxVersion,    \* bound: changes to one record
    MaxTimeouts,   \* bound: writes that exceed their timeout
    MaxFailures,   \* bound: writes that raise
    MaxCrashes     \* bound: crashes of the process

\* Without a record "no file" and "not a document" would look the same.
ASSUME RecordsAssumption == Records # {}
ASSUME BoundsAssumption ==
    /\ MaxVersion \in Nat /\ MaxTimeouts \in Nat
    /\ MaxFailures \in Nat /\ MaxCrashes \in Nat

VARIABLES
    mem,        \* OPS_JOBS: the version of each record
    dirty,      \* OPS_JOB_PERSIST_DIRTY
    flusher,    \* OPS_JOB_PERSIST_TASK
    writers,    \* threads inside _persist_ops_jobs, by number
    mine,       \* the thread the flusher waits for, or 0
    main,       \* content of OPS_JOB_STORE_PATH
    temporary,  \* content of the temporary file
    timeouts,   \* how many writes were given up
    failures,   \* how many writes raised
    crashes,    \* how often the process crashed
    owed        \* history: the last write the flusher waited for did not land

storeVars == <<mem, dirty, flusher, writers, mine, main, temporary,
          timeouts, failures, crashes, owed>>
faults == <<timeouts, failures, crashes>>

Version == 0 .. MaxVersion
Slots == 1 .. MaxTimeouts + 1

\* Contents of a file that are not the versions of the records.
Absent == [r \in Records |-> -1]   \* there is no file
Torn == [r \in Records |-> -2]     \* not a JSON document
Contents == [Records -> Version] \cup {Absent, Torn}

\* A thread: what it has serialized so far (-1: not yet), and where the file
\* it opened for writing is now.
Idle == [pc |-> "none", got |-> Absent, file |-> "none", shared |-> FALSE]

StoreInit ==
    /\ mem = [r \in Records |-> 0]
    /\ dirty = FALSE /\ flusher = "none"
    /\ writers = [w \in Slots |-> Idle] /\ mine = 0
    /\ main = Absent /\ temporary = Absent
    /\ timeouts = 0 /\ failures = 0 /\ crashes = 0
    /\ owed = FALSE

-----------------------------------------------------------------------------
(* The event loop.                                                          *)

\* Mutant: a change is only scheduled when no flush is under way.
ScheduleOnce ==
    /\ dirty' = (dirty \/ flusher = "none")
    /\ flusher' = IF flusher = "none" THEN "start" ELSE flusher

\* _schedule_ops_jobs_persistence
Schedule ==
    /\ dirty' = TRUE
    /\ flusher' = IF flusher = "none" THEN "start" ELSE flusher

\* Any change of a record; each of them schedules a flush.
Change(r) ==
    /\ mem[r] < MaxVersion
    /\ mem' = [mem EXCEPT ![r] = @ + 1]
    /\ Schedule
    /\ UNCHANGED <<writers, mine, main, temporary, faults, owed>>

\* Mutant: there is one pass and no loop.
LoopOnce(d) ==
    /\ flusher' = IF flusher = "start" THEN "debounce" ELSE "none"
    /\ dirty' = FALSE

\* The head of the flusher's loop, with the finally clause behind it.
Loop(d) ==
    /\ flusher' = IF d THEN "debounce" ELSE "none"
    /\ dirty' = FALSE

FlushStarts ==
    /\ flusher = "start"
    /\ Loop(dirty)
    /\ UNCHANGED <<mem, writers, mine, main, temporary, faults, owed>>

\* The debounce is over: the list of the records goes to a thread.
Snapshot ==
    /\ flusher = "debounce"
    /\ \E w \in Slots :
          /\ writers[w].pc = "none"
          /\ mine' = w
          /\ writers' = [writers EXCEPT ![w] =
                [Idle EXCEPT !.pc = "read",
                    !.got = [r \in Records |-> IF mem[r] = 0 THEN 0 ELSE -1]]]
    /\ flusher' = "writing"
    /\ UNCHANGED <<mem, dirty, main, temporary, faults, owed>>

Answered ==
    /\ flusher = "writing" /\ writers[mine].pc = "done"
    /\ writers' = [writers EXCEPT ![mine] = Idle]
    /\ mine' = 0
    /\ Loop(dirty)
    /\ UNCHANGED <<mem, main, temporary, faults, owed>>

\* asyncio.TimeoutError: the thread stays.
GivenUp ==
    /\ flusher = "writing" /\ writers[mine].pc # "done"
    /\ timeouts < MaxTimeouts
    /\ timeouts' = timeouts + 1
    /\ mine' = 0
    /\ owed' = TRUE
    /\ Loop(dirty)
    /\ UNCHANGED <<mem, writers, main, temporary, failures, crashes>>

-----------------------------------------------------------------------------
(* A thread inside _persist_ops_jobs.                                       *)

Unread(w) == {r \in Records : writers[w].got[r] = -1}

Read(w, r) ==
    /\ writers[w].pc = "read" /\ r \in Unread(w)
    /\ writers' = [writers EXCEPT ![w].got[r] = mem[r]]
    /\ UNCHANGED <<mem, dirty, flusher, mine, main, temporary, faults, owed>>

\* Mutant: the file itself is opened for writing.
OpenInPlace(w) ==
    /\ writers[w].pc = "read" /\ Unread(w) = {}
    /\ writers' = [writers EXCEPT ![w].pc = "write", ![w].file = "main"]
    /\ main' = Torn
    /\ temporary' = writers[w].got
    /\ UNCHANGED <<mem, dirty, flusher, mine, faults, owed>>

\* write_text opens the temporary file and truncates it.  Another thread that
\* has it open now shares it.
Open(w) ==
    /\ writers[w].pc = "read" /\ Unread(w) = {}
    /\ writers' = [v \in Slots |->
          IF v = w THEN [writers[w] EXCEPT !.pc = "write", !.file = "temporary",
                            !.shared = \E u \in Slots \ {w} :
                                           writers[u].file = "temporary"]
          ELSE IF writers[v].file = "temporary"
               THEN [writers[v] EXCEPT !.shared = TRUE]
               ELSE writers[v]]
    /\ temporary' = Torn
    /\ UNCHANGED <<mem, dirty, flusher, mine, main, faults, owed>>

\* write_text ends.  What is in a file two threads wrote to depends on their
\* lengths and buffers.  A file that was renamed over in the meantime is gone.
Written(w) ==
    IF writers[w].shared THEN {writers[w].got, Torn} ELSE {writers[w].got}

Finish(w) ==
    /\ writers[w].pc = "write"
    /\ \E text \in Written(w) :
          /\ temporary' = IF writers[w].file = "temporary" THEN text ELSE temporary
          /\ main' = IF writers[w].file = "main" THEN text ELSE main
    /\ writers' = [writers EXCEPT ![w].pc = "replace", ![w].file = "none"]
    /\ UNCHANGED <<mem, dirty, flusher, mine, faults, owed>>

\* os.replace, and the return to the flusher if it still waits.
End(w) == IF w = mine THEN [Idle EXCEPT !.pc = "done"] ELSE Idle

Replace(w) ==
    /\ writers[w].pc = "replace" /\ temporary # Absent
    /\ main' = temporary
    /\ temporary' = Absent
    /\ writers' = [v \in Slots |->
          IF v = w THEN End(w)
          ELSE IF writers[v].file = "temporary"
               THEN [writers[v] EXCEPT !.file = "main"]
          ELSE IF writers[v].file = "main"
               THEN [writers[v] EXCEPT !.file = "gone"]
          ELSE writers[v]]
    /\ owed' = (owed /\ w # mine)
    /\ UNCHANGED <<mem, dirty, flusher, mine, faults>>

\* Another thread has renamed the temporary file: os.replace raises.
ReplaceFails(w) ==
    /\ writers[w].pc = "replace" /\ temporary = Absent
    /\ writers' = [writers EXCEPT ![w] = End(w)]
    /\ owed' = (owed \/ w = mine)
    /\ UNCHANGED <<mem, dirty, flusher, mine, main, temporary, faults>>

\* A full disk, or a record that changed its keys while it was serialized.
\* The error goes to OPS_JOB_STORE_ERROR.
Raises(w) ==
    /\ writers[w].pc \in {"read", "write"}
    /\ failures < MaxFailures
    /\ failures' = failures + 1
    /\ writers' = [writers EXCEPT ![w] = End(w)]
    /\ owed' = (owed \/ w = mine)
    /\ UNCHANGED <<mem, dirty, flusher, mine, main, temporary, timeouts, crashes>>

-----------------------------------------------------------------------------
\* Mutants: a file that is not JSON is not noticed; nothing is restored.
RestoredAsIs == main
RestoredEmpty == [r \in Records |-> 0]

\* _restore_ops_jobs: a file it cannot parse leaves the registry empty.
Restored == IF main \in {Absent, Torn} THEN [r \in Records |-> 0] ELSE main

\* The process ends; the next one reads the file.
CrashAndRestore ==
    /\ crashes < MaxCrashes
    /\ crashes' = crashes + 1
    /\ mem' = Restored
    /\ dirty' = FALSE /\ flusher' = "none"
    /\ writers' = [w \in Slots |-> Idle] /\ mine' = 0
    /\ owed' = FALSE
    /\ UNCHANGED <<main, temporary, timeouts, failures>>

WriterStep(w) ==
    \/ \E r \in Records : Read(w, r)
    \/ Open(w) \/ Finish(w) \/ Replace(w) \/ ReplaceFails(w) \/ Raises(w)

FlusherStep == FlushStarts \/ Snapshot \/ Answered \/ GivenUp

StoreNext ==
    \/ \E r \in Records : Change(r)
    \/ FlusherStep
    \/ \E w \in Slots : WriterStep(w)
    \/ CrashAndRestore

\* The event loop runs the flusher; the thread it waits for goes on.  A
\* thread that was given up may hang for ever.
Fairness ==
    /\ WF_storeVars(FlusherStep)
    /\ WF_storeVars(mine # 0 /\ WriterStep(mine))

StoreSpec == StoreInit /\ [][StoreNext]_storeVars /\ Fairness

-----------------------------------------------------------------------------
ThreadRecord ==
    [pc : {"none", "read", "write", "replace", "done"},
     got : [Records -> Version \cup {-1}],
     file : {"none", "temporary", "main", "gone"},
     shared : BOOLEAN]

StoreTypeOK ==
    /\ mem \in [Records -> Version]
    /\ dirty \in BOOLEAN
    /\ flusher \in {"none", "start", "debounce", "writing"}
    /\ writers \in [Slots -> ThreadRecord]
    /\ mine \in Slots \cup {0}
    /\ main \in Contents /\ temporary \in Contents
    /\ timeouts \in 0 .. MaxTimeouts /\ failures \in 0 .. MaxFailures
    /\ crashes \in 0 .. MaxCrashes
    /\ owed \in BOOLEAN

\* When no flush is under way every change is in the file, unless the last write
\* failed: none falls between the flag, the debounce, the snapshot and the end of
\* a pass.
QuietMeansSaved ==
    (flusher = "none" /\ ~owed /\ timeouts = 0) =>
        \/ main = mem
        \/ main = Absent /\ \A r \in Records : mem[r] = 0
\* The store is a JSON document at every moment, also for a crash in the middle
\* of a write, as long as no write was given up.
ReadableWithoutTimeouts == timeouts = 0 => main # Torn

(* As long as no write was given up, what is quiet is saved, and what is    *)
(* saved can be read: _flush_ops_jobs_debounced and _persist_ops_jobs       *)
(* forget no change and tear no document.                                   *)
SavedAndReadable == QuietMeansSaved /\ ReadableWithoutTimeouts

(* A record in the file is never replaced by an older version of it.        *)
NeverBackwards ==
    [][timeouts' = 0 => \A r \in Records : main'[r] >= main[r]]_storeVars

(* A change is in the file some time later, unless a write fails or the     *)
(* process ends.                                                            *)
ChangesLand ==
    \A r \in Records, v \in 1 .. MaxVersion :
        (mem[r] = v) ~> (main[r] >= v \/ failures > 0 \/ timeouts > 0 \/ mem[r] # v)

(* docs/PROJECT_TECHNICAL_MATERIALS_ZH.md calls the JSON files atomic: the  *)
(* file is a whole document whatever happens to a write.                    *)
AtomicFile == main # Torn
=============================================================================
