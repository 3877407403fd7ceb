-------------------------- MODULE OpsJobStoreProofs --------------------------
(***************************************************************************)
(* As long as no write was given up, the store of operations jobs forgets  *)
(* nothing, never goes backwards and is readable at every moment, for any  *)
(* number of records, changes, failures and crashes.                       *)
(*                                                                         *)
(* The invariant follows one write: there is at most one thread, it owns   *)
(* the temporary file, and what it has read lies between the store and the *)
(* registry, and equals the registry once the dirty flag is clear.         *)
(***************************************************************************)
EXTENDS OpsJobStore, TLAPS

(* The flag is set when a flush was scheduled and clear when none is left,  *)
(* and the flusher waits for a thread exactly while it writes.              *)
FlagKept ==
    /\ flusher = "none" => ~dirty
    /\ flusher = "start" => dirty
    /\ mine # 0 <=> flusher = "writing"

(* Only the thread of the flusher exists, and no other thread has its file. *)
OneThread ==
    \A w \in Slots :
        /\ w # mine => writers[w] = Idle
        /\ w = mine => /\ writers[w].pc # "none"
                       /\ ~writers[w].shared
                       /\ writers[w].file =
                             IF writers[w].pc = "write" THEN "temporary" ELSE "none"

(* What the file, the thread and the registry know of a record.             *)
Behind == \A r \in Records : main[r] <= mem[r]

ReadBetween ==
    \A w \in Slots, r \in Records :
        LET seen == writers[w].got[r] IN
        (writers[w].pc \in {"read", "write", "replace"} /\ seen # -1) =>
            /\ main[r] <= seen /\ seen <= mem[r]
            /\ ~dirty => seen = mem[r]

(* A thread writes what it has read completely.                             *)
AllRead ==
    \A w \in Slots :
        writers[w].pc \in {"write", "replace"} =>
            writers[w].got \in [Records -> Version]

RenamesOwn ==
    \A w \in Slots :
        writers[w].pc = "replace" => temporary = writers[w].got

(* A pass that ended well, with no change since, has saved everything.      *)
PassSaved ==
    (mine \in Slots /\ writers[mine].pc = "done" /\ ~dirty /\ ~owed) => main = mem

QuietSaved ==
    (flusher = "none" /\ ~owed) =>
        \/ main = mem
        \/ main = Absent /\ \A r \in Records : mem[r] = 0

OneWrite ==
    /\ FlagKept /\ OneThread
    /\ main # Torn /\ Behind
    /\ ReadBetween /\ RenamesOwn
    /\ PassSaved /\ QuietSaved

StoreInv == StoreTypeOK /\ AllRead /\ (timeouts = 0 => OneWrite)

-----------------------------------------------------------------------------
(* The types.                                                               *)

(* A fresh thread is a thread.                                              *)
LEMMA IdleType == Idle \in ThreadRecord /\ Absent \in [Records -> Version \cup {-1}]
BY DEF Idle, ThreadRecord, Absent

(* 0 is not a thread. *)
LEMMA SlotsType == Slots \subseteq Nat \ {0}
BY BoundsAssumption DEF Slots

(* An empty registry without a file has the types. *)
LEMMA TypeInit == StoreInit => StoreTypeOK /\ AllRead
<1> SUFFICES ASSUME StoreInit PROVE StoreTypeOK /\ AllRead
  OBVIOUS
<1>1. StoreTypeOK
  <2>1. mem \in [Records -> Version] /\ main \in Contents /\ temporary \in Contents
    BY BoundsAssumption DEF StoreInit, Version, Contents
  <2>2. writers \in [Slots -> ThreadRecord]
    BY IdleType DEF StoreInit
  <2>3. timeouts \in 0 .. MaxTimeouts /\ failures \in 0 .. MaxFailures /\ crashes \in 0 .. MaxCrashes
    BY BoundsAssumption DEF StoreInit
  <2> QED
    BY <2>1, <2>2, <2>3 DEF StoreInit, StoreTypeOK
<1>2. AllRead
  BY DEF StoreInit, AllRead, Idle
<1> QED
  BY <1>1, <1>2

(* What a thread writes is a document or a torn file.                       *)
LEMMA WrittenType ==
    ASSUME AllRead, NEW w \in Slots, writers[w].pc = "write", NEW text \in Written(w)
    PROVE  text \in Contents
BY DEF AllRead, Written, Contents

(* No step, also of a thread that was given up, leaves the types. *)
LEMMA TypeNext ==
    ASSUME StoreTypeOK, AllRead, [StoreNext]_storeVars
    PROVE  StoreTypeOK' /\ AllRead'
<1> USE IdleType, SlotsType DEF StoreTypeOK
<1>1. ASSUME NEW r \in Records, Change(r) PROVE StoreTypeOK' /\ AllRead'
  <2>1. mem' \in [Records -> Version]
    BY <1>1, BoundsAssumption DEF Change, Version
  <2> QED
    BY <1>1, <2>1 DEF Change, Schedule, faults, AllRead
<1>2. CASE FlushStarts
  BY <1>2 DEF FlushStarts, Loop, faults, AllRead
<1>3. CASE Snapshot
  <2>1. PICK w \in Slots :
          /\ mine' = w
          /\ writers' = [writers EXCEPT ![w] =
                [Idle EXCEPT !.pc = "read",
                    !.got = [r \in Records |-> IF mem[r] = 0 THEN 0 ELSE -1]]]
    BY <1>3 DEF Snapshot
  <2>2. [Idle EXCEPT !.pc = "read",
           !.got = [r \in Records |-> IF mem[r] = 0 THEN 0 ELSE -1]] \in ThreadRecord
    BY BoundsAssumption DEF Idle, ThreadRecord, Version
  <2>3. StoreTypeOK'
    BY <1>3, <2>1, <2>2 DEF Snapshot, faults
  <2>4. AllRead'
    BY <2>1 DEF AllRead, Idle
  <2> QED
    BY <2>3, <2>4
<1>4. CASE Answered
  <2>1. StoreTypeOK'
    BY <1>4 DEF Answered, Loop, faults
  <2>2. AllRead'
    BY <1>4 DEF Answered, AllRead, Idle
  <2> QED
    BY <2>1, <2>2
<1>5. CASE GivenUp
  <2>1. timeouts' \in 0 .. MaxTimeouts
    BY <1>5, BoundsAssumption DEF GivenUp
  <2> QED
    BY <1>5, <2>1 DEF GivenUp, Loop, AllRead
<1>6. ASSUME NEW w \in Slots, NEW r \in Records, Read(w, r) PROVE StoreTypeOK' /\ AllRead'
  <2>1. writers' \in [Slots -> ThreadRecord]
    BY <1>6 DEF Read, ThreadRecord
  <2>2. AllRead'
    BY <1>6 DEF Read, AllRead, ThreadRecord
  <2> QED
    BY <1>6, <2>1, <2>2 DEF Read, faults
<1>7. ASSUME NEW w \in Slots, Open(w) PROVE StoreTypeOK' /\ AllRead'
  <2>1. writers' \in [Slots -> ThreadRecord]
    BY <1>7 DEF Open, ThreadRecord
  <2>2. writers[w].got \in [Records -> Version]
    <3>1. \A r \in Records : writers[w].got[r] # -1
      BY <1>7 DEF Open, Unread
    <3>2. writers[w].got \in [Records -> Version \cup {-1}]
      BY DEF ThreadRecord
    <3> QED
      BY <3>1, <3>2
  <2>3. AllRead'
    BY <1>7, <2>2 DEF Open, AllRead, ThreadRecord
  <2> QED
    BY <1>7, <2>1, <2>3 DEF Open, faults, Contents
<1>8. ASSUME NEW w \in Slots, Finish(w) PROVE StoreTypeOK' /\ AllRead'
  <2>1. writers' \in [Slots -> ThreadRecord]
    BY <1>8 DEF Finish, ThreadRecord
  <2>2. main' \in Contents /\ temporary' \in Contents
    BY <1>8, WrittenType DEF Finish
  <2>3. AllRead'
    BY <1>8 DEF Finish, AllRead, ThreadRecord
  <2> QED
    BY <1>8, <2>1, <2>2, <2>3 DEF Finish, faults
<1>9. ASSUME NEW w \in Slots, Replace(w) PROVE StoreTypeOK' /\ AllRead'
  <2>0. End(w) \in ThreadRecord /\ End(w).pc \in {"none", "done"}
    BY DEF End, Idle, ThreadRecord, Absent
  <2>1. writers' \in [Slots -> ThreadRecord]
    BY <1>9, <2>0 DEF Replace, ThreadRecord
  <2>2. AllRead'
    BY <1>9, <2>0 DEF Replace, AllRead, ThreadRecord
  <2>3. Absent \in Contents
    BY DEF Contents
  <2> QED
    BY <1>9, <2>1, <2>2, <2>3 DEF Replace, faults
<1>10. ASSUME NEW w \in Slots, ReplaceFails(w) \/ Raises(w) PROVE StoreTypeOK' /\ AllRead'
  <2>0. End(w) \in ThreadRecord /\ End(w).pc \in {"none", "done"}
    BY DEF End, Idle, ThreadRecord, Absent
  <2>1. writers' = [writers EXCEPT ![w] = End(w)] /\ owed' \in BOOLEAN
    BY <1>10 DEF ReplaceFails, Raises
  <2>2. AllRead'
    BY <2>0, <2>1 DEF AllRead
  <2> QED
    BY <1>10, <2>0, <2>1, <2>2, BoundsAssumption DEF ReplaceFails, Raises, faults
<1>11. CASE CrashAndRestore
  <2>1. mem' \in [Records -> Version]
    BY <1>11, BoundsAssumption DEF CrashAndRestore, Restored, Contents, Version
  <2>2. AllRead'
    BY <1>11 DEF CrashAndRestore, AllRead, Idle
  <2> QED
    <3>1. crashes' \in 0 .. MaxCrashes
      BY <1>11, BoundsAssumption DEF CrashAndRestore
    <3>2. writers' \in [Slots -> ThreadRecord]
      BY <1>11 DEF CrashAndRestore
    <3> QED
      BY <1>11, <2>1, <2>2, <3>1, <3>2 DEF CrashAndRestore
<1>12. CASE UNCHANGED storeVars
  BY <1>12 DEF storeVars, AllRead
<1> QED
  BY <1>1, <1>2, <1>3, <1>4, <1>5, <1>6, <1>7, <1>8, <1>9, <1>10, <1>11, <1>12
  DEF StoreNext, FlusherStep, WriterStep

-----------------------------------------------------------------------------
(* One write at a time.                                                     *)

(* Versions are numbers, also those of an absent file.                      *)
LEMMA Numbers ==
    ASSUME StoreTypeOK, main # Torn, NEW r \in Records
    PROVE  mem[r] \in Nat /\ main[r] \in Int /\ main[r] >= -1
BY DEF StoreTypeOK, Version, Contents, Absent

(* At the start there is no thread and nothing to save. *)
LEMMA OneWriteInit == StoreInit => OneWrite
<1> SUFFICES ASSUME StoreInit PROVE OneWrite
  OBVIOUS
<1> USE SlotsType
<1>1. main # Torn
  BY RecordsAssumption DEF StoreInit, Absent, Torn
<1>2. FlagKept /\ OneThread /\ RenamesOwn
  BY DEF StoreInit, FlagKept, OneThread, RenamesOwn, Idle
<1>3. Behind /\ ReadBetween
  BY DEF StoreInit, Behind, ReadBetween, Absent, Idle
<1>4. PassSaved /\ QuietSaved
  BY DEF StoreInit, PassSaved, QuietSaved
<1> QED
  BY <1>1, <1>2, <1>3, <1>4 DEF OneWrite

(* A thread that is at work is the one the flusher waits for.               *)
LEMMA AtWork ==
    ASSUME StoreTypeOK, OneWrite, NEW w \in Slots, writers[w].pc # "none"
    PROVE  /\ w = mine /\ flusher = "writing"
           /\ \A v \in Slots : v # w => writers[v] = Idle
<1>1. w = mine
  BY DEF OneWrite, OneThread, Idle
<1> QED
  BY <1>1, SlotsType DEF OneWrite, OneThread, FlagKept

(* No thread is at work outside the write of the flusher.                   *)
LEMMA NoThread ==
    ASSUME StoreTypeOK, OneWrite, flusher # "writing"
    PROVE  mine = 0 /\ \A v \in Slots : writers[v] = Idle
BY SlotsType DEF OneWrite, OneThread, FlagKept

(* With no thread only the flag, the flusher and the records matter.        *)
LEMMA NoThreadKeeps ==
    ASSUME \A v \in Slots : writers'[v] = Idle, mine' = 0,
           flusher' # "writing", flusher' = "none" => ~dirty',
           flusher' = "start" => dirty',
           main' # Torn, Behind', QuietSaved'
    PROVE  OneWrite'
<1>1. OneThread' /\ FlagKept' /\ PassSaved'
  BY SlotsType DEF OneThread, FlagKept, PassSaved
<1>2. ReadBetween' /\ RenamesOwn'
  BY DEF ReadBetween, RenamesOwn, Idle
<1> QED
  BY <1>1, <1>2 DEF OneWrite

(* A change makes the registry newer and sets the flag. *)
LEMMA ChangeKeeps ==
    ASSUME StoreTypeOK, OneWrite, NEW r \in Records, Change(r)
    PROVE  OneWrite'
<1> USE DEF OneWrite
<1>1. \A q \in Records : mem[q] <= mem'[q]
  BY Numbers DEF Change, StoreTypeOK
<1>2. dirty' /\ flusher' # "none" /\ FlagKept'
  BY DEF Change, Schedule, FlagKept, StoreTypeOK
<1>3. UNCHANGED <<writers, mine, main, temporary>>
  BY DEF Change
<1>4. OneThread' /\ RenamesOwn' /\ PassSaved' /\ QuietSaved'
  BY <1>2, <1>3 DEF OneThread, RenamesOwn, PassSaved, QuietSaved
<1>5. Behind'
  <2> SUFFICES ASSUME NEW q \in Records PROVE main[q] <= mem'[q]
    BY <1>3 DEF Behind
  <2>1. main[q] <= mem[q] /\ mem[q] <= mem'[q] /\ main[q] \in Int
        /\ mem[q] \in Int /\ mem'[q] \in Int
    BY <1>1, Numbers DEF Behind, Change, StoreTypeOK
  <2> QED
    BY <2>1
<1>6. ReadBetween'
  <2> SUFFICES ASSUME NEW w \in Slots, NEW q \in Records,
                      writers[w].pc \in {"read", "write", "replace"},
                      writers[w].got[q] # -1
               PROVE  main[q] <= writers[w].got[q] /\ writers[w].got[q] <= mem'[q]
    BY <1>2, <1>3 DEF ReadBetween
  <2>1. main[q] <= writers[w].got[q] /\ writers[w].got[q] <= mem[q]
    BY DEF ReadBetween
  <2>2. mem[q] <= mem'[q] /\ mem[q] \in Int /\ mem'[q] \in Int
    BY <1>1, Numbers DEF Change, StoreTypeOK
  <2>3. writers[w].got[q] \in Int
    BY DEF StoreTypeOK, ThreadRecord, Version
  <2> QED
    BY <2>1, <2>2, <2>3
<1> QED
  BY <1>2, <1>3, <1>4, <1>5, <1>6

(* The flusher clears the flag before it takes its snapshot. *)
LEMMA FlushStartsKeeps ==
    ASSUME StoreTypeOK, OneWrite, FlushStarts
    PROVE  OneWrite'
<1>1. mine = 0 /\ \A v \in Slots : writers[v] = Idle
  BY NoThread DEF FlushStarts
<1>2. flusher' = "debounce" /\ UNCHANGED <<mem, writers, mine, main>>
  BY DEF OneWrite, FlagKept, FlushStarts, Loop
<1>3. main' # Torn /\ Behind' /\ QuietSaved'
  BY <1>2 DEF OneWrite, Behind, QuietSaved, Torn
<1> QED
  BY <1>1, <1>2, <1>3, NoThreadKeeps

(* What was not there when the snapshot was taken is known to be new.       *)
LEMMA SnapshotKeeps ==
    ASSUME StoreTypeOK, OneWrite, Snapshot
    PROVE  OneWrite'
<1> USE DEF OneWrite
<1>1. mine = 0 /\ \A v \in Slots : writers[v] = Idle
  BY NoThread DEF Snapshot
<1> DEFINE fresh == [Idle EXCEPT !.pc = "read",
                       !.got = [r \in Records |-> IF mem[r] = 0 THEN 0 ELSE -1]]
<1>2. PICK w \in Slots : mine' = w /\ writers' = [writers EXCEPT ![w] = fresh]
  BY DEF Snapshot
<1>3. writers'[w] = fresh /\ \A v \in Slots : v # w => writers'[v] = Idle
  BY <1>1, <1>2 DEF StoreTypeOK
<1>4. fresh.pc = "read" /\ fresh.file = "none" /\ ~fresh.shared
      /\ fresh.got = [r \in Records |-> IF mem[r] = 0 THEN 0 ELSE -1]
  BY DEF Idle
<1>5. flusher' = "writing" /\ UNCHANGED <<mem, dirty, main, temporary, owed>>
  BY DEF Snapshot
<1> HIDE DEF fresh
<1>6. FlagKept' /\ OneThread'
  BY <1>2, <1>3, <1>4, <1>5, SlotsType DEF FlagKept, OneThread
<1>7. ReadBetween'
  <2> SUFFICES ASSUME NEW v \in Slots, NEW r \in Records,
                      writers'[v].pc \in {"read", "write", "replace"},
                      writers'[v].got[r] # -1
               PROVE  /\ main[r] <= writers'[v].got[r] /\ writers'[v].got[r] <= mem[r]
                      /\ writers'[v].got[r] = mem[r]
    BY <1>5 DEF ReadBetween
  <2>1. v = w
    BY <1>3 DEF Idle
  <2>2. mem[r] = 0 /\ writers'[v].got[r] = 0
    BY <2>1, <1>3, <1>4
  <2> QED
    BY <2>2, Numbers DEF Behind
<1>8. RenamesOwn' /\ PassSaved' /\ QuietSaved' /\ Behind' /\ main' # Torn
  <2>1. RenamesOwn'
    BY <1>3, <1>4 DEF RenamesOwn, Idle
  <2>2. PassSaved'
    BY <1>2, <1>3, <1>4 DEF PassSaved
  <2> QED
    BY <2>1, <2>2, <1>5 DEF QuietSaved, Behind, Torn
<1> QED
  BY <1>6, <1>7, <1>8

(* A pass with no change since has saved everything, so the flusher may end. *)
LEMMA AnsweredKeeps ==
    ASSUME StoreTypeOK, OneWrite, Answered
    PROVE  OneWrite'
<1> USE DEF OneWrite
<1>1. mine \in Slots /\ writers[mine].pc = "done"
  BY DEF Answered, FlagKept, StoreTypeOK
<1>2. \A v \in Slots : writers'[v] = Idle
  BY <1>1, AtWork DEF Answered, StoreTypeOK
<1>3. mine' = 0 /\ ~dirty' /\ flusher' = (IF dirty THEN "debounce" ELSE "none")
      /\ UNCHANGED <<mem, main, owed>>
  BY DEF Answered, Loop
<1>4. QuietSaved'
  BY <1>1, <1>3 DEF PassSaved, QuietSaved
<1>5. Behind' /\ main' # Torn
  BY <1>3 DEF Behind, Torn
<1> QED
  BY <1>2, <1>3, <1>4, <1>5, NoThreadKeeps

(* A record is read at its current version. *)
LEMMA ReadKeeps ==
    ASSUME StoreTypeOK, OneWrite, NEW w \in Slots, NEW r \in Records, Read(w, r)
    PROVE  OneWrite'
<1> USE DEF OneWrite
<1>1. w = mine /\ flusher = "writing" /\ \A v \in Slots : v # w => writers[v] = Idle
  BY AtWork DEF Read
<1>2. UNCHANGED <<mem, dirty, flusher, mine, main, temporary, owed>>
  BY DEF Read
<1>3. /\ writers'[w].pc = "read" /\ writers'[w].file = writers[w].file
      /\ writers'[w].shared = writers[w].shared
      /\ \A v \in Slots : v # w => writers'[v] = writers[v]
      /\ writers[w].pc = "read"
  BY DEF Read, StoreTypeOK, ThreadRecord
<1>4. \A q \in Records : writers'[w].got[q] = IF q = r THEN mem[r] ELSE writers[w].got[q]
  BY DEF Read, StoreTypeOK, ThreadRecord
<1>5. OneThread'
  BY <1>1, <1>2, <1>3 DEF OneThread
<1>6. RenamesOwn' /\ PassSaved'
  BY <1>1, <1>2, <1>3 DEF RenamesOwn, PassSaved, Idle
<1>7. ReadBetween'
  <2> SUFFICES ASSUME NEW v \in Slots, NEW q \in Records,
                      writers'[v].pc \in {"read", "write", "replace"},
                      writers'[v].got[q] # -1
               PROVE  /\ main[q] <= writers'[v].got[q] /\ writers'[v].got[q] <= mem[q]
                      /\ ~dirty => writers'[v].got[q] = mem[q]
    BY <1>2 DEF ReadBetween
  <2>1. v = w
    BY <1>1, <1>3 DEF Idle
  <2>2. CASE q = r
    BY <2>1, <2>2, <1>4, Numbers DEF Behind
  <2>3. CASE q # r
    BY <2>1, <2>3, <1>3, <1>4 DEF ReadBetween
  <2> QED
    BY <2>2, <2>3
<1> QED
  BY <1>1, <1>2, <1>5, <1>6, <1>7 DEF FlagKept, Behind, QuietSaved, Torn

(* The thread alone has the temporary file from its opening on.             *)
LEMMA OpenKeeps ==
    ASSUME StoreTypeOK, OneWrite, NEW w \in Slots, Open(w)
    PROVE  OneWrite'
<1> USE DEF OneWrite
<1>1. w = mine /\ flusher = "writing" /\ \A v \in Slots : v # w => writers[v] = Idle
  BY AtWork DEF Open
<1>2. UNCHANGED <<mem, dirty, flusher, mine, main, owed>>
  BY DEF Open
<1>3. \A v \in Slots : v # w => writers[v].file # "temporary"
  BY <1>1 DEF Idle
<1>4. /\ writers'[w].pc = "write" /\ writers'[w].file = "temporary"
      /\ ~writers'[w].shared /\ writers'[w].got = writers[w].got
      /\ \A v \in Slots : v # w => writers'[v] = writers[v]
      /\ writers[w].pc = "read"
  BY <1>3 DEF Open, StoreTypeOK, ThreadRecord
<1>5. OneThread'
  BY <1>1, <1>2, <1>4 DEF OneThread
<1>6. ReadBetween'
  BY <1>2, <1>4 DEF ReadBetween
<1>7. RenamesOwn' /\ PassSaved'
  BY <1>1, <1>2, <1>4 DEF RenamesOwn, PassSaved, Idle
<1> QED
  BY <1>1, <1>2, <1>5, <1>6, <1>7 DEF FlagKept, Behind, QuietSaved, Torn

(* What it wrote is what it has read.                                       *)
LEMMA FinishKeeps ==
    ASSUME StoreTypeOK, OneWrite, NEW w \in Slots, Finish(w)
    PROVE  OneWrite'
<1> USE DEF OneWrite
<1>1. w = mine /\ flusher = "writing" /\ \A v \in Slots : v # w => writers[v] = Idle
  BY AtWork DEF Finish
<1>2. UNCHANGED <<mem, dirty, flusher, mine, owed>>
  BY DEF Finish
<1>3. writers[w].pc = "write" /\ writers[w].file = "temporary" /\ ~writers[w].shared
  BY <1>1 DEF Finish, OneThread
<1>4. temporary' = writers[w].got /\ main' = main
  BY <1>3 DEF Finish, Written
<1>5. /\ writers'[w].pc = "replace" /\ writers'[w].file = "none"
      /\ ~writers'[w].shared /\ writers'[w].got = writers[w].got
      /\ \A v \in Slots : v # w => writers'[v] = writers[v]
  BY <1>3 DEF Finish, StoreTypeOK, ThreadRecord
<1>6. OneThread'
  BY <1>1, <1>2, <1>5 DEF OneThread
<1>7. ReadBetween'
  BY <1>2, <1>3, <1>4, <1>5 DEF ReadBetween
<1>8. RenamesOwn' /\ PassSaved'
  BY <1>1, <1>2, <1>4, <1>5 DEF RenamesOwn, PassSaved, Idle
<1> QED
  BY <1>1, <1>2, <1>4, <1>6, <1>7, <1>8 DEF FlagKept, Behind, QuietSaved, Torn

(* A document is neither an absent nor a torn file.                         *)
LEMMA DocumentIsWhole ==
    ASSUME NEW d \in [Records -> Version]
    PROVE  d # Torn /\ d # Absent
<1>1. PICK r \in Records : TRUE
  BY RecordsAssumption
<1>2. d[r] >= 0 /\ Torn[r] = -2 /\ Absent[r] = -1
  BY <1>1 DEF Version, Torn, Absent
<1> QED
  BY <1>2

(* A rename puts what the thread has read in the place of the file.         *)
LEMMA ReplaceStores ==
    ASSUME StoreTypeOK, AllRead, OneWrite, NEW w \in Slots, Replace(w)
    PROVE  /\ main' = writers[w].got /\ main' \in [Records -> Version]
           /\ \A r \in Records : main[r] <= main'[r] /\ main'[r] <= mem[r]
           /\ ~dirty => main' = mem
<1> USE DEF OneWrite
<1>1. main' = writers[w].got /\ main' \in [Records -> Version]
  BY DEF Replace, RenamesOwn, AllRead
<1>2. \A r \in Records : writers[w].got[r] # -1
  BY <1>1 DEF Version
<1>3. \A r \in Records : main[r] <= main'[r] /\ main'[r] <= mem[r]
  BY <1>1, <1>2 DEF Replace, ReadBetween
<1>4. ASSUME ~dirty PROVE main' = mem
  <2>1. \A r \in Records : main'[r] = mem[r]
    BY <1>1, <1>2, <1>4 DEF Replace, ReadBetween
  <2> QED
    BY <1>1, <2>1 DEF StoreTypeOK
<1> QED
  BY <1>1, <1>3, <1>4

(* The return of a thread leaves nothing to own, to read or to rename.      *)
LEMMA EndedThread ==
    ASSUME NEW w \in Slots, w = mine, mine' = mine, writers'[w] = End(w),
           \A v \in Slots : v # w => writers'[v] = Idle
    PROVE  OneThread' /\ RenamesOwn' /\ ReadBetween'
<1>1. /\ writers'[w].pc = "done" /\ writers'[w].file = "none"
      /\ writers'[w].shared = FALSE
  BY DEF End, Idle
<1>2. \A v \in Slots : v # w => writers'[v].pc = "none"
  BY DEF Idle
<1>3. Idle' = Idle
  BY DEF Idle, Absent
<1>4. OneThread'
  BY <1>1, <1>3 DEF OneThread
<1>5. \A v \in Slots : writers'[v].pc \notin {"read", "write", "replace"}
  BY <1>1, <1>2
<1> QED
  BY <1>4, <1>5 DEF RenamesOwn, ReadBetween

(* A rename moves the file forward to what the thread has read. *)
LEMMA ReplaceKeeps ==
    ASSUME StoreTypeOK, AllRead, OneWrite, NEW w \in Slots, Replace(w)
    PROVE  OneWrite'
<1> USE DEF OneWrite
<1>1. w = mine /\ flusher = "writing" /\ \A v \in Slots : v # w => writers[v] = Idle
  BY AtWork DEF Replace
<1>2. UNCHANGED <<mem, dirty, flusher, mine>>
  BY DEF Replace
<1>3. writers'[w] = End(w) /\ \A v \in Slots : v # w => writers'[v] = Idle
  <2>1. \A v \in Slots : v # w => writers[v].file = "none"
    BY <1>1 DEF Idle
  <2> QED
    BY <1>1, <2>1 DEF Replace
<1>4. OneThread' /\ RenamesOwn' /\ ReadBetween'
  BY <1>1, <1>2, <1>3, EndedThread
<1>5. Behind' /\ PassSaved'
  BY <1>2, ReplaceStores DEF Behind, PassSaved
<1>6. main' # Torn'
  BY ReplaceStores, DocumentIsWhole DEF Torn
<1>7. FlagKept' /\ QuietSaved'
  BY <1>1, <1>2 DEF FlagKept, QuietSaved
<1> QED
  BY <1>4, <1>5, <1>6, <1>7

(* A write that raised leaves the file alone and is owed.                   *)
LEMMA FailureKeeps ==
    ASSUME StoreTypeOK, OneWrite, NEW w \in Slots, ReplaceFails(w) \/ Raises(w)
    PROVE  OneWrite'
<1> USE DEF OneWrite
<1>1. w = mine /\ flusher = "writing" /\ \A v \in Slots : v # w => writers[v] = Idle
  BY AtWork DEF ReplaceFails, Raises
<1>2. UNCHANGED <<mem, dirty, flusher, mine, main, temporary>> /\ owed'
  BY <1>1 DEF ReplaceFails, Raises
<1>3. writers' = [writers EXCEPT ![w] = End(w)]
  BY DEF ReplaceFails, Raises
<1>4. writers'[w] = End(w) /\ \A v \in Slots : v # w => writers'[v] = Idle
  BY <1>1, <1>3 DEF StoreTypeOK
<1>5. OneThread' /\ RenamesOwn' /\ ReadBetween'
  BY <1>1, <1>2, <1>4, EndedThread
<1> QED
  BY <1>1, <1>2, <1>5 DEF FlagKept, Behind, PassSaved, QuietSaved, Torn

(* A restart takes the registry back to the file, and has no thread. *)
LEMMA CrashKeeps ==
    ASSUME StoreTypeOK, OneWrite, CrashAndRestore
    PROVE  OneWrite'
<1> USE DEF OneWrite
<1>1. /\ flusher' = "none" /\ ~dirty' /\ mine' = 0 /\ main' = main
      /\ \A v \in Slots : writers'[v] = Idle
      /\ mem' = Restored
  BY DEF CrashAndRestore
<1>2. CASE main = Absent
  <2>1. \A r \in Records : mem'[r] = 0 /\ main'[r] = -1
    BY <1>1, <1>2 DEF Restored, Absent
  <2>2. Behind' /\ QuietSaved'
    BY <2>1, <1>1, <1>2 DEF Behind, QuietSaved, Absent
  <2> QED
    BY <1>1, <2>2, NoThreadKeeps DEF Torn
<1>3. CASE main # Absent
  <2>1. mem' = main /\ main \in [Records -> Version]
    BY <1>1, <1>3 DEF Restored, StoreTypeOK, Contents
  <2>2. Behind' /\ QuietSaved'
    BY <2>1, <1>1 DEF Behind, QuietSaved, Version
  <2> QED
    BY <1>1, <2>2, NoThreadKeeps DEF Torn
<1> QED
  BY <1>2, <1>3

(* A step that gives no write up leaves at most one write under way.        *)
LEMMA OneWriteNext ==
    ASSUME StoreTypeOK, AllRead, OneWrite, [StoreNext]_storeVars, timeouts' = 0
    PROVE  OneWrite'
<1>1. ASSUME NEW r \in Records, Change(r) PROVE OneWrite'
  BY <1>1, ChangeKeeps
<1>2. CASE FlusherStep
  <2>1. ~GivenUp
    BY DEF GivenUp, StoreTypeOK
  <2> QED
    BY <1>2, <2>1, FlushStartsKeeps, SnapshotKeeps, AnsweredKeeps DEF FlusherStep
<1>3. ASSUME NEW w \in Slots, WriterStep(w) PROVE OneWrite'
  BY <1>3, ReadKeeps, OpenKeeps, FinishKeeps, ReplaceKeeps, FailureKeeps
  DEF WriterStep
<1>4. CASE CrashAndRestore
  BY <1>4, CrashKeeps
<1>5. CASE UNCHANGED storeVars
  BY <1>5 DEF storeVars, OneWrite, FlagKept, OneThread, Behind, ReadBetween,
              RenamesOwn, PassSaved, QuietSaved, Torn, Absent
<1> QED
  BY <1>1, <1>2, <1>3, <1>4, <1>5 DEF StoreNext

-----------------------------------------------------------------------------
(* Writes that were given up are counted and never forgotten.               *)
LEMMA TimeoutsGrow ==
    ASSUME StoreTypeOK, [StoreNext]_storeVars, timeouts' = 0
    PROVE  timeouts = 0
<1>1. timeouts' = timeouts \/ timeouts' = timeouts + 1
  BY DEF StoreNext, FlusherStep, WriterStep, Change, FlushStarts, Snapshot, Answered,
         GivenUp, Read, Open, Finish, Replace, ReplaceFails, Raises,
         CrashAndRestore, storeVars, faults
<1> QED
  BY <1>1 DEF StoreTypeOK

(* The invariant of the store: as long as no write was given up, one write  *)
(* at a time takes what the registry holds to the file.                     *)
THEOREM StoreInvariant == StoreSpec => []StoreInv
<1>1. StoreInit => StoreInv
  BY TypeInit, OneWriteInit DEF StoreInv
<1>2. StoreInv /\ [StoreNext]_storeVars => StoreInv'
  BY TypeNext, OneWriteNext, TimeoutsGrow DEF StoreInv
<1> QED
  BY <1>1, <1>2, PTL DEF StoreSpec

(* Type correctness of flusher, threads and files, also after timeouts.     *)
THEOREM StoreTypeCorrect == StoreSpec => []StoreTypeOK
<1>1. StoreInv => StoreTypeOK
  BY DEF StoreInv
<1> QED
  BY <1>1, StoreInvariant, PTL

(* When _flush_ops_jobs_debounced has ended, every change is in the file    *)
(* or the last write raised: no order of changes, debounce and write loses  *)
(* one; and a crash in the middle of _persist_ops_jobs leaves a whole       *)
(* document.                                                                *)
THEOREM StoreKeepsChanges == StoreSpec => []SavedAndReadable
<1>1. StoreInv => QuietMeansSaved
  BY DEF StoreInv, OneWrite, QuietSaved, QuietMeansSaved
<1>2. StoreInv => ReadableWithoutTimeouts
  BY DEF StoreInv, OneWrite, ReadableWithoutTimeouts
<1>3. StoreInv => SavedAndReadable
  BY <1>1, <1>2 DEF SavedAndReadable
<1> QED
  BY <1>3, StoreInvariant, PTL

(* A rename never puts an older version of a record into the file.          *)
LEMMA NeverBackwardsNext ==
    ASSUME StoreInv, [StoreNext]_storeVars, timeouts' = 0, NEW r \in Records
    PROVE  main'[r] >= main[r]
<1>1. OneWrite /\ StoreTypeOK /\ AllRead
  BY TimeoutsGrow DEF StoreInv
<1>2. main[r] \in Int
  BY <1>1, Numbers DEF OneWrite
<1>3. ASSUME NEW w \in Slots, Replace(w) PROVE main'[r] >= main[r]
  <2>1. main[r] <= main'[r] /\ main'[r] \in Int
    BY <1>1, <1>3, ReplaceStores DEF Version
  <2> QED
    BY <2>1, <1>2
<1>4. ASSUME NEW w \in Slots, Finish(w) PROVE main' = main
  <2>1. writers[w].pc = "write" /\ w = mine
    BY <1>1, <1>4, AtWork DEF Finish
  <2>2. writers[w].file = "temporary"
    BY <1>1, <2>1 DEF OneWrite, OneThread
  <2> QED
    BY <1>4, <2>2 DEF Finish
<1>5. CASE ~ \E w \in Slots : Replace(w) \/ Finish(w)
  <2>1. main' = main
    BY <1>5 DEF StoreNext, FlusherStep, WriterStep, Change, FlushStarts, Snapshot,
         Answered, GivenUp, Read, Open, ReplaceFails, Raises, CrashAndRestore, storeVars
  <2> QED
    BY <2>1, <1>2
<1> QED
  BY <1>2, <1>3, <1>4, <1>5

(* Neither a failed write nor a restart makes the file older.               *)
THEOREM StoreNeverGoesBack == StoreSpec => NeverBackwards
<1>1. StoreInv /\ [StoreNext]_storeVars =>
        [timeouts' = 0 => \A r \in Records : main'[r] >= main[r]]_storeVars
  BY NeverBackwardsNext
<1> QED
  BY <1>1, StoreInvariant, PTL DEF StoreSpec, NeverBackwards
=============================================================================
