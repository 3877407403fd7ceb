----------------------------- MODULE MCBackground -----------------------------
(***************************************************************************)
(* What runs behind the jobs and the requests of the platform, in one      *)
(* instance: a stage of a job, the store of all jobs and a bulkhead, which  *)
(* share no state.  part says which of them moves.                         *)
(*                                                                         *)
(* A stage is given every order of the four durations, with the heartbeat  *)
(* longer than the deadline, no sink, a sink slower than the heartbeat and *)
(* no grace among them.  The store has two records, two changes to each,   *)
(* one write given up, one that raises and one crash, so that two threads  *)
(* meet at the temporary file and a change meets every stage of a write.   *)
(* Three coroutines come for two slots of the bulkhead again and again.    *)
(***************************************************************************)
EXTENDS RunWithHeartbeat, OpsJobStore, RuntimeResilience

VARIABLE part

backgroundVars == <<part, stageVars, storeVars, slotVars>>

MCRequests ==
    [timeout : {1, 3, 5}, beat : {0, 1, 2, 6}, sink : {0, 1, 3, 6}, grace : {0, 1, 2}]

BackgroundInit ==
    /\ part \in {"stage", "store", "slots"}
    /\ StageInit /\ StoreInit /\ SlotsInit
    /\ part # "stage" => par = CHOOSE p \in {Clamped(r) : r \in Requests} : TRUE

OfStage(action) ==
    part = "stage" /\ action /\ UNCHANGED <<part, storeVars, slotVars>>
OfStore(action) ==
    part = "store" /\ action /\ UNCHANGED <<part, stageVars, slotVars>>
OfSlots(action) ==
    part = "slots" /\ action /\ UNCHANGED <<part, stageVars, storeVars>>

StageMoves == OfStage(StageNext)
StoreMoves == OfStore(StoreNext)
SlotMoves == OfSlots(SlotsNext)
BackgroundNext == StageMoves \/ StoreMoves \/ SlotMoves

\* The fairness of the three specifications, each in its part.
BackgroundFairness ==
    /\ WF_backgroundVars(OfStage(Supervise)) /\ WF_backgroundVars(OfStage(Tick))
    /\ WF_backgroundVars(OfStore(FlusherStep))
    /\ WF_backgroundVars(OfStore(mine # 0 /\ WriterStep(mine)))
    /\ \A r \in Visitors :
          /\ WF_backgroundVars(OfSlots(TaskRuns(r)))
          /\ WF_backgroundVars(OfSlots(Done(r)))

BackgroundSpec == BackgroundInit /\ [][BackgroundNext]_backgroundVars /\ BackgroundFairness

(* StageEnds of RunWithHeartbeat, for the behaviours about a stage.         *)
EveryStageEnds == part = "stage" => StageEnds
=============================================================================
