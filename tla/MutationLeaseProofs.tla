-------------------------- MODULE MutationLeaseProofs --------------------------
(***************************************************************************)
(* Proofs about MutationLease for every set of jobs and targets and every  *)
(* limit.  The inductive invariant is LeaseInv: the bookkeeping of the two *)
(* module variables of the code (activeJobs, activeTargets) agrees with    *)
(* where the coroutines are, and the set of slots is finite and bounded.   *)
(***************************************************************************)
EXTENDS MutationLease, FiniteSetTheorems, TLAPS

(* A coroutine that waits or writes has a target. *)
GoalKnown ==
    \A j \in Jobs : phase[j] # "idle" => goal[j] \in Targets

SlotsCounted ==
    /\ IsFiniteSet(activeJobs)
    /\ Cardinality(activeJobs) <= Limit

LeaseInv == LeaseTypeOK /\ GoalKnown /\ NoLeakedLease /\ SlotsCounted

(* The empty lease table satisfies the invariant. *)
LEMMA LeaseInvInit == Init => LeaseInv
<1> SUFFICES ASSUME Init PROVE LeaseInv
  OBVIOUS
<1>1. LeaseTypeOK /\ GoalKnown
  BY BoundsAssumption DEF Init, LeaseInit, LeaseTypeOK, GoalKnown, Phases
<1>2. NoLeakedLease
  BY NoJobAssumption DEF Init, LeaseInit, NoLeakedLease, Holding
<1>3. SlotsCounted
  BY FS_EmptySet, LimitAssumption DEF Init, LeaseInit, SlotsCounted
<1> QED
  BY <1>1, <1>2, <1>3 DEF LeaseInv

(* A grant adds the job to the slots and the target map, within the limit. *)
LEMMA GrantKeepsInv ==
    ASSUME LeaseInv, NEW j \in Jobs, Grant(j)
    PROVE  LeaseInv'
<1> USE DEF LeaseInv
<1>0. goal[j] \in Targets /\ phase[j] = "queued" /\ j \notin activeJobs
  BY DEF Grant, GoalKnown, NoLeakedLease, Holding
<1>1. LeaseTypeOK' /\ GoalKnown'
  BY <1>0 DEF Grant, Acquired, LeaseTypeOK, GoalKnown, Phases
<1>2. Holding' = Holding \cup {j}
  BY <1>0 DEF Grant, Holding, LeaseTypeOK
<1>3. NoLeakedLease'
  <2>1. activeJobs' = Holding'
    BY <1>2 DEF Grant, Acquired, NoLeakedLease
  <2>2. ASSUME NEW t \in Targets, NEW k \in Jobs
        PROVE  activeTargets'[t] = k <=> (k \in Holding' /\ goal'[k] = t)
    <3>1. activeTargets[goal[j]] = NoJob
      BY <1>0 DEF Grant, CanGrant, NoLeakedLease, Holding
    <3>2. goal' = goal
      BY DEF Grant
    <3>3. activeTargets'[t] = IF t = goal[j] THEN j ELSE activeTargets[t]
      BY <1>0 DEF Grant, Acquired, LeaseTypeOK
    <3>4. activeTargets[t] = k <=> (k \in Holding /\ goal[k] = t)
      BY DEF NoLeakedLease
    <3>5. activeTargets[goal[j]] # k
      BY <3>1, NoJobAssumption
    <3> QED
      BY <1>0, <1>2, <3>1, <3>2, <3>3, <3>4, <3>5 DEF Holding
  <2> QED
    BY <2>1, <2>2 DEF NoLeakedLease
<1>4. SlotsCounted'
  <2>1. activeJobs' = activeJobs \cup {j} /\ Cardinality(activeJobs) < Limit
    BY <1>0 DEF Grant, Acquired, CanGrant
  <2>2. /\ IsFiniteSet(activeJobs \cup {j})
        /\ Cardinality(activeJobs \cup {j}) = Cardinality(activeJobs) + 1
    BY <1>0, FS_AddElement DEF SlotsCounted
  <2>3. Cardinality(activeJobs) \in Nat
    BY FS_CardinalityType DEF SlotsCounted
  <2> QED
    BY <2>1, <2>2, <2>3, LimitAssumption DEF SlotsCounted
<1> QED
  BY <1>1, <1>3, <1>4

(* A release removes exactly what the grant added. *)
LEMMA ReleaseKeepsInv ==
    ASSUME LeaseInv, NEW j \in Jobs, phase[j] = "holding",
           Released(j, goal[j]), Leaves(j),
           stopped' = stopped, changesLeft' = changesLeft, stray' \in [Targets -> 0 .. MaxStray]
    PROVE  LeaseInv'
<1> USE DEF LeaseInv
<1>0. goal[j] \in Targets /\ j \in Holding /\ j \in activeJobs
  BY DEF GoalKnown, NoLeakedLease, Holding
<1>1. Holding' = Holding \ {j}
  BY <1>0 DEF Leaves, Holding, LeaseTypeOK
<1>2. activeTargets[goal[j]] = j
  BY <1>0 DEF NoLeakedLease
<1>3. activeTargets' = [activeTargets EXCEPT ![goal[j]] = NoJob]
  BY <1>2 DEF Released, TargetsAfterRelease
<1>4. ASSUME NEW u \in Targets PROVE activeTargets'[u] # j
  BY <1>0, <1>3, <1>4, NoJobAssumption DEF NoLeakedLease, LeaseTypeOK
<1>5. activeJobs' = activeJobs \ {j}
  BY <1>2, <1>3, <1>4 DEF Released, TargetsAfterRelease
<1>6. LeaseTypeOK' /\ GoalKnown'
  BY <1>3, <1>5 DEF Leaves, LeaseTypeOK, GoalKnown, Phases
<1>7. NoLeakedLease'
  <2>1. activeJobs' = Holding'
    BY <1>1, <1>5 DEF NoLeakedLease
  <2>2. ASSUME NEW t \in Targets, NEW k \in Jobs
        PROVE  activeTargets'[t] = k <=> (k \in Holding' /\ goal'[k] = t)
    <3>1. activeTargets'[t] = IF t = goal[j] THEN NoJob ELSE activeTargets[t]
      BY <1>0, <1>3 DEF LeaseTypeOK
    <3>2. k # j => goal'[k] = goal[k]
      BY DEF Leaves, LeaseTypeOK
    <3>3. activeTargets[t] = k <=> (k \in Holding /\ goal[k] = t)
      BY DEF NoLeakedLease
    <3>4. k # NoJob
      BY NoJobAssumption
    <3> QED
      BY <1>0, <1>1, <1>2, <3>1, <3>2, <3>3, <3>4
  <2> QED
    BY <2>1, <2>2 DEF NoLeakedLease
<1>8. SlotsCounted'
  <2>1. /\ IsFiniteSet(activeJobs \ {j})
        /\ Cardinality(activeJobs \ {j}) = Cardinality(activeJobs) - 1
    BY <1>0, FS_RemoveElement DEF SlotsCounted
  <2>2. Cardinality(activeJobs) \in Nat
    BY FS_CardinalityType DEF SlotsCounted
  <2> QED
    BY <1>5, <2>1, <2>2, LimitAssumption DEF SlotsCounted
<1> QED
  BY <1>6, <1>7, <1>8

(* Steps outside the lease functions leave the bookkeeping alone. *)
LEMMA OtherKeepsInv ==
    ASSUME LeaseInv, UNCHANGED <<activeJobs, activeTargets>>,
           LeaseTypeOK', GoalKnown', Holding' = Holding,
           \A j \in Holding : goal'[j] = goal[j]
    PROVE  LeaseInv'
BY DEF LeaseInv, NoLeakedLease, SlotsCounted

(* Every step of the specification preserves the invariant. *)
LEMMA LeaseInvNext == LeaseInv /\ [Next]_vars => LeaseInv'
<1> SUFFICES ASSUME LeaseInv, [Next]_vars PROVE LeaseInv'
  OBVIOUS
<1>1. ASSUME NEW j \in Jobs, NEW t \in Targets, Request(j, t) PROVE LeaseInv'
  <2>1. LeaseTypeOK'
    BY <1>1, BoundsAssumption DEF Request, LeaseInv, LeaseTypeOK, Phases
  <2>2. GoalKnown' /\ Holding' = Holding
    BY <1>1 DEF Request, LeaseInv, LeaseTypeOK, GoalKnown, Holding
  <2>3. \A k \in Holding : goal'[k] = goal[k]
    BY <1>1 DEF Request, LeaseInv, LeaseTypeOK, Holding
  <2> QED
    BY <1>1, <2>1, <2>2, <2>3, OtherKeepsInv DEF Request
<1>2. ASSUME NEW j \in Jobs, Grant(j) PROVE LeaseInv'
  BY <1>2, GrantKeepsInv
<1>3. ASSUME NEW j \in Jobs, GiveUp(j) PROVE LeaseInv'
  <2>1. LeaseTypeOK' /\ GoalKnown' /\ Holding' = Holding
    BY <1>3 DEF GiveUp, Leaves, LeaseInv, LeaseTypeOK, GoalKnown, Holding, Phases
  <2>2. \A k \in Holding : goal'[k] = goal[k]
    BY <1>3 DEF GiveUp, Leaves, LeaseInv, LeaseTypeOK, Holding
  <2> QED
    BY <1>3, <2>1, <2>2, OtherKeepsInv DEF GiveUp
<1>4. ASSUME NEW j \in Jobs, Return(j) PROVE LeaseInv'
  BY <1>4, ReleaseKeepsInv DEF Return, LeaseInv, LeaseTypeOK
<1>5. ASSUME NEW j \in Jobs, Abandon(j) PROVE LeaseInv'
  <2>1. stray' \in [Targets -> 0 .. MaxStray]
    BY <1>5, BoundsAssumption DEF Abandon, LeaseInv, LeaseTypeOK, GoalKnown
  <2> QED
    BY <1>5, <2>1, ReleaseKeepsInv DEF Abandon
<1>6. ASSUME NEW j \in Jobs, Cancel(j) PROVE LeaseInv'
  <2>1. LeaseTypeOK' /\ GoalKnown' /\ Holding' = Holding
    BY <1>6 DEF Cancel, LeaseInv, LeaseTypeOK, GoalKnown, Holding
  <2> QED
    BY <1>6, <2>1, OtherKeepsInv DEF Cancel
<1>7. ASSUME NEW t \in Targets, Land(t) PROVE LeaseInv'
  <2>1. LeaseTypeOK' /\ GoalKnown' /\ Holding' = Holding
    BY <1>7, BoundsAssumption DEF Land, LeaseInv, LeaseTypeOK, GoalKnown, Holding
  <2> QED
    BY <1>7, <2>1, OtherKeepsInv DEF Land
<1>8. CASE UNCHANGED vars
  BY <1>8 DEF vars, LeaseInv, LeaseTypeOK, GoalKnown, NoLeakedLease, SlotsCounted, Holding
<1> QED
  BY <1>1, <1>2, <1>3, <1>4, <1>5, <1>6, <1>7, <1>8 DEF Next

(* LeaseInv is an invariant of the specification. *)
THEOREM LeaseInvariant == Spec => []LeaseInv
BY LeaseInvInit, LeaseInvNext, PTL DEF Spec

(* The variables of the lease keep their types, whatever the jobs do. *)
THEOREM LeaseTypeCorrect == Spec => []LeaseTypeOK
<1>1. LeaseInv => LeaseTypeOK
  BY DEF LeaseInv
<1> QED
  BY <1>1, LeaseInvariant, PTL

(* No slot and no target entry outlives or precedes the coroutine that is   *)
(* inside its write, for any number of jobs, targets and cancellations.     *)
THEOREM LeaseNeverLeaks == Spec => []NoLeakedLease
<1>1. LeaseInv => NoLeakedLease
  BY DEF LeaseInv
<1> QED
  BY <1>1, LeaseInvariant, PTL

(* Two coroutines are never inside their write of the same target together. *)
THEOREM LeaseExclusive == Spec => []OneHolderPerTarget
<1>1. LeaseInv => OneHolderPerTarget
  BY DEF LeaseInv, GoalKnown, NoLeakedLease, OneHolderPerTarget, Holding
<1> QED
  BY <1>1, LeaseInvariant, PTL

(* At most Limit coroutines are inside a write at once. *)
THEOREM LeaseBounded == Spec => []SlotsBounded
<1>1. LeaseInv => SlotsBounded
  BY DEF LeaseInv, NoLeakedLease, SlotsCounted, SlotsBounded
<1> QED
  BY <1>1, LeaseInvariant, PTL
-----------------------------------------------------------------------------
(* Under the invariant the coroutine inside the write of t is the owner the *)
(* target map names.                                                        *)
LEMMA HolderIsOwner ==
    ASSUME LeaseInv, NEW t \in Targets
    PROVE  HolderOf(t) = activeTargets[t]
<1>1. \A j \in Jobs : activeTargets[t] = j <=> (j \in Holding /\ goal[j] = t)
  BY DEF LeaseInv, NoLeakedLease
<1>2. activeTargets[t] \in Jobs \cup {NoJob}
  BY DEF LeaseInv, LeaseTypeOK
<1>3. Holding \subseteq Jobs
  BY DEF Holding
<1> QED
  BY <1>1, <1>2, <1>3, NoJobAssumption DEF HolderOf

holderMap == [t \in Targets |-> HolderOf(t)]

(* The holders of the abstract specification are the target map. *)
LEMMA HolderMapIsTargets == LeaseInv => holderMap = activeTargets
BY HolderIsOwner DEF holderMap, LeaseInv, LeaseTypeOK

(* The same after a step. *)
LEMMA HolderMapIsTargetsNext == (LeaseInv => holderMap = activeTargets)'
<1>1. LeaseInv => holderMap = activeTargets
  BY HolderMapIsTargets
<1> QED
  BY <1>1, PTL

(* The abstract module counts with its own instance of Cardinality. *)
LEMMA SameCardinality ==
    ASSUME NEW S PROVE Abstract!Cardinality(S) = Cardinality(S)
BY DEF Abstract!Cardinality, Cardinality

(* The jobs that hold a target in the abstract state are the active jobs. *)
LEMMA AbstractHolders == LeaseInv => Abstract!Holders = activeJobs
<1> SUFFICES ASSUME LeaseInv PROVE Abstract!Holders = activeJobs
  OBVIOUS
<1>1. holderMap = activeTargets
  BY HolderMapIsTargets
<1>2. Abstract!Holders = {j \in Jobs : \E t \in Targets : activeTargets[t] = j}
  BY <1>1 DEF Abstract!Holders, holderMap
<1> QED
  BY <1>2 DEF LeaseInv, NoLeakedLease, GoalKnown, Holding

(* A grant is an abstract Take, a release an abstract Give, the rest stutters. *)
LEMMA LeaseStepRefines ==
    LeaseInv /\ LeaseInv' /\ [Next]_vars => [Abstract!Next]_(holderMap)
<1> SUFFICES ASSUME LeaseInv, LeaseInv', [Next]_vars
             PROVE  Abstract!Next \/ holderMap' = holderMap
  OBVIOUS
<1>1. holderMap = activeTargets /\ holderMap' = activeTargets'
  BY HolderMapIsTargets, HolderMapIsTargetsNext
<1>2. ASSUME NEW j \in Jobs, Grant(j) PROVE Abstract!Next
  <2>1. goal[j] \in Targets /\ j \notin activeJobs
    BY <1>2 DEF Grant, LeaseInv, GoalKnown, NoLeakedLease, Holding
  <2>2. activeTargets[goal[j]] = NoJob /\ Cardinality(activeJobs) < Limit
    BY <1>2, <2>1 DEF Grant, CanGrant, LeaseInv, NoLeakedLease
  <2>3. holderMap' = [holderMap EXCEPT ![goal[j]] = j]
    BY <1>1, <1>2 DEF Grant, Acquired
  <2>4. Abstract!Take(j, goal[j])
    BY <1>1, <2>1, <2>2, <2>3, AbstractHolders, SameCardinality
         DEF Abstract!Take, holderMap
  <2>5. \E k \in Jobs, t \in Targets : Abstract!Take(k, t)
    BY <2>1, <2>4, Zenon
  <2> QED
    BY <2>5, Zenon DEF Abstract!Next
<1>3. ASSUME NEW j \in Jobs, phase[j] = "holding", Released(j, goal[j])
      PROVE  Abstract!Next
  <2>1. goal[j] \in Targets /\ activeTargets[goal[j]] = j
    BY <1>3 DEF LeaseInv, GoalKnown, NoLeakedLease, Holding
  <2>2. holderMap' = [holderMap EXCEPT ![goal[j]] = NoJob]
    BY <1>1, <1>3, <2>1 DEF Released, TargetsAfterRelease
  <2>3. Abstract!Give(goal[j])
    BY <1>1, <2>1, <2>2, NoJobAssumption DEF Abstract!Give, holderMap
  <2>4. \E t \in Targets : Abstract!Give(t)
    BY <2>1, <2>3, Zenon
  <2> QED
    BY <2>4, Zenon DEF Abstract!Next
<1>4. CASE activeTargets' = activeTargets
  BY <1>1, <1>4
<1>5. CASE \E j \in Jobs : Return(j) \/ Abandon(j)
  BY <1>3, <1>5 DEF Return, Abandon
<1>6. CASE \E j \in Jobs : Grant(j)
  BY <1>2, <1>6
<1> QED
  BY <1>4, <1>5, <1>6 DEF Next, Request, GiveUp, Cancel, Land, vars

(* Whatever the number of jobs, targets and slots, the lease behaves as the *)
(* documented single-flight rule when the coroutines that wait for a write  *)
(* are what is counted.                                                     *)
THEOREM LeaseImplementsSingleFlight == Spec => ImplementsSingleFlight
<1>1. Init => Abstract!Init
  <2> SUFFICES ASSUME Init PROVE holderMap = [t \in Targets |-> NoJob]
    BY DEF Abstract!Init, holderMap
  <2> QED
    BY LeaseInvInit, HolderMapIsTargets DEF Init, LeaseInit
<1>2. LeaseInv /\ LeaseInv' /\ [Next]_vars
        => [Abstract!Next]_([t \in Targets |-> HolderOf(t)])
  BY LeaseStepRefines DEF holderMap
<1> QED
  BY <1>1, <1>2, LeaseInvariant, PTL DEF Spec, ImplementsSingleFlight, Abstract!Spec
=============================================================================
