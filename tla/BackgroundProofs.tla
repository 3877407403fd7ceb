--------------------------- MODULE BackgroundProofs ---------------------------
(***************************************************************************)
(* Proofs about what runs beside the jobs: the bounded execution of a       *)
(* stage, and the bulkheads.                                                *)
(***************************************************************************)
EXTENDS RunWithHeartbeat, RuntimeResilience,
        SequenceTheorems, FiniteSetTheorems, WellFoundedInduction, TLAPS

-----------------------------------------------------------------------------
(* RunWithHeartbeat, for every deadline, heartbeat interval, sink bound     *)
(* and grace. Two timetables, one counted from the start of the stage and   *)
(* one from the moment of the cancel event, say for each place of the       *)
(* coroutine when its present wait ends at the latest.                      *)

(* What StageTypeOK does not say: waits lie ahead, only a stage with a sink      *)
(* sends heartbeats, and a stage that is over told its operation.           *)
Consistent ==
    /\ pc \in {"wait", "beat", "beatCleanup", "cleanup"} => now <= until
    /\ pc \in {"beat", "beatCleanup"} => par.sink # 0
    /\ stop # Never => stop <= now
    /\ pc \in {"cleanup", "out"} => op # "running"

BeatBound == IF par.sink = 0 THEN 0 ELSE Least(par.beat, par.sink)

(* When each place of the coroutine is left, counted from the start. *)
DeadlineTable ==
    /\ pc = "head" => now <= par.timeout + BeatCost
    /\ pc = "wait" => /\ until <= par.timeout
                      /\ par.sink # 0 =>
                           until + Least(par.sink, left) <= par.timeout + BeatBound
    /\ pc = "beat" => until <= par.timeout + BeatBound
    /\ pc = "beatCleanup" => until <= par.timeout + BeatCost
    /\ pc = "cleanup" => until <= par.timeout + BeatCost + par.grace
    /\ pc = "out" => now <= par.timeout + BeatCost + par.grace

(* The same from a moment s on, when the coroutine is told to stop at s.    *)
LatestAfter(s) ==
    /\ pc = "head" => now <= s + par.beat + par.sink + par.grace
    /\ pc = "wait" => until <= s + par.beat
    /\ pc = "beat" => until <= s + par.beat + par.sink
    /\ pc = "beatCleanup" => until <= s + par.beat + par.sink + par.grace
    /\ pc = "cleanup" => until <= s + par.beat + par.sink + par.grace + par.grace
    /\ pc = "out" => now <= s + par.beat + par.sink + par.grace + par.grace

\* Before the cancel event, the table holds from now on.
CancelTable ==
    IF stop = Never THEN pc # "out" => LatestAfter(now) ELSE LatestAfter(stop)

StageInv == StageTypeOK /\ Consistent /\ DeadlineTable /\ CancelTable

-----------------------------------------------------------------------------
(* The smaller of two durations. *)
LEMMA LeastBounds ==
    ASSUME NEW a \in Nat, NEW b \in Nat
    PROVE  Least(a, b) \in Nat /\ Least(a, b) <= a /\ Least(a, b) <= b
BY DEF Least

(* One wait of the loop and the heartbeat after it overrun the time that    *)
(* was left by the smaller of the two intervals at most.                    *)
LEMMA BeatOverrun ==
    ASSUME NEW b \in Nat, NEW k \in Nat, NEW l \in Nat
    PROVE  Least(b, l) + Least(k, l) <= l + Least(b, k)
BY DEF Least

(* The clamps of the code leave arguments the loop can work with. *)
LEMMA ClampedArguments == StageInit => Arguments
<1> SUFFICES ASSUME StageInit PROVE Arguments
  OBVIOUS
<1>1. PICK r \in Requests : par = Clamped(r)
  BY DEF StageInit
<1>2. /\ r.timeout \in Nat \ {0} /\ r.beat \in Nat
      /\ r.sink \in Nat /\ r.grace \in Nat
  BY RequestsAssumption
<1> QED
  BY <1>1, <1>2 DEF Arguments, Clamped, AtLeastOne, Least

(* A stage begins within both timetables. *)
LEMMA StageInvInit == StageInit => StageInv
<1> SUFFICES ASSUME StageInit PROVE StageInv
  OBVIOUS
<1>1. StageTypeOK
  BY ClampedArguments DEF StageInit, StageTypeOK
<1>2. Consistent
  BY DEF StageInit, Consistent
<1>3. DeadlineTable /\ CancelTable
  BY <1>1 DEF StageInit, DeadlineTable, CancelTable, LatestAfter, BeatCost, Least,
              StageTypeOK, Arguments, Never
<1> QED
  BY <1>1, <1>2, <1>3 DEF StageInv

(* Every step keeps to both timetables. *)
LEMMA StageInvNext == StageInv /\ [StageNext]_stageVars => StageInv'
<1> SUFFICES ASSUME StageInv, [StageNext]_stageVars PROVE StageInv'
  OBVIOUS
<1> USE DEF StageInv
<1>t. /\ par.timeout \in Nat \ {0} /\ par.beat \in Nat \ {0}
      /\ par.sink \in Nat /\ par.grace \in Nat
      /\ now \in Nat /\ until \in Nat /\ left \in Nat
      /\ stop \in Nat \cup {Never} /\ Never \notin Nat
  BY DEF StageTypeOK, Arguments, Never
<1>b. /\ BeatBound \in Nat /\ BeatCost = IF par.sink = 0 THEN 0 ELSE BeatBound + par.grace
      /\ BeatBound <= par.beat /\ BeatBound <= par.sink
      /\ BeatCost \in Nat /\ (par.sink # 0 => BeatBound <= BeatCost)
  BY <1>t DEF BeatBound, BeatCost, Least
<1>c. par' = par => BeatBound' = BeatBound /\ BeatCost' = BeatCost
  BY DEF BeatBound, BeatCost
<1>d. pc \in {"head", "wait", "beat", "beatCleanup"} => now <= par.timeout + BeatCost
  BY <1>t, <1>b DEF Consistent, DeadlineTable
<1>1. ASSUME LoopHead PROVE StageInv'
  <2>1. CASE now < par.timeout /\ stop = Never /\ left' = par.timeout - now
             /\ Wait("wait", Least(par.beat, par.timeout - now))
             /\ UNCHANGED <<op, outcome, par, now, sink, stop>>
    <3>1. left' \in Nat /\ until' = now + Least(par.beat, left') /\ pc' = "wait"
      BY <1>t, <2>1 DEF Wait
    <3>2. Least(par.beat, left') \in Nat /\ Least(par.beat, left') <= par.beat
          /\ Least(par.beat, left') <= left'
      BY <1>t, <3>1, LeastBounds
    <3>3. Least(par.beat, left') + Least(par.sink, left')
             <= left' + Least(par.beat, par.sink)
      BY <1>t, <3>1, BeatOverrun
    <3>4. Least(par.sink, left') \in Nat
      BY <1>t, <3>1, LeastBounds
    <3>5. StageTypeOK' /\ Consistent'
      BY <1>1, <1>t, <2>1, <3>1, <3>2 DEF LoopHead, StageTypeOK, Arguments, Consistent
    <3>6. DeadlineTable'
      <4>1. until' <= par.timeout
        BY <1>t, <2>1, <3>1, <3>2
      <4>2. par.sink # 0 => until' + Least(par.sink, left') <= par.timeout + BeatBound
        <5>1. Least(par.beat, par.sink) \in Nat
          BY <1>t, LeastBounds
        <5> QED
          BY <1>t, <2>1, <3>1, <3>2, <3>3, <3>4, <5>1 DEF BeatBound
      <4>3. par' = par /\ pc' = "wait" /\ BeatBound' = BeatBound
        BY <1>c, <2>1, <3>1
      <4>4. par'.sink # 0 =>
               until' + Least(par'.sink, left') <= par'.timeout + BeatBound'
        BY <4>2, <4>3, Zenon
      <4>5. until' <= par'.timeout
        BY <4>1, <4>3
      <4> QED
        BY <4>3, <4>4, <4>5, Zenon DEF DeadlineTable
    <3>7. CancelTable'
      BY <1>t, <2>1, <3>1, <3>2 DEF CancelTable, LatestAfter
    <3> QED
      BY <3>5, <3>6, <3>7
  <2>2. CASE \E how \in {"cancelled", "timeout"} :
               Leave(how) /\ UNCHANGED <<left, par, now, sink, stop>>
             /\ (stop = Never => now >= par.timeout)
    <3>1. StageTypeOK' /\ Consistent'
      BY <1>1, <1>t, <2>2 DEF LoopHead, Leave, Wait, StageTypeOK, Arguments, Consistent
    <3>2. DeadlineTable'
      BY <1>1, <1>t, <1>b, <1>c, <2>2 DEF LoopHead, Leave, Wait, DeadlineTable
    <3>3. CancelTable'
      BY <1>1, <1>t, <2>2 DEF LoopHead, Leave, Wait, CancelTable, LatestAfter
    <3> QED
      BY <3>1, <3>2, <3>3
  <2> QED
    BY <1>1, <2>1, <2>2 DEF LoopHead
<1>2. ASSUME Returns PROVE StageInv'
  BY <1>2, <1>t, <1>b, <1>c
     DEF Returns, Leave, StageTypeOK, Arguments, Consistent, DeadlineTable, CancelTable,
         LatestAfter
<1>3. ASSUME Beat PROVE StageInv'
  <2>1. Least(par.sink, left) \in Nat /\ Least(par.sink, left) <= par.sink
    BY <1>t, LeastBounds
  <2>2. StageTypeOK' /\ Consistent'
    BY <1>3, <1>t, <2>1 DEF Beat, Wait, StageTypeOK, Arguments, Consistent
  <2>3. DeadlineTable'
    BY <1>3, <1>t, <1>b, <1>c, <2>1 DEF Beat, Wait, DeadlineTable
  <2>4. CancelTable'
    <3>1. par' = par /\ now' = now /\ stop' = stop /\ now = until /\ pc = "wait"
      BY <1>3 DEF Beat
    <3>2. stop # Never => now <= stop + par.beat
      BY <3>1 DEF CancelTable, LatestAfter
    <3>3. CASE par.sink = 0
      BY <1>3, <1>t, <3>1, <3>2, <3>3 DEF Beat, CancelTable, LatestAfter
    <3>4. CASE par.sink # 0
      BY <1>3, <1>t, <2>1, <3>1, <3>2, <3>4 DEF Beat, Wait, CancelTable, LatestAfter
    <3> QED
      BY <3>3, <3>4
  <2> QED
    BY <2>2, <2>3, <2>4
<1>4. ASSUME BeatAnswered \/ BeatAbandoned PROVE StageInv'
  <2>1. StageTypeOK' /\ Consistent'
    BY <1>4 DEF BeatAnswered, BeatAbandoned, StageTypeOK, Arguments, Consistent
  <2>2. DeadlineTable'
    BY <1>4, <1>t, <1>b, <1>c
       DEF BeatAnswered, BeatAbandoned, Consistent, DeadlineTable
  <2>3. CancelTable'
    BY <1>4, <1>t
       DEF BeatAnswered, BeatAbandoned, Consistent, CancelTable, LatestAfter
  <2> QED
    BY <2>1, <2>2, <2>3
<1>5. ASSUME BeatTooSlow PROVE StageInv'
  <2>1. StageTypeOK' /\ Consistent'
    BY <1>5, <1>t DEF BeatTooSlow, Wait, StageTypeOK, Arguments, Consistent
  <2>2. DeadlineTable'
    BY <1>5, <1>t, <1>b, <1>c DEF BeatTooSlow, Wait, Consistent, DeadlineTable
  <2>3. CancelTable'
    BY <1>5, <1>t DEF BeatTooSlow, Wait, CancelTable, LatestAfter
  <2> QED
    BY <2>1, <2>2, <2>3
<1>6. ASSUME CleanupEnds PROVE StageInv'
  BY <1>6, <1>t, <1>b, <1>c
     DEF CleanupEnds, StageTypeOK, Arguments, Consistent, DeadlineTable, CancelTable,
         LatestAfter
<1>7. ASSUME Killed PROVE StageInv'
  <2>1. StageTypeOK' /\ Consistent'
    BY <1>7, <1>t DEF Killed, Leave, Wait, StageTypeOK, Arguments, Consistent
  <2>2. DeadlineTable'
    <3>1. par' = par /\ now' = now /\ BeatCost' = BeatCost
      BY <1>7, <1>c DEF Killed
    <3>2. CASE pc = "cleanup" /\ pc' = "out"
      BY <1>t, <1>b, <3>1, <3>2 DEF Consistent, DeadlineTable
    <3>3. CASE pc \in {"wait", "beat", "beatCleanup"} /\ Leave("cancelled")
      BY <1>t, <1>b, <1>d, <3>1, <3>3 DEF Leave, Wait, DeadlineTable
    <3> QED
      BY <1>7, <3>2, <3>3 DEF Killed
  <2>3. CancelTable'
    BY <1>7, <1>t DEF Killed, Leave, Wait, Consistent, CancelTable, LatestAfter
  <2> QED
    BY <2>1, <2>2, <2>3
<1>8. ASSUME OperationEnds \/ SinkEnds PROVE StageInv'
  <2>1. UNCHANGED <<par, now, pc, until, left, stop, outcome>>
    BY <1>8 DEF OperationEnds, SinkEnds
  <2>2. StageTypeOK' /\ Consistent'
    BY <1>8 DEF OperationEnds, SinkEnds, StageTypeOK, Arguments, Consistent
  <2> QED
    BY <1>c, <2>1, <2>2 DEF DeadlineTable, CancelTable, LatestAfter
<1>9. ASSUME SetCancelEvent PROVE StageInv'
  <2>1. StageTypeOK' /\ Consistent'
    BY <1>9, <1>t DEF SetCancelEvent, StageTypeOK, Arguments, Consistent
  <2>2. DeadlineTable'
    BY <1>9, <1>c DEF SetCancelEvent, DeadlineTable
  <2>3. CancelTable'
    BY <1>9, <1>t DEF SetCancelEvent, CancelTable, LatestAfter
  <2> QED
    BY <2>1, <2>2, <2>3
<1>10. ASSUME Tick PROVE StageInv'
  <2>1. StageTypeOK' /\ Consistent'
    BY <1>10, <1>t DEF Tick, Waiting, StageTypeOK, Arguments, Consistent
  <2>2. DeadlineTable'
    BY <1>10, <1>c DEF Tick, Waiting, DeadlineTable
  <2>3. CancelTable'
    BY <1>10, <1>t DEF Tick, Waiting, CancelTable, LatestAfter
  <2> QED
    BY <2>1, <2>2, <2>3
<1>11. CASE UNCHANGED stageVars
  BY <1>11, <1>c
     DEF stageVars, StageTypeOK, Arguments, Consistent, DeadlineTable, CancelTable, LatestAfter
<1> QED
  BY <1>1, <1>2, <1>3, <1>4, <1>5, <1>6, <1>7, <1>8, <1>9, <1>10, <1>11
     DEF StageNext, Supervise

(* Both timetables are kept by every stage. *)
THEOREM StageInvariant == StageSpec => []StageInv
BY StageInvInit, StageInvNext, PTL DEF StageSpec

(* The variables of a stage keep their types. *)
THEOREM StageTypeCorrect == StageSpec => []StageTypeOK
<1>1. StageInv => StageTypeOK
  BY DEF StageInv
<1> QED
  BY <1>1, StageInvariant, PTL

(* No combination of durations, and nothing that the operation, the sink or *)
(* the operator does, lets a stage outlive its deadline by more than one    *)
(* heartbeat and one cleanup, or its cancel event by more than one interval,*)
(* one heartbeat and two cleanups.                                          *)
THEOREM StageWaitsBounded == StageSpec => []WaitsAreBounded
<1>1. StageInv => DeadlineHolds
  <2> SUFFICES ASSUME StageInv PROVE DeadlineHolds
    OBVIOUS
  <2>1. /\ par.timeout \in Nat /\ par.beat \in Nat /\ par.sink \in Nat
        /\ par.grace \in Nat /\ now \in Nat /\ until \in Nat
    BY DEF StageInv, StageTypeOK, Arguments
  <2>2. BeatBound \in Nat /\ BeatCost = IF par.sink = 0 THEN 0 ELSE BeatBound + par.grace
    BY <2>1, LeastBounds DEF BeatBound, BeatCost
  <2> QED
    BY <2>1, <2>2
       DEF StageInv, StageTypeOK, Consistent, DeadlineTable, DeadlineHolds
<1>2. StageInv => CancelIsPrompt
  BY DEF StageInv, StageTypeOK, Arguments, Never, Consistent, CancelTable, LatestAfter,
         CancelIsPrompt
<1>3. StageInv => WaitsAreBounded
  BY <1>1, <1>2 DEF WaitsAreBounded
<1> QED
  BY <1>3, StageInvariant, PTL

(* A stage that is over has no operation that was not told to stop. *)
THEOREM StageSettlesOperation == StageSpec => []NoOperationLeftRunning
<1>1. StageInv => NoOperationLeftRunning
  BY DEF StageInv, Consistent, NoOperationLeftRunning
<1> QED
  BY <1>1, StageInvariant, PTL

-----------------------------------------------------------------------------
(* RuntimeResilience, for all visitors and every limit. Nobody waits        *)
(* twice, so as many waiters get a permit as are woken, and a task that     *)
(* wakes the others leaves no permit free while one of them could have      *)
(* it.                                                                      *)

(* Sets of numbers have a first one, and those below a bound a last one.    *)
LEMMA LeastNat ==
    ASSUME NEW T, T \subseteq Nat, T # {}
    PROVE  \E x \in T : \A y \in T : x <= y
<1> DEFINE R == OpToRel(<, Nat)
<1>1. IsWellFoundedOn(R, Nat)
  BY NatLessThanWellFounded
<1>2. \A x, y \in Nat : x < y => <<x, y>> \in R
  BY DEF OpToRel
<1> HIDE DEF R
<1>3. PICK x \in T : \A y \in T : ~(<<y, x>> \in R)
  BY <1>1, WFMin
<1>4. ASSUME NEW y \in T  PROVE x <= y
  <2>1. x \in Nat /\ y \in Nat /\ ~(y < x)
    BY <1>2, <1>3
  <2> QED  BY <2>1
<1> QED  BY <1>4

(* The first place of a set of places is one of it.                         *)
LEMMA FirstPlace ==
    ASSUME NEW n \in Nat, NEW S \in SUBSET (1 .. n), S # {}
    PROVE  Min(S) \in S
<1>1. S \subseteq Nat
  OBVIOUS
<1>2. \E x \in S : \A y \in S : x <= y
  BY <1>1, LeastNat
<1> QED  BY <1>2 DEF Min

(* A set of places has a last one.                                          *)
LEMMA LastPlace ==
    ASSUME NEW n \in Nat, NEW S \in SUBSET (1 .. n), S # {}
    PROVE  \E x \in S : \A y \in S : y <= x
<1> DEFINE T == {n - x : x \in S}
<1>1. T \subseteq Nat /\ T # {}
  <2>1. ASSUME NEW x \in S  PROVE n - x \in Nat
    <3>1. x \in 1 .. n
      OBVIOUS
    <3> QED  BY <3>1
  <2>2. T \subseteq Nat
    BY <2>1
  <2>3. PICK x : x \in S
    OBVIOUS
  <2>4. n - x \in T
    BY <2>3
  <2> QED  BY <2>2, <2>4
<1>2. PICK z \in T : \A y \in T : z <= y
  BY <1>1, LeastNat
<1>3. PICK x \in S : z = n - x
  OBVIOUS
<1>4. ASSUME NEW y \in S  PROVE y <= x
  <2>1. n - y \in T
    OBVIOUS
  <2>2. n - x <= n - y /\ x \in 1 .. n /\ y \in 1 .. n
    BY <1>2, <1>3, <2>1
  <2> QED  BY <2>2
<1> QED  BY <1>4

(* The first n places are n of them, or all.                                *)
LEMMA FirstOfCounted ==
    ASSUME NEW L \in Nat, NEW S \in SUBSET (1 .. L), NEW n \in Nat
    PROVE  /\ FirstOf(n, S) \subseteq S /\ IsFiniteSet(FirstOf(n, S))
           /\ Cardinality(FirstOf(n, S)) \in 0 .. n
           /\ Cardinality(FirstOf(n, S)) < n => FirstOf(n, S) = S
<1> DEFINE W == FirstOf(n, S)
           Below(i) == {j \in S : j < i}
<1>1. IsFiniteSet(S)
  <2>1. IsFiniteSet(1 .. L)
    BY FS_Interval
  <2> QED  BY <2>1, FS_Subset
<1>2. W \subseteq S /\ IsFiniteSet(W) /\ Cardinality(W) \in Nat
  <2>1. W \subseteq S
    BY DEF FirstOf
  <2> QED  BY <1>1, <2>1, FS_Subset, FS_CardinalityType
<1>3. \A i \in S : /\ IsFiniteSet(Below(i)) /\ Cardinality(Below(i)) \in Nat
                   /\ i \in W <=> Cardinality(Below(i)) < n
  <2>1. ASSUME NEW i \in S  PROVE IsFiniteSet(Below(i)) /\ Cardinality(Below(i)) \in Nat
    <3>1. Below(i) \subseteq S
      OBVIOUS
    <3> QED  BY <1>1, <3>1, FS_Subset, FS_CardinalityType
  <2> QED  BY <2>1 DEF FirstOf
<1> HIDE DEF W
<1>4. Cardinality(W) <= n
  <2>1. CASE W = {}
    BY <2>1, FS_EmptySet
  <2>2. CASE W # {}
    <3>1. W \in SUBSET (1 .. L)
      BY <1>2
    <3>2. PICK m \in W : \A y \in W : y <= m
      BY <2>2, <3>1, LastPlace
    <3>3. Cardinality(Below(m)) < n /\ IsFiniteSet(Below(m)) /\ Cardinality(Below(m)) \in Nat
      BY <1>2, <1>3, <3>2
    <3>4. W \subseteq Below(m) \cup {m}
      <4>1. ASSUME NEW y \in W, y # m  PROVE y \in Below(m)
        BY <1>2, <3>2, <4>1
      <4> QED  BY <4>1
    <3> DEFINE B == Below(m)
    <3> HIDE DEF B
    <3>5. IsFiniteSet(B \cup {m}) /\ Cardinality(B \cup {m}) <= Cardinality(B) + 1
      BY <3>3, FS_AddElement DEF B
    <3>6. Cardinality(W) <= Cardinality(B \cup {m})
      BY <3>4, <3>5, FS_Subset DEF B
    <3>7. Cardinality(B \cup {m}) \in Nat /\ Cardinality(B) \in Nat /\ Cardinality(B) < n
      BY <3>3, <3>5, FS_CardinalityType DEF B
    <3> QED  BY <1>2, <3>5, <3>6, <3>7
  <2> QED  BY <2>1, <2>2
<1>5. ASSUME W # S  PROVE n <= Cardinality(W)
  <2>0. S \subseteq Nat
    OBVIOUS
  <2>1. S \ W # {} /\ S \ W \subseteq Nat
    BY <1>2, <1>5, <2>0
  <2>2. PICK m \in S \ W : \A y \in S \ W : m <= y
    BY <2>1, LeastNat
  <2>3. ~(Cardinality(Below(m)) < n) /\ Cardinality(Below(m)) \in Nat
    BY <1>3, <2>2
  <2>4. Below(m) \subseteq W
    <3>1. ASSUME NEW y \in S, y < m, y \notin W  PROVE FALSE
      <4>1. m <= y /\ m \in Nat /\ y \in Nat
        BY <2>1, <2>2, <3>1
      <4> QED  BY <3>1, <4>1
    <3> QED  BY <3>1
  <2>5. Cardinality(Below(m)) <= Cardinality(W)
    BY <1>2, <2>4, FS_Subset
  <2> QED  BY <1>2, <2>3, <2>5
<1> QED  BY <1>2, <1>4, <1>5 DEF W

-----------------------------------------------------------------------------
(* Nobody waits twice.                                                      *)
Once(q) == q \in Seq(Visitors) /\ \A i, j \in DOMAIN q : q[i] = q[j] => i = j

(* The inductive invariant of the bulkhead.                                 *)
SlotInv ==
    /\ permits \in Nat /\ Once(queue)
    /\ handed \subseteq Queued /\ leaving \subseteq Queued /\ inside \subseteq Visitors \ Queued
    /\ IsFiniteSet(handed) /\ IsFiniteSet(inside)
    /\ PermitsAddUp /\ NoPermitIdles

(* The queue without one of it.                                             *)
LEMMA WithoutOne ==
    ASSUME Once(queue), NEW r \in Queued
    PROVE  Once(Without(r)) /\ Range(Without(r)) = Queued \ {r}
<1> DEFINE p == CHOOSE i \in DOMAIN queue : queue[i] = r
           n == Len(queue)
           a == SubSeq(queue, 1, p - 1)
           b == SubSeq(queue, p + 1, n)
           q == Without(r)
<1>1. \E i \in DOMAIN queue : queue[i] = r
  BY DEF Queued, Range
<1>2. p \in DOMAIN queue /\ queue[p] = r
  BY <1>1
<1> HIDE DEF p
<1>3. queue \in Seq(Visitors) /\ DOMAIN queue = 1 .. n /\ n \in Nat /\ p \in 1 .. n
  BY <1>2 DEF Once
<1>4. q = a \o b
  BY DEF Without, RemoveAt, p
<1>5. a \in Seq(Visitors) /\ Len(a) = p - 1 /\ \A i \in 1 .. p - 1 : a[i] = queue[i]
  BY <1>3
<1>6. b \in Seq(Visitors) /\ Len(b) = n - p /\ \A i \in 1 .. n - p : b[i] = queue[p + i]
  <2> DEFINE k == p + 1
  <2>0. n \in Nat /\ p \in 1 .. n
    BY <1>3
  <2>1. /\ k \in Int /\ n \in Int /\ n - k + 1 = n - p
        /\ k <= n \/ n - p = 0
    <3> HIDE DEF n
    <3> QED  BY <2>0
  <2>2. \A i \in 1 .. n - p : k + i - 1 = p + i
    BY <1>3
  <2>3. \A i \in k .. n : queue[i] \in Visitors
    BY <1>3
  <2>4. b = SubSeq(queue, k, n)
    OBVIOUS
  <2> HIDE DEF k, b, n
  <2>5. /\ b \in Seq(Visitors) /\ Len(b) = (IF k <= n THEN n - k + 1 ELSE 0)
        /\ \A i \in 1 .. n - k + 1 : b[i] = queue[k + i - 1]
    BY <2>1, <2>3, <2>4, SubSeqProperties
  <2>6. Len(b) = n - p
    BY <2>0, <2>1, <2>5
  <2> QED  BY <2>1, <2>2, <2>5, <2>6
<1> HIDE DEF a, b, q, n
<1>7. q \in Seq(Visitors) /\ Len(q) = n - 1
  <2>1. q \in Seq(Visitors) /\ Len(q) = Len(a) + Len(b)
    BY <1>4, <1>5, <1>6, ConcatProperties
  <2> QED  BY <1>3, <1>5, <1>6, <2>1
<1>8. \A i \in 1 .. n - 1 : q[i] = IF i < p THEN queue[i] ELSE queue[i + 1]
  <2>1. ASSUME NEW i \in 1 .. n - 1, i < p  PROVE q[i] = queue[i]
    <3>1. i \in 1 .. p - 1
      BY <1>3, <2>1
    <3>2. q[i] = a[i]
      BY <1>4, <1>5, <1>6, <3>1
    <3> QED  BY <1>5, <3>1, <3>2
  <2>2. ASSUME NEW i \in 1 .. n - 1, ~(i < p)  PROVE q[i] = queue[i + 1]
    <3>1. i - (p - 1) \in 1 .. n - p /\ p + (i - (p - 1)) = i + 1
      BY <1>3, <2>2
    <3>2. q[i] = b[i - (p - 1)]
      <4>1. i \in 1 .. Len(a) + Len(b) /\ ~(i <= Len(a))
        BY <1>3, <1>5, <1>6, <2>2
      <4> QED  BY <1>4, <1>5, <1>6, <4>1
    <3> QED  BY <1>6, <3>1, <3>2
  <2> QED  BY <2>1, <2>2
<1>9. ASSUME NEW i \in 1 .. n - 1
      PROVE  \E k \in 1 .. n : k # p /\ q[i] = queue[k] /\ k = (IF i < p THEN i ELSE i + 1)
  <2> DEFINE k == IF i < p THEN i ELSE i + 1
  <2>1. k \in 1 .. n /\ k # p
    BY <1>3
  <2> QED  BY <1>8, <2>1
<1>10. Once(q)
  <2>1. ASSUME NEW i \in 1 .. n - 1, NEW j \in 1 .. n - 1, q[i] = q[j]  PROVE i = j
    <3>1. PICK k \in 1 .. n : k # p /\ q[i] = queue[k] /\ k = (IF i < p THEN i ELSE i + 1)
      BY <1>9
    <3>2. PICK l \in 1 .. n : l # p /\ q[j] = queue[l] /\ l = (IF j < p THEN j ELSE j + 1)
      BY <1>9
    <3>3. k = l
      BY <1>3, <2>1, <3>1, <3>2 DEF Once
    <3> QED  BY <1>3, <3>1, <3>2, <3>3
  <2>2. DOMAIN q = 1 .. n - 1
    BY <1>7
  <2> QED  BY <1>7, <2>1, <2>2 DEF Once
<1>11. Range(q) = Queued \ {r}
  <2>1. DOMAIN q = 1 .. n - 1
    BY <1>7
  <2>2. ASSUME NEW i \in 1 .. n - 1  PROVE q[i] \in Queued /\ q[i] # r
    <3>1. PICK k \in 1 .. n : k # p /\ q[i] = queue[k]
      BY <1>9
    <3>2. queue[k] # r
      BY <1>2, <1>3, <3>1 DEF Once
    <3> QED  BY <1>3, <3>1, <3>2 DEF Queued, Range
  <2>3. ASSUME NEW k \in 1 .. n, queue[k] # r  PROVE \E i \in 1 .. n - 1 : q[i] = queue[k]
    <3>1. CASE k < p
      <4>1. k \in 1 .. n - 1
        BY <1>3, <3>1
      <4> QED  BY <1>8, <3>1, <4>1
    <3>2. CASE ~(k < p)
      <4>1. k # p
        BY <1>2, <2>3
      <4>2. k - 1 \in 1 .. n - 1 /\ ~(k - 1 < p) /\ (k - 1) + 1 = k
        BY <1>3, <3>2, <4>1
      <4> QED  BY <1>8, <4>2
    <3> QED  BY <3>1, <3>2
  <2>4. Range(q) = {q[i] : i \in 1 .. n - 1} /\ Queued = {queue[k] : k \in 1 .. n}
    BY <1>3, <2>1 DEF Queued, Range
  <2>5. Range(q) \subseteq Queued \ {r}
    BY <2>2, <2>4
  <2>6. Queued \ {r} \subseteq Range(q)
    BY <2>3, <2>4
  <2> QED  BY <2>5, <2>6
<1> QED  BY <1>10, <1>11 DEF q

(* Who is woken has the permits that are gone, and none is left while       *)
(* somebody could have it.                                                  *)
LEMMA WakesHandOut ==
    ASSUME NEW q, Once(q), NEW free \in Nat, NEW given, given \subseteq Range(q),
           IsFiniteSet(given), Wakes(q, free, given)
    PROVE  /\ permits' \in Nat /\ IsFiniteSet(handed')
           /\ given \subseteq handed' /\ handed' \subseteq Range(q)
           /\ permits' + Cardinality(handed') = free + Cardinality(given)
           /\ permits' > 0 => \A i \in DOMAIN q : q[i] \in handed' \cup leaving
<1> DEFINE open == Unserved(q, given)
           woken == FirstOf(free, open)
           waked == {q[i] : i \in woken}
<1>1. permits' = free - Cardinality(woken) /\ handed' = given \cup waked
  BY DEF Wakes
<1>2. DOMAIN q = 1 .. Len(q) /\ Len(q) \in Nat
  BY DEF Once
<1>3. open \in SUBSET (1 .. Len(q)) /\ \A i \in open : q[i] \notin given
  BY <1>2 DEF Unserved
<1> HIDE DEF open
<1>4. /\ woken \subseteq open /\ IsFiniteSet(woken) /\ Cardinality(woken) \in 0 .. free
      /\ Cardinality(woken) < free => woken = open
  BY <1>2, <1>3, FirstOfCounted
<1> HIDE DEF woken
<1>5. IsFiniteSet(waked) /\ Cardinality(waked) = Cardinality(woken)
  <2> DEFINE f == [i \in woken |-> q[i]]
  <2>1. f \in Surjection(woken, waked)
    BY DEF Surjection
  <2>2. f \in Injection(woken, waked)
    <3>1. f \in [woken -> waked]
      OBVIOUS
    <3>2. ASSUME NEW i \in woken, NEW j \in woken, f[i] = f[j]  PROVE i = j
      <4>1. q[i] = q[j] /\ i \in DOMAIN q /\ j \in DOMAIN q
        BY <1>2, <1>3, <1>4, <3>2
      <4> QED  BY <4>1 DEF Once
    <3> HIDE DEF f, waked
    <3> QED  BY <3>1, <3>2 DEF Injection, IsInjective
  <2> HIDE DEF f, waked
  <2> QED  BY <1>4, <2>1, <2>2, FS_Surjection
<1>6. given \cap waked = {}
  BY <1>3, <1>4
<1>7. waked \subseteq Range(q)
  BY <1>2, <1>3, <1>4 DEF Range
<1> HIDE DEF waked
<1>8. /\ IsFiniteSet(given \cup waked)
      /\ Cardinality(given \cup waked) = Cardinality(given) + Cardinality(waked)
  <2>1. /\ IsFiniteSet(given \cup waked)
        /\ Cardinality(given \cup waked)
             = Cardinality(given) + Cardinality(waked) - Cardinality(given \cap waked)
    BY <1>5, FS_Union
  <2>2. Cardinality(given \cap waked) = 0
    BY <1>6, FS_EmptySet
  <2>3. Cardinality(given) \in Nat /\ Cardinality(waked) \in Nat
    BY <1>5, FS_CardinalityType
  <2> QED  BY <2>1, <2>2, <2>3
<1>9. permits' > 0 => \A i \in DOMAIN q : q[i] \in handed' \cup leaving
  <2>1. SUFFICES ASSUME permits' > 0, NEW i \in DOMAIN q, q[i] \notin given \cup leaving
                 PROVE  q[i] \in handed'
    BY <1>1
  <2>2. woken = open
    BY <1>1, <1>4, <2>1
  <2>3. i \in open
    BY <2>1 DEF open, Unserved
  <2> QED  BY <1>1, <2>2, <2>3 DEF waked
<1>10. permits' \in Nat /\ permits' + Cardinality(handed') = free + Cardinality(given)
  <2>1. Cardinality(given) \in Nat
    BY FS_CardinalityType
  <2> QED  BY <1>1, <1>4, <1>5, <1>8, <2>1
<1> QED  BY <1>1, <1>7, <1>8, <1>9, <1>10

(* What the invariant says of the counts.                                   *)
LEMMA SlotsCounted ==
    ASSUME SlotInv
    PROVE  /\ Cardinality(handed) \in Nat /\ Cardinality(inside) \in Nat
           /\ permits + Cardinality(handed) + Cardinality(inside) = SlotLimit
           /\ SlotLimit \in Nat
BY FS_CardinalityType, SlotLimitAssumption DEF SlotInv, PermitsAddUp, InFlight

(* A visitor gets a permit at once, or waits behind the others.             *)
LEMMA ComeKeepsSlots ==
    ASSUME SlotInv, NEW r \in Visitors, Come(r)
    PROVE  SlotInv'
<1>1. r \notin Queued \cup inside /\ UNCHANGED <<handed, leaving>>
  BY DEF Come
<1>2. CASE ~Locked /\ permits' = permits - 1 /\ inside' = inside \cup {r} /\ UNCHANGED queue
  <2>1. permits # 0 /\ \A s \in Queued : s \in leaving /\ s \notin handed
    BY <1>2 DEF Locked
  <2>2. IsFiniteSet(inside') /\ Cardinality(inside') = Cardinality(inside) + 1
    BY <1>1, <1>2, FS_AddElement DEF SlotInv
  <2>3. permits' \in Nat /\ PermitsAddUp'
    <3>1. permits \in Nat
      BY DEF SlotInv
    <3> QED  BY <1>1, <1>2, <2>1, <2>2, <3>1, SlotsCounted DEF PermitsAddUp, InFlight
  <2>4. Queued' = Queued
    BY <1>2 DEF Queued
  <2>5. NoPermitIdles'
    <3>1. \A i \in DOMAIN queue : queue[i] \in leaving
      BY <2>1 DEF Queued, Range
    <3>2. (Unserved(queue, handed))' = {}
      BY <1>1, <1>2, <3>1 DEF Unserved
    <3> QED  BY <3>2 DEF NoPermitIdles
  <2> QED  BY <1>1, <1>2, <2>2, <2>3, <2>4, <2>5 DEF SlotInv
<1>3. CASE Locked /\ queue' = Append(queue, r) /\ UNCHANGED <<permits, inside>>
  <2> DEFINE n == Len(queue)
  <2>1. /\ queue \in Seq(Visitors) /\ DOMAIN queue = 1 .. n /\ n \in Nat
        /\ \A i \in 1 .. n : queue[i] # r
    BY <1>1 DEF SlotInv, Once, Queued, Range
  <2>2. /\ queue' \in Seq(Visitors) /\ DOMAIN queue' = 1 .. n + 1
        /\ queue'[n + 1] = r /\ \A i \in 1 .. n : queue'[i] = queue[i]
    BY <1>3, <2>1
  <2> HIDE DEF n
  <2>3. \A i \in 1 .. n + 1 : i \in 1 .. n \/ i = n + 1
    BY <2>1
  <2>4. Once(queue)'
    <3>1. ASSUME NEW i \in 1 .. n + 1, NEW j \in 1 .. n + 1, queue'[i] = queue'[j]  PROVE i = j
      BY <2>1, <2>2, <2>3, <3>1 DEF SlotInv, Once
    <3> QED  BY <2>2, <3>1 DEF Once
  <2>5. Queued' = Queued \cup {r}
    <3>1. /\ Queued = {queue[i] : i \in 1 .. n}
          /\ Queued' = {queue'[i] : i \in 1 .. n + 1}
      BY <2>1, <2>2 DEF Queued, Range
    <3>2. n + 1 \in 1 .. n + 1 /\ 1 .. n \subseteq 1 .. n + 1
      BY <2>1
    <3> QED  BY <2>2, <2>3, <3>1, <3>2
  <2>6. NoPermitIdles'
    <3>1. CASE permits = 0
      BY <1>3, <3>1 DEF NoPermitIdles
    <3>2. CASE permits # 0
      <4>1. PICK s \in Queued : s \notin leaving \/ s \in handed
        BY <1>3, <3>2 DEF Locked
      <4>2. CASE s \in handed
        BY <1>1, <4>2 DEF NoPermitIdles
      <4>3. CASE s \notin handed
        <5>1. PICK i \in DOMAIN queue : queue[i] = s
          BY DEF Queued, Range
        <5>2. Unserved(queue, handed) # {}
          BY <4>1, <4>3, <5>1 DEF Unserved
        <5>3. permits > 0
          BY <3>2 DEF SlotInv
        <5> QED  BY <1>1, <5>2, <5>3 DEF SlotInv, NoPermitIdles
      <4> QED  BY <4>2, <4>3
    <3> QED  BY <3>1, <3>2
  <2>7. PermitsAddUp'
    BY <1>1, <1>3 DEF SlotInv, PermitsAddUp, InFlight
  <2> QED  BY <1>1, <1>3, <2>4, <2>5, <2>6, <2>7 DEF SlotInv
<1> QED  BY <1>2, <1>3 DEF Come

(* A waiter leaves the queue, and wakes who is next.                        *)
LEMMA WaiterKeepsSlots ==
    ASSUME SlotInv, NEW r \in Queued, queue' = Without(r), NEW free \in Nat,
           Wakes(queue', free, handed \ {r}), leaving' = leaving \ {r} \/ leaving' = leaving,
           leaving' \subseteq Queued', inside' \subseteq Visitors \ Queued', IsFiniteSet(inside'),
           free + Cardinality(handed \ {r}) + Cardinality(inside') = SlotLimit
    PROVE  SlotInv'
<1>1. Once(queue') /\ Range(queue') = Queued \ {r}
  BY WithoutOne DEF SlotInv
<1>2. IsFiniteSet(handed \ {r}) /\ handed \ {r} \subseteq Range(queue')
  BY <1>1, FS_RemoveElement DEF SlotInv
<1>3. /\ permits' \in Nat /\ IsFiniteSet(handed') /\ handed' \subseteq Range(queue')
      /\ permits' + Cardinality(handed') = free + Cardinality(handed \ {r})
      /\ permits' > 0 => \A i \in DOMAIN queue' : queue'[i] \in handed' \cup leaving
  BY <1>1, <1>2, WakesHandOut
<1>4. Once(queue)' /\ handed' \subseteq Queued'
  BY <1>1, <1>3 DEF Once, Queued
<1>5. PermitsAddUp'
  <2>1. /\ Cardinality(handed \ {r}) \in Nat /\ Cardinality(handed') \in Nat
        /\ Cardinality(inside') \in Nat
    BY <1>2, <1>3, FS_CardinalityType
  <2> QED  BY <1>3, <2>1 DEF PermitsAddUp, InFlight
<1>6. NoPermitIdles'
  <2>1. \A i \in DOMAIN queue' : queue'[i] # r
    BY <1>1 DEF Range
  <2>2. ASSUME permits' > 0  PROVE (Unserved(queue, handed))' = {}
    BY <1>3, <2>1, <2>2 DEF Unserved
  <2> QED  BY <2>2 DEF NoPermitIdles
<1> QED  BY <1>3, <1>4, <1>5, <1>6 DEF SlotInv

(* A task runs with its permit.                                             *)
LEMMA AdmittedKeepsSlots ==
    ASSUME SlotInv, NEW r \in Visitors, Admitted(r)
    PROVE  SlotInv'
<1>1. /\ r \in Queued /\ r \in handed /\ r \notin leaving /\ queue' = Without(r)
      /\ inside' = inside \cup {r} /\ Wakes(queue', permits, handed \ {r}) /\ leaving' = leaving
  BY DEF Admitted
<1>2. Queued' = Queued \ {r}
  BY <1>1, WithoutOne DEF SlotInv, Queued
<1>3. IsFiniteSet(inside') /\ Cardinality(inside') = Cardinality(inside) + 1
  BY <1>1, FS_AddElement DEF SlotInv
<1>4. Cardinality(handed \ {r}) = Cardinality(handed) - 1
  BY <1>1, FS_RemoveElement DEF SlotInv
<1>5. permits \in Nat
  BY DEF SlotInv
<1>6. permits + Cardinality(handed \ {r}) + Cardinality(inside') = SlotLimit
  BY <1>3, <1>4, <1>5, SlotsCounted
<1>7. leaving' \subseteq Queued' /\ inside' \subseteq Visitors \ Queued'
  BY <1>1, <1>2 DEF SlotInv
<1> QED  BY <1>1, <1>3, <1>5, <1>6, <1>7, WaiterKeepsSlots

(* A cancelled task gives its permit back.                                  *)
LEMMA RejectedKeepsSlots ==
    ASSUME SlotInv, NEW r \in Visitors, Rejected(r)
    PROVE  SlotInv'
<1> DEFINE free == IF r \in handed THEN permits + 1 ELSE permits
<1>1. /\ r \in Queued /\ queue' = Without(r) /\ leaving' = leaving \ {r}
      /\ Wakes(queue', free, handed \ {r}) /\ inside' = inside
  BY DEF Rejected
<1>2. Queued' = Queued \ {r}
  BY <1>1, WithoutOne DEF SlotInv, Queued
<1>3. permits \in Nat /\ IsFiniteSet(handed) /\ IsFiniteSet(inside')
  BY <1>1 DEF SlotInv
<1>4. Cardinality(handed \ {r}) = IF r \in handed THEN Cardinality(handed) - 1
                                                  ELSE Cardinality(handed)
  BY <1>3, FS_RemoveElement
<1>5. free \in Nat /\ free + Cardinality(handed \ {r}) + Cardinality(inside') = SlotLimit
  BY <1>1, <1>3, <1>4, SlotsCounted
<1>6. leaving' \subseteq Queued' /\ inside' \subseteq Visitors \ Queued'
  BY <1>1, <1>2 DEF SlotInv
<1> HIDE DEF free
<1> QED  BY <1>1, <1>3, <1>5, <1>6, WaiterKeepsSlots

(* A body ends, and its permit goes to the first who waits for one.         *)
LEMMA DoneKeepsSlots ==
    ASSUME SlotInv, NEW r \in Visitors, Done(r)
    PROVE  SlotInv'
<1> DEFINE open == Unserved(queue, handed)
<1>1. r \in inside /\ inside' = inside \ {r} /\ UNCHANGED <<queue, leaving>>
  BY DEF Done
<1>2. IsFiniteSet(inside') /\ Cardinality(inside') = Cardinality(inside) - 1
  BY <1>1, FS_RemoveElement DEF SlotInv
<1>3. permits \in Nat /\ Queued' = Queued
  BY <1>1 DEF SlotInv, Queued
<1>4. CASE open = {} /\ permits' = permits + 1 /\ UNCHANGED handed
  <2>1. permits' \in Nat /\ PermitsAddUp'
    BY <1>2, <1>3, <1>4, SlotsCounted DEF PermitsAddUp, InFlight
  <2>2. (Unserved(queue, handed))' = {}
    BY <1>1, <1>4 DEF Unserved
  <2>3. NoPermitIdles'
    BY <2>2 DEF NoPermitIdles
  <2> QED  BY <1>1, <1>2, <1>3, <1>4, <2>1, <2>3 DEF SlotInv, Once
<1>5. CASE open # {} /\ handed' = handed \cup {queue[Min(open)]} /\ UNCHANGED permits
  <2> DEFINE s == queue[Min(open)]
  <2>1. open \in SUBSET (1 .. Len(queue)) /\ Len(queue) \in Nat /\ open \subseteq DOMAIN queue
    BY DEF Unserved, SlotInv, Once
  <2>2. Min(open) \in open
    <3> HIDE DEF open
    <3> QED  BY <1>5, <2>1, FirstPlace
  <2>3. s \in Queued /\ s \notin handed
    BY <2>1, <2>2 DEF Unserved, Queued, Range
  <2> HIDE DEF s
  <2>4. handed' = handed \cup {s}
    BY <1>5 DEF s
  <2>5. IsFiniteSet(handed') /\ Cardinality(handed') = Cardinality(handed) + 1
    BY <2>3, <2>4, FS_AddElement DEF SlotInv
  <2>6. PermitsAddUp'
    BY <1>2, <1>3, <1>5, <2>5, SlotsCounted DEF PermitsAddUp, InFlight
  <2>7. NoPermitIdles'
    BY <2>4 DEF NoPermitIdles
  <2> QED  BY <1>1, <1>2, <1>3, <1>5, <2>3, <2>4, <2>5, <2>6, <2>7 DEF SlotInv, Once
<1> QED  BY <1>4, <1>5 DEF Done

(* Nobody has come yet.                                                     *)
LEMMA SlotsInitInv ==
    ASSUME SlotsInit
    PROVE  SlotInv
<1>1. /\ permits = SlotLimit /\ SlotLimit \in Nat /\ queue = <<>> /\ handed = {}
      /\ leaving = {} /\ inside = {}
  BY SlotLimitAssumption DEF SlotsInit
<1>2. Once(queue) /\ Queued = {}
  BY <1>1 DEF Once, Queued, Range
<1>3. PermitsAddUp /\ IsFiniteSet({})
  BY <1>1, FS_EmptySet DEF PermitsAddUp, InFlight
<1>4. NoPermitIdles
  BY <1>1 DEF NoPermitIdles, Unserved
<1> QED  BY <1>1, <1>2, <1>3, <1>4 DEF SlotInv

(* Every step keeps the invariant.                                          *)
LEMMA SlotsStep ==
    ASSUME SlotInv, [SlotsNext]_slotVars
    PROVE  SlotInv'
<1>1. CASE UNCHANGED slotVars
  BY <1>1 DEF slotVars, SlotInv, Once, Queued, PermitsAddUp, InFlight, NoPermitIdles, Unserved
<1>2. ASSUME NEW r \in Visitors, Abandoned(r)  PROVE SlotInv'
  <2>1. r \in Queued /\ leaving' = leaving \cup {r} /\ UNCHANGED <<permits, queue, handed, inside>>
    BY <1>2 DEF Abandoned
  <2>2. NoPermitIdles'
    BY <2>1 DEF NoPermitIdles
  <2>3. Once(queue)' /\ Queued' = Queued /\ PermitsAddUp'
    BY <2>1 DEF SlotInv, Once, Queued, PermitsAddUp, InFlight
  <2> QED  BY <2>1, <2>2, <2>3 DEF SlotInv
<1>3. CASE SlotsNext
  BY <1>2, <1>3, ComeKeepsSlots, AdmittedKeepsSlots, RejectedKeepsSlots, DoneKeepsSlots
  DEF SlotsNext
<1> QED  BY <1>1, <1>3

(* Permits are neither lost nor made, whichever of the release, the timeout *)
(* and the cancelled client comes first, and a free one lies idle before an *)
(* open waiter only while a task is about to run: the safety half of        *)
(* BulkheadIsSound, for all visitors and every limit.                       *)
THEOREM PermitsSound == SlotsSpec => [](PermitsAddUp /\ NoPermitIdles)
<1>1. SlotInv => PermitsAddUp /\ NoPermitIdles
  BY DEF SlotInv
<1> QED  BY <1>1, SlotsInitInv, SlotsStep, PTL DEF SlotsSpec

(* Type correctness for all visitors and every limit.                       *)
THEOREM SlotsTypeCorrect == SlotsSpec => []SlotsTypeOK
<1>1. ASSUME SlotInv  PROVE SlotsTypeOK
  <2>1. permits \in 0 .. SlotLimit
    BY <1>1, SlotsCounted DEF SlotInv
  <2>2. Cardinality(Queued) = Len(queue)
    <3> DEFINE places == 1 .. Len(queue)
    <3>1. /\ queue \in Seq(Visitors) /\ DOMAIN queue = places /\ Len(queue) \in Nat
          /\ queue \in [places -> Queued]
      BY <1>1 DEF SlotInv, Once, Queued, Range
    <3>2. IsFiniteSet(places) /\ Cardinality(places) = Len(queue)
      BY <3>1, FS_Interval
    <3> HIDE DEF places
    <3>3. queue \in Surjection(places, Queued)
      BY <3>1 DEF Surjection, Queued, Range
    <3>4. queue \in Injection(places, Queued)
      BY <1>1, <3>1 DEF Injection, IsInjective, SlotInv, Once
    <3> QED  BY <3>2, <3>3, <3>4, FS_Surjection
  <2> QED  BY <1>1, <2>1, <2>2 DEF SlotInv, Once, SlotsTypeOK
<1> QED  BY <1>1, SlotsInitInv, SlotsStep, PTL DEF SlotsSpec
=============================================================================
