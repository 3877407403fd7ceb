----------------------------- MODULE ChangeProofs -----------------------------
(***************************************************************************)
(* Proofs about what happens to one approved change, for all clusters,      *)
(* Pods, versions and bounds: its execution, the evidence it is based on,   *)
(* the verification after it and its grey release. Each component has an    *)
(* inductive invariant of its own. The last section puts them together with *)
(* the passes over a plan: a behaviour of the instance that is              *)
(* model-checked is one of every part.                                      *)
(***************************************************************************)
EXTENDS MCChange, PlanProofs, SequenceTheorems, FiniteSetTheorems, TLAPS

-----------------------------------------------------------------------------
(* ChangeExecution. What is known of the object that was read before the    *)
(* write ties the report to the write: uids are not given twice, so the     *)
(* object that is read back with the uid of before is the one that was      *)
(* read, and its generation tells whether it was written since.             *)

-----------------------------------------------------------------------------
(* The invariants of one change.                                            *)

(* No two clusters share an object, and the uids that were given out are    *)
(* those up to the last.                                                    *)
UidsAreUnique ==
    /\ lastUid \in 0 .. MaxUid
    /\ \A c \in Clusters : objects[c].uid <= lastUid /\ (objects[c].uid = 0 => objects[c] = NoObject)
    /\ \A c, d \in Clusters : c # d /\ objects[c].uid = objects[d].uid => objects[c].uid = 0

(* What the change is, and which stages it goes through.                    *)
StagesFollow ==
    /\ change.type \in ChangeTypes /\ change.cluster \in Clusters
    /\ stage \in {"reading", "checking"} => change.type \in WorkloadChangeTypes
    /\ stage \in {"snapshot", "deleting", "polling", "creating"} =>
         change.type = "replace_immutable_workload"
    /\ stage = "sending" /\ change.type = "replace_immutable_workload" => Route = "refused"
    /\ outcome = "completed" => stage = "done"

(* The object that was read before the write has taken the approved values  *)
(* since, when it has them in a later generation.                           *)
LaterIsPatched ==
    change.type \in WorkloadChangeTypes /\ stage \in {"sending", "checking"} =>
        \A c \in Clusters :
            /\ objects[c].uid = before.uid /\ objects[c].value = "approved"
            /\ objects[c].generation > before.generation
            => before.uid \in patched

(* The cluster that was read is the one a request reaches, unless a         *)
(* kubeconfig went meanwhile, and with it the way for the request.          *)
ReadIsReached ==
    /\ stage = "reading" => transport \in {"kubeconfig", ReadTransport}
    /\ change.type \in WorkloadChangeTypes /\ stage = "sending" =>
         /\ transport = "kubeconfig" /\ change.cluster \in registered =>
              before.cluster = change.cluster
         /\ transport \in {"rancher", "local"} =>
              before.cluster = IF transport = "local" THEN LocalCluster ELSE change.cluster
         /\ transport # "managed_unavailable"

(* The inductive invariant of a change.                                     *)
ChangeInv ==
    /\ ChangeTypeOK /\ UidsAreUnique /\ StagesFollow /\ LaterIsPatched /\ ReadIsReached
    /\ CompletedChangeWasMade

-----------------------------------------------------------------------------
(* The objects of the clusters.                                             *)

(* What a request or another writer may put in the place of an object: the  *)
(* object with other contents, nothing, or a new one.                       *)
Successor(c, o) ==
    /\ o \in [uid : Nat, rv : Nat, generation : Nat, value : FieldValues \cup {"none"}]
    /\ o.uid = 0 => o = NoObject
    /\ o.uid \in {objects[c].uid, lastUid + 1, 0}

(* A step of the objects: each stays, does not have the approved values, or *)
(* has taken them since the read.                                           *)
WorldMoves ==
    /\ objects' \in [Clusters -> ChangeObject] /\ UidsAreUnique'
    /\ patched \subseteq patched' /\ patched' \subseteq 1 .. MaxUid
    /\ \A c \in Clusters : \/ objects'[c] = objects[c] \/ objects'[c].value # "approved"
                           \/ objects'[c].uid \in patched'

(* What is put in the place of an object is such a step.                    *)
LEMMA PutMoves ==
    ASSUME ChangeTypeOK, UidsAreUnique, NEW c \in Clusters, NEW o, Successor(c, o), Put(c, o)
    PROVE  WorldMoves
<1>1. /\ lastUid \in Nat /\ MaxUid \in Nat /\ lastUid <= MaxUid
      /\ objects \in [Clusters -> ChangeObject] /\ patched \subseteq 1 .. MaxUid
      /\ \A d \in Clusters : objects[d].uid \in Nat
  BY ChangeBoundsAssumption DEF ChangeTypeOK, UidsAreUnique, ChangeObject
<1>2. /\ o.uid \in 0 .. MaxUid /\ o \in ChangeObject
      /\ objects' = [objects EXCEPT ![c] = o]
      /\ lastUid' = IF o.uid > lastUid THEN o.uid ELSE lastUid
      /\ patched' = IF o.value = "approved" /\ o # objects[c] THEN patched \cup {o.uid}
                    ELSE patched
  BY <1>1 DEF Put, Successor, ChangeObject
<1>3. objects' \in [Clusters -> ChangeObject]
  BY <1>1, <1>2
<1>4. objects'[c] = o /\ \A d \in Clusters : d # c => objects'[d] = objects[d]
  BY <1>1, <1>2
<1>5. UidsAreUnique'
  <2>1. lastUid' \in 0 .. MaxUid /\ lastUid <= lastUid' /\ o.uid <= lastUid'
    BY <1>1, <1>2
  <2>2. ASSUME NEW d \in Clusters
        PROVE  objects'[d].uid <= lastUid' /\ (objects'[d].uid = 0 => objects'[d] = NoObject)
    <3>1. CASE d = c
      BY <1>4, <2>1, <3>1 DEF Successor
    <3>2. CASE d # c
      <4>1. objects[d].uid <= lastUid /\ (objects[d].uid = 0 => objects[d] = NoObject)
        BY DEF UidsAreUnique
      <4> QED  BY <1>1, <1>4, <2>1, <3>2, <4>1
    <3> QED  BY <3>1, <3>2
  <2>3. ASSUME NEW d \in Clusters, d # c, objects[d].uid = o.uid
        PROVE  o.uid = 0
    <3>1. objects[d].uid <= lastUid /\ (objects[c].uid = objects[d].uid => objects[c].uid = 0)
      BY <2>3 DEF UidsAreUnique
    <3>2. o.uid \in {objects[c].uid, lastUid + 1, 0}
      BY DEF Successor
    <3> QED  BY <1>1, <2>3, <3>1, <3>2
  <2>4. ASSUME NEW d \in Clusters, NEW e \in Clusters, d # e, objects'[d].uid = objects'[e].uid
        PROVE  objects'[d].uid = 0
    <3>1. CASE d = c
      BY <1>4, <2>3, <2>4, <3>1
    <3>2. CASE e = c
      BY <1>4, <2>3, <2>4, <3>2
    <3>3. CASE d # c /\ e # c
      BY <1>4, <2>4, <3>3 DEF UidsAreUnique
    <3> QED  BY <3>1, <3>2, <3>3
  <2> QED  BY <2>1, <2>2, <2>4 DEF UidsAreUnique
<1>6. o.value = "approved" => o.uid \in 1 .. MaxUid
  <2>1. o.value = "approved" => o # NoObject
    BY DEF NoObject
  <2> QED  BY <1>2, <2>1 DEF Successor
<1>7. patched \subseteq patched' /\ patched' \subseteq 1 .. MaxUid
  BY <1>1, <1>2, <1>6
<1>8. ASSUME NEW d \in Clusters
      PROVE  \/ objects'[d] = objects[d] \/ objects'[d].value # "approved"
             \/ objects'[d].uid \in patched'
  <2>1. CASE d = c
    BY <1>2, <1>4, <2>1
  <2> QED  BY <1>4, <2>1
<1> QED  BY <1>3, <1>5, <1>7, <1>8 DEF WorldMoves

(* Nothing moves.                                                           *)
LEMMA SameMoves ==
    ASSUME ChangeTypeOK, UidsAreUnique, Same
    PROVE  WorldMoves
BY DEF Same, WorldMoves, ChangeTypeOK, UidsAreUnique

(* What becomes of an object is a successor of it.                          *)
LEMMA ChangesAreSuccessors ==
    ASSUME ChangeTypeOK, UidsAreUnique, NEW c \in Clusters
    PROVE  /\ Successor(c, NoObject) /\ Successor(c, objects[c])
           /\ \A v \in FieldValues : Successor(c, Fresh(v))
           /\ objects[c] # NoObject =>
                /\ \A v \in FieldValues : Successor(c, Changed(objects[c], v))
                /\ Successor(c, [objects[c] EXCEPT !.rv = @ + 1])
<1> DEFINE x == objects[c]
<1>1. /\ x \in [uid : Nat, rv : Nat, generation : Nat, value : FieldValues \cup {"none"}]
      /\ x.uid = 0 => x = NoObject
      /\ lastUid \in Nat
  BY ChangeBoundsAssumption DEF ChangeTypeOK, ChangeObject, UidsAreUnique
<1>2. Successor(c, NoObject)
  BY DEF Successor, NoObject
<1>3. Successor(c, objects[c])
  BY <1>1 DEF Successor
<1>4. ASSUME NEW v \in FieldValues
      PROVE  Successor(c, Fresh(v))
  BY <1>1 DEF Successor, Fresh
<1> HIDE DEF x
<1>5. ASSUME x # NoObject, NEW v \in FieldValues
      PROVE  /\ Changed(x, v) \in [uid : Nat, rv : Nat, generation : Nat,
                                   value : FieldValues \cup {"none"}]
             /\ Changed(x, v).uid = x.uid /\ x.uid # 0
  <2>1. x.rv \in Nat /\ x.generation \in Nat /\ x.uid # 0
    BY <1>1, <1>5
  <2> DEFINE rv == x.rv + 1
             generation == x.generation + 1
  <2>2. Changed(x, v) = [x EXCEPT !.rv = rv, !.generation = generation, !.value = v]
    BY DEF Changed
  <2>3. rv \in Nat /\ generation \in Nat
    BY <2>1
  <2> HIDE DEF rv, generation
  <2> QED  BY <1>1, <2>1, <2>2, <2>3
<1>6. ASSUME x # NoObject
      PROVE  /\ [x EXCEPT !.rv = @ + 1] \in [uid : Nat, rv : Nat, generation : Nat,
                                            value : FieldValues \cup {"none"}]
             /\ [x EXCEPT !.rv = @ + 1].uid = x.uid /\ x.uid # 0
  BY <1>1, <1>6
<1> QED  BY <1>2, <1>3, <1>4, <1>5, <1>6 DEF Successor, x

(* A request leaves an object, removes it, makes it or patches it.          *)
LEMMA EffectsAre ==
    ASSUME NEW x, NEW type, NEW route, NEW o \in Effects(x, type, route)
    PROVE  o \in {x, NoObject, Fresh("approved")} \/ (x # NoObject /\ o \in Patchings(x))
<1> USE DEF Effects, NoObjectTypes, Removes, Creates, Applies, ExecTypes, ManifestTypes
<1>1. CASE type \in NoObjectTypes
  <2>1. Effects(x, type, route) = {x}
    BY <1>1
  <2> HIDE DEF Effects
  <2> QED  BY <2>1
<1>2. CASE type \in Removes
  <2>1. Effects(x, type, route) = IF x = NoObject THEN {} ELSE {NoObject}
    BY <1>2
  <2> HIDE DEF Effects
  <2> QED  BY <2>1
<1>3. CASE type \in Creates(route)
  <2>1. Effects(x, type, route) = IF x = NoObject THEN {Fresh("approved")} ELSE {}
    BY <1>3
  <2> HIDE DEF Effects
  <2> QED  BY <2>1
<1>4. CASE type \in Applies(route)
  <2>1. Effects(x, type, route) = IF x = NoObject THEN {Fresh("approved")} ELSE Patchings(x)
    BY <1>4
  <2> HIDE DEF Effects
  <2> QED  BY <2>1
<1>5. CASE type \notin NoObjectTypes \cup Removes \cup Creates(route) \cup Applies(route)
  <2>1. Effects(x, type, route) = IF x = NoObject THEN {} ELSE Patchings(x)
    BY <1>5
  <2> HIDE DEF Effects
  <2> QED  BY <2>1
<1> QED  BY <1>1, <1>2, <1>3, <1>4, <1>5

(* What a request does to an object is one of these.                        *)
LEMMA EffectsAreSuccessors ==
    ASSUME ChangeTypeOK, UidsAreUnique, NEW c \in Clusters, NEW type, NEW route,
           NEW o \in Effects(objects[c], type, route)
    PROVE  Successor(c, o)
<1>1. o \in {objects[c], NoObject, Fresh("approved")}
      \/ (objects[c] # NoObject /\ o \in Patchings(objects[c]))
  BY EffectsAre
<1>2. o \in Patchings(objects[c]) =>
        o \in {objects[c], Changed(objects[c], "approved"), Changed(objects[c], "other")}
  BY DEF Patchings
<1>3. {"approved", "other"} \subseteq FieldValues
  BY DEF FieldValues
<1> QED  BY <1>1, <1>2, <1>3, ChangesAreSuccessors

-----------------------------------------------------------------------------
(* The invariants hold.                                                     *)

(* The requests to write that clusters have received.                       *)
Touches == Seq([cluster : Clusters, verb : ChangeTypes \cup {"delete", "create"}])

(* A change that ends keeps the invariants, if what it reports is true.     *)
LEMMA DoneKeeps ==
    ASSUME ChangeInv, WorldMoves, UNCHANGED <<registered, change, transport, before, edits>>,
           stage' = "done", outcome' \in {"none", "blocked", "failed", "completed"},
           waiting' \in BOOLEAN, touched' \in Touches, CompletedChangeWasMade'
    PROVE  ChangeInv'
<1>1. ChangeTypeOK'
  BY DEF ChangeInv, ChangeTypeOK, WorldMoves, UidsAreUnique, Touches
<1>2. StagesFollow'
  BY DEF ChangeInv, StagesFollow
<1>3. LaterIsPatched' /\ ReadIsReached'
  BY DEF LaterIsPatched, ReadIsReached
<1> QED  BY <1>1, <1>2, <1>3 DEF ChangeInv, WorldMoves

(* So does one that does not report that it is completed.                   *)
LEMMA FailsKeeps ==
    ASSUME ChangeInv, WorldMoves, UNCHANGED <<registered, change, transport, before, edits>>,
           stage # "done", NEW status \in {"blocked", "failed"}, Return(status),
           touched' \in Touches
    PROVE  ChangeInv'
<1>1. /\ outcome \in {"none", "blocked", "failed", "completed"} /\ outcome # "completed"
      /\ waiting \in BOOLEAN
  BY DEF ChangeInv, ChangeTypeOK, StagesFollow
<1>2. stage' = "done" /\ outcome' \in {"none", "blocked", "failed"} /\ waiting' \in BOOLEAN
  BY <1>1 DEF Return
<1>3. CompletedChangeWasMade'
  BY <1>2 DEF CompletedChangeWasMade
<1> QED  BY <1>2, <1>3, DoneKeeps

(* One that goes on keeps the object it has read.                           *)
LEMMA LaterKeeps ==
    ASSUME ChangeInv, WorldMoves, UNCHANGED <<change, before>>,
           stage \in {"sending", "checking"}
    PROVE  LaterIsPatched'
<1> SUFFICES ASSUME change.type \in WorkloadChangeTypes, NEW c \in Clusters,
                    objects'[c].uid = before.uid, objects'[c].value = "approved",
                    objects'[c].generation > before.generation
             PROVE  before.uid \in patched'
  BY DEF LaterIsPatched
<1>1. CASE objects'[c] = objects[c]
  BY <1>1 DEF ChangeInv, LaterIsPatched, WorldMoves
<1>2. CASE objects'[c].uid \in patched'
  BY <1>2
<1> QED  BY <1>1, <1>2 DEF WorldMoves

(* A request ends in a cluster.                                             *)
LEMMA DestinationIsACluster ==
    ASSUME StagesFollow
    PROVE  Destination \in Clusters /\ ReadCluster \in Clusters
BY DEF StagesFollow, Destination, Reached, ReadCluster, Clusters

(* The failures: nothing is sent, or what was sent is not reported as       *)
(* made.                                                                    *)
LEMMA RefuseKeeps ==
    ASSUME ChangeInv, Refuse
    PROVE  ChangeInv'
<1>1. WorldMoves /\ touched' \in Touches
  BY SameMoves DEF Refuse, ChangeInv, ChangeTypeOK, Touches
<1>2. (IF change.named THEN "blocked" ELSE "failed") \in {"blocked", "failed"}
  OBVIOUS
<1> QED  BY <1>1, <1>2, FailsKeeps DEF Refuse

LEMMA ReadBeforeFailsKeeps ==
    ASSUME ChangeInv, ReadBeforeFails
    PROVE  ChangeInv'
<1>1. WorldMoves /\ touched' \in Touches
  BY SameMoves DEF ReadBeforeFails, ChangeInv, ChangeTypeOK, Touches
<1> QED  BY <1>1, FailsKeeps DEF ReadBeforeFails

LEMMA RejectedKeeps ==
    ASSUME ChangeInv, Rejected
    PROVE  ChangeInv'
<1>1. WorldMoves /\ touched' \in Touches
  BY SameMoves DEF Rejected, ChangeInv, ChangeTypeOK, Touches
<1> QED  BY <1>1, FailsKeeps DEF Rejected

LEMMA SendFailsKeeps ==
    ASSUME ChangeInv, SendFails
    PROVE  ChangeInv'
<1>1. WorldMoves /\ touched' \in Touches
  BY SameMoves DEF SendFails, ChangeInv, ChangeTypeOK, Touches
<1> QED  BY <1>1, FailsKeeps DEF SendFails

LEMMA ReadBackFailsKeeps ==
    ASSUME ChangeInv, ReadBackFails
    PROVE  ChangeInv'
<1>1. WorldMoves /\ touched' \in Touches
  BY SameMoves DEF ReadBackFails, ChangeInv, ChangeTypeOK, Touches
<1> QED  BY <1>1, FailsKeeps DEF ReadBackFails

LEMMA RaiseKeeps ==
    ASSUME ChangeInv, Raise
    PROVE  ChangeInv'
<1>1. WorldMoves /\ touched' \in Touches
  BY SameMoves DEF Raise, ChangeInv, ChangeTypeOK, Touches
<1> QED  BY <1>1, FailsKeeps DEF Raise

(* The checks before any request decide the way the change goes.            *)
LEMMA AdmitKeeps ==
    ASSUME ChangeInv, Admit
    PROVE  ChangeInv'
<1>1. WorldMoves /\ stage = "bound" /\ outcome # "completed"
  BY SameMoves DEF Admit, ChangeInv, StagesFollow
<1>2. /\ transport' = TransportOf(change.cluster, change.source, registered)
      /\ UNCHANGED <<registered, change, before, touched, outcome, waiting, edits>>
  BY DEF Admit
<1>3. transport' \in {"kubeconfig", "rancher", "local", "managed_unavailable"}
  BY <1>2 DEF TransportOf
<1>4. \/ stage' = "reading" /\ change.type \in WorkloadChangeTypes
      \/ /\ stage' = "snapshot" /\ change.type = "replace_immutable_workload"
      \/ /\ stage' = "sending" /\ change.type \notin WorkloadChangeTypes
         /\ change.type = "replace_immutable_workload" =>
              RouteOf(change.type, transport') = "refused"
  BY DEF Admit, WorkloadChangeTypes
<1>5. ChangeTypeOK'
  BY <1>1, <1>2, <1>3, <1>4 DEF ChangeInv, ChangeTypeOK, WorldMoves, UidsAreUnique
<1>6. Route' = RouteOf(change.type, transport') /\ ReadTransport' = transport'
  BY <1>2 DEF Route, RouteOf, ReadTransport, TransportOf
<1>7. StagesFollow'
  BY <1>1, <1>2, <1>4, <1>6 DEF ChangeInv, StagesFollow
<1>8. LaterIsPatched' /\ ReadIsReached'
  BY <1>2, <1>4, <1>6 DEF LaterIsPatched, ReadIsReached
<1>9. CompletedChangeWasMade'
  BY <1>1, <1>2 DEF CompletedChangeWasMade
<1> QED  BY <1>1, <1>5, <1>7, <1>8, <1>9 DEF ChangeInv, WorldMoves

(* Only the object that is read has its uid.                                *)
LEMMA ReadBeforeKeeps ==
    ASSUME ChangeInv, ReadBefore
    PROVE  ChangeInv'
<1> DEFINE live == objects[ReadCluster]
           applied == live.value = "approved" /\ change.type # "restart"
<1>1. /\ stage = "reading" /\ change.type \in WorkloadChangeTypes /\ outcome # "completed"
      /\ ReadCluster \in Clusters /\ live \in ChangeObject /\ live # NoObject
      /\ ReadTransport # "managed_unavailable"
  BY DestinationIsACluster DEF ReadBefore, CanRead, ChangeInv, StagesFollow, ChangeTypeOK
<1>2. /\ before' = [cluster |-> ReadCluster, uid |-> live.uid, rv |-> live.rv,
                    generation |-> live.generation, applied |-> applied]
      /\ stage' \in {"checking", "sending"}
      /\ patched' = {}
      /\ UNCHANGED <<registered, objects, change, transport, touched, outcome, waiting,
                     lastUid, edits>>
  BY DEF ReadBefore
<1>3. applied \in BOOLEAN
  OBVIOUS
<1> HIDE DEF applied
<1>4. before' \in [cluster : Clusters, uid : 0 .. MaxUid, rv : Nat, generation : Nat,
                   applied : BOOLEAN]
  BY <1>1, <1>2, <1>3 DEF ChangeObject
<1>5. /\ before'.cluster = ReadCluster /\ before'.uid = live.uid
      /\ before'.generation = live.generation
  BY <1>2
<1>6. ChangeTypeOK'
  BY <1>1, <1>2, <1>4 DEF ChangeInv, ChangeTypeOK
<1>7. UidsAreUnique' /\ StagesFollow'
  BY <1>1, <1>2 DEF ChangeInv, UidsAreUnique, StagesFollow, WorkloadChangeTypes
<1>8. LaterIsPatched'
  <2> SUFFICES ASSUME NEW c \in Clusters, objects[c].uid = live.uid,
                      objects[c].generation > live.generation
               PROVE  FALSE
    BY <1>2, <1>5 DEF LaterIsPatched
  <2>1. live.uid # 0
    BY <1>1 DEF ChangeInv, UidsAreUnique
  <2>2. c = ReadCluster
    BY <1>1, <2>1 DEF ChangeInv, UidsAreUnique
  <2>3. live.generation \in Nat
    BY <1>1 DEF ChangeObject
  <2> QED  BY <2>2, <2>3
<1>9. ReadIsReached'
  <2>1. transport \in {"kubeconfig", ReadTransport}
    BY <1>1 DEF ChangeInv, ReadIsReached
  <2>2. change.cluster \in registered => ReadCluster = change.cluster
    BY DEF ReadCluster, ReadTransport, TransportOf
  <2>3. transport \in {"rancher", "local"} =>
          ReadCluster = IF transport = "local" THEN LocalCluster ELSE change.cluster
    BY <2>1 DEF ReadCluster
  <2> QED  BY <1>1, <1>2, <1>5, <2>1, <2>2, <2>3 DEF ReadIsReached
<1>10. CompletedChangeWasMade'
  BY <1>1, <1>2 DEF CompletedChangeWasMade
<1> QED  BY <1>6, <1>7, <1>8, <1>9, <1>10 DEF ChangeInv

(* A request moves the object it reaches.                                   *)
LEMMA SendMoves ==
    ASSUME ChangeInv, Send
    PROVE  WorldMoves /\ touched' \in Touches
<1>1. Destination \in Clusters /\ change.type \in ChangeTypes
  BY DestinationIsACluster DEF ChangeInv, StagesFollow
<1>2. PICK o \in Effects(objects[Destination], change.type, Route) : Put(Destination, o)
  BY DEF Send
<1>3. WorldMoves
  BY <1>1, <1>2, EffectsAreSuccessors, PutMoves DEF ChangeInv
<1>4. touched \in Touches
  BY DEF ChangeInv, ChangeTypeOK, Touches
<1>5. touched' \in {touched, Append(touched, [cluster |-> Destination, verb |-> change.type])}
  BY DEF Send
<1> DEFINE request == [cluster |-> Destination, verb |-> change.type]
           Requests == [cluster : Clusters, verb : ChangeTypes \cup {"delete", "create"}]
<1>6. /\ request \in Requests /\ touched \in Seq(Requests)
      /\ touched' \in {touched, Append(touched, request)}
  BY <1>1, <1>4, <1>5 DEF Touches
<1> HIDE DEF request, Requests
<1>7. touched' \in Seq(Requests)
  BY <1>6
<1> USE DEF Requests
<1> QED  BY <1>3, <1>7 DEF Touches

(* A request that was sent is read back, reported or given up.              *)
LEMMA SendKeeps ==
    ASSUME ChangeInv, Send
    PROVE  ChangeInv'
<1>1. WorldMoves /\ touched' \in Touches
  BY SendMoves
<1>2. /\ stage = "sending" /\ Route # "refused" /\ outcome # "completed"
      /\ change.type # "replace_immutable_workload"
      /\ UNCHANGED <<registered, change, transport, before, edits>>
  BY DEF Send, Sendable, ChangeInv, StagesFollow
<1>3. CASE Return("failed")
  BY <1>1, <1>2, <1>3, FailsKeeps
<1>4. CASE change.type \notin WorkloadChangeTypes /\ Return("completed")
  <2>1. CompletedChangeWasMade'
    BY <1>2, <1>4 DEF CompletedChangeWasMade
  <2>2. /\ stage' = "done" /\ outcome' \in {"none", "blocked", "failed", "completed"}
        /\ waiting' \in BOOLEAN
    BY <1>4 DEF Return, ChangeInv, ChangeTypeOK
  <2> QED  BY <1>1, <1>2, <2>1, <2>2, DoneKeeps
<1>5. CASE /\ change.type \in WorkloadChangeTypes /\ stage' = "checking"
           /\ UNCHANGED <<outcome, waiting>>
  <2>1. ChangeTypeOK'
    BY <1>1, <1>2, <1>5 DEF ChangeInv, ChangeTypeOK, WorldMoves, UidsAreUnique, Touches
  <2>2. StagesFollow'
    BY <1>2, <1>5 DEF ChangeInv, StagesFollow
  <2>3. LaterIsPatched'
    BY <1>1, <1>2, LaterKeeps
  <2>4. ReadIsReached' /\ CompletedChangeWasMade'
    BY <1>2, <1>5 DEF ReadIsReached, CompletedChangeWasMade
  <2> QED  BY <1>1, <2>1, <2>2, <2>3, <2>4 DEF ChangeInv, WorldMoves
<1> QED  BY <1>3, <1>4, <1>5 DEF Send, Replied

(* What is read back has taken the values since, or had them.               *)
LEMMA ReadBackKeeps ==
    ASSUME ChangeInv, ReadBack
    PROVE  ChangeInv'
<1>1. /\ stage = "checking" /\ change.type \in WorkloadChangeTypes /\ waiting \in BOOLEAN
      /\ before.applied \in BOOLEAN
  BY DEF ReadBack, ChangeInv, StagesFollow, ChangeTypeOK
<1>2. WorldMoves /\ touched' \in Touches
  BY SameMoves DEF ReadBack, ChangeInv, ChangeTypeOK, Touches
<1>3. CASE CanRead /\ Matches(objects[ReadCluster])
  <2>1. Return("completed") /\ UNCHANGED <<registered, change, transport, before, edits, patched>>
    BY <1>3 DEF ReadBack, Same
  <2>2. before.applied \/ before.uid \in patched
    <3>1. ReadCluster \in Clusters
      BY DestinationIsACluster DEF ChangeInv
    <3> QED  BY <1>1, <1>3, <3>1 DEF Matches, ChangeInv, LaterIsPatched
  <2>3. /\ stage' = "done" /\ outcome' \in {"none", "blocked", "failed", "completed"}
        /\ waiting' \in BOOLEAN
    BY <1>1, <2>1 DEF Return, ChangeInv, ChangeTypeOK
  <2>4. CompletedChangeWasMade'
    BY <1>1, <2>1, <2>2 DEF CompletedChangeWasMade, WorkloadChangeTypes
  <2> QED  BY <1>2, <2>1, <2>3, <2>4, DoneKeeps
<1>4. CASE ~(CanRead /\ Matches(objects[ReadCluster]))
  <2>1. Return("failed")
    BY <1>4 DEF ReadBack
  <2> QED  BY <1>1, <1>2, <2>1, FailsKeeps DEF ReadBack
<1> QED  BY <1>3, <1>4

(* A replacement that goes on reports nothing yet.                          *)
LEMMA ReplaceKeeps ==
    ASSUME ChangeInv, WorldMoves, stage \in {"snapshot", "deleting", "polling", "creating"},
           stage' \in {"snapshot", "deleting", "polling", "creating"},
           UNCHANGED <<registered, change, transport, before, outcome, waiting, edits>>,
           touched' \in Touches
    PROVE  ChangeInv'
<1>1. ChangeTypeOK'
  BY DEF ChangeInv, ChangeTypeOK, WorldMoves, UidsAreUnique, Touches
<1>2. StagesFollow' /\ outcome # "completed"
  BY DEF ChangeInv, StagesFollow
<1>3. LaterIsPatched' /\ ReadIsReached' /\ CompletedChangeWasMade'
  BY <1>2 DEF LaterIsPatched, ReadIsReached, CompletedChangeWasMade
<1> QED  BY <1>1, <1>2, <1>3 DEF ChangeInv, WorldMoves

(* The snapshot and the polls only read.                                    *)
LEMMA SnapshotKeeps ==
    ASSUME ChangeInv, Snapshot
    PROVE  ChangeInv'
<1>1. WorldMoves /\ touched' \in Touches
  BY SameMoves DEF Snapshot, ChangeInv, ChangeTypeOK, Touches
<1> QED  BY <1>1, ReplaceKeeps DEF Snapshot

LEMMA PollKeeps ==
    ASSUME ChangeInv, Poll
    PROVE  ChangeInv'
<1>1. WorldMoves /\ touched' \in Touches
  BY SameMoves DEF Poll, ChangeInv, ChangeTypeOK, Touches
<1> QED  BY <1>1, ReplaceKeeps DEF Poll

(* The deletes and creates of a replacement are requests to its cluster.    *)
LEMMA TouchIsTyped ==
    ASSUME ChangeInv, NEW verb \in {"delete", "create"},
           touched' = Append(touched, [cluster |-> Destination, verb |-> verb])
    PROVE  touched' \in Touches
<1> DEFINE request == [cluster |-> Destination, verb |-> verb]
           Requests == [cluster : Clusters, verb : ChangeTypes \cup {"delete", "create"}]
<1>1. /\ request \in Requests /\ touched \in Seq(Requests)
      /\ touched' = Append(touched, request)
  BY DestinationIsACluster DEF ChangeInv, ChangeTypeOK
<1> HIDE DEF request, Requests
<1>2. touched' \in Seq(Requests)
  BY <1>1
<1> USE DEF Requests
<1> QED  BY <1>2 DEF Touches

(* The old object goes first, the new one comes after it.                   *)
LEMMA DeleteOldKeeps ==
    ASSUME ChangeInv, DeleteOld
    PROVE  ChangeInv'
<1>1. Destination \in Clusters
  BY DestinationIsACluster DEF ChangeInv
<1>2. WorldMoves
  <2>1. CASE Put(Destination, NoObject)
    BY <1>1, <2>1, ChangesAreSuccessors, PutMoves DEF ChangeInv
  <2>2. CASE Same
    BY <2>2, SameMoves DEF ChangeInv
  <2> QED  BY <2>1, <2>2 DEF DeleteOld
<1>3. touched' \in Touches
  BY TouchIsTyped DEF DeleteOld
<1>4. /\ stage = "deleting" /\ waiting \in BOOLEAN
      /\ UNCHANGED <<registered, change, transport, before, waiting, edits>>
  BY DEF DeleteOld, ChangeInv, ChangeTypeOK
<1>5. CASE stage' = "polling"
  BY <1>2, <1>3, <1>4, <1>5, ReplaceKeeps DEF DeleteOld
<1>6. CASE stage' = "done"
  <2>1. Return("failed")
    BY <1>4, <1>6 DEF DeleteOld, Return
  <2> QED  BY <1>2, <1>3, <1>4, <2>1, FailsKeeps
<1> QED  BY <1>5, <1>6 DEF DeleteOld

LEMMA CreateNewKeeps ==
    ASSUME ChangeInv, CreateNew
    PROVE  ChangeInv'
<1>1. /\ Destination \in Clusters /\ stage = "creating" /\ waiting \in BOOLEAN
      /\ UNCHANGED <<registered, change, transport, before, edits>>
      /\ objects[Destination] = NoObject /\ Put(Destination, Fresh("approved"))
  BY DestinationIsACluster DEF ChangeInv, ChangeTypeOK, CreateNew
<1>2. WorldMoves
  BY <1>1, ChangesAreSuccessors, PutMoves DEF ChangeInv, FieldValues
<1>3. touched' \in Touches
  BY TouchIsTyped DEF CreateNew
<1>4. CASE Return("failed")
  BY <1>1, <1>2, <1>3, <1>4, FailsKeeps
<1>5. CASE Return("completed")
  <2>1. patched' # {}
    BY <1>1 DEF Put, Fresh, NoObject
  <2>2. change.type \notin WorkloadChangeTypes
    BY <1>1 DEF ChangeInv, StagesFollow, WorkloadChangeTypes
  <2>3. CompletedChangeWasMade'
    BY <1>1, <2>1, <2>2 DEF CompletedChangeWasMade
  <2>4. /\ stage' = "done" /\ outcome' \in {"none", "blocked", "failed", "completed"}
        /\ waiting' \in BOOLEAN
    BY <1>1, <1>5 DEF Return, ChangeInv, ChangeTypeOK
  <2> QED  BY <1>1, <1>2, <1>3, <2>3, <2>4, DoneKeeps
<1> QED  BY <1>4, <1>5 DEF CreateNew

(* A caller that stops waiting has a failure.                               *)
LEMMA StopsWaitingKeeps ==
    ASSUME ChangeInv, StopsWaiting
    PROVE  ChangeInv'
<1>1. /\ WorldMoves /\ touched' \in Touches /\ stage' \in {stage, "done"}
      /\ outcome' = "failed" /\ waiting' \in BOOLEAN
      /\ UNCHANGED <<registered, objects, change, transport, before, touched, edits, patched>>
  BY SameMoves DEF StopsWaiting, Same, ChangeInv, ChangeTypeOK, Touches
<1>2. CompletedChangeWasMade'
  BY <1>1 DEF CompletedChangeWasMade
<1>3. CASE stage' = "done"
  BY <1>1, <1>2, <1>3, DoneKeeps
<1>4. CASE stage' = stage
  <2>1. ChangeTypeOK'
    BY <1>1, <1>4 DEF ChangeInv, ChangeTypeOK, WorldMoves, UidsAreUnique
  <2>2. Route' = Route /\ ReadTransport' = ReadTransport
    BY <1>1 DEF Route, ReadTransport
  <2>3. StagesFollow' /\ LaterIsPatched'
    BY <1>1, <1>4, <2>2 DEF ChangeInv, StagesFollow, LaterIsPatched
  <2>4. ReadIsReached'
    BY <1>1, <1>4, <2>2 DEF ChangeInv, ReadIsReached
  <2> QED  BY <1>1, <1>2, <2>1, <2>3, <2>4 DEF ChangeInv, WorldMoves
<1> QED  BY <1>1, <1>3, <1>4

(* Without its kubeconfig a cluster is reached in another way, or not.      *)
LEMMA UnregisterKeeps ==
    ASSUME ChangeInv, NEW c \in KubeconfigClusters, Unregister(c)
    PROVE  ChangeInv'
<1>1. /\ c \in registered /\ registered' = registered \ {c}
      /\ UNCHANGED <<objects, change, stage, transport, before, touched, outcome, waiting,
                     lastUid, edits, patched>>
  BY DEF Unregister, Same
<1>2. ChangeTypeOK'
  BY <1>1 DEF ChangeInv, ChangeTypeOK
<1>3. Route' = Route
  BY <1>1 DEF Route
<1>4. UidsAreUnique' /\ StagesFollow' /\ LaterIsPatched' /\ CompletedChangeWasMade'
  BY <1>1, <1>3 DEF ChangeInv, UidsAreUnique, StagesFollow, LaterIsPatched,
                    CompletedChangeWasMade
<1>5. ReadIsReached'
  <2>1. transport \in {"kubeconfig", ReadTransport} => transport \in {"kubeconfig", ReadTransport'}
    <3>1. CASE c = change.cluster
      BY <1>1, <3>1 DEF ReadTransport, TransportOf
    <3>2. CASE c # change.cluster
      <4>1. change.cluster \in registered' <=> change.cluster \in registered
        BY <1>1, <3>2
      <4> QED  BY <1>1, <4>1 DEF ReadTransport, TransportOf
    <3> QED  BY <3>1, <3>2
  <2> QED  BY <1>1, <2>1 DEF ChangeInv, ReadIsReached
<1> QED  BY <1>2, <1>4, <1>5 DEF ChangeInv

(* Another writer moves an object and nothing else.                         *)
LEMMA EditKeeps ==
    ASSUME ChangeInv, NEW c \in Clusters, Edit(c)
    PROVE  ChangeInv'
<1>1. /\ stage # "done" /\ edits < MaxEdits /\ edits' = edits + 1
      /\ UNCHANGED <<registered, change, stage, transport, before, touched, outcome, waiting>>
  BY DEF Edit
<1>2. PICK o : Successor(c, o) /\ Put(c, o)
  BY ChangesAreSuccessors DEF Edit, ChangeInv
<1>3. WorldMoves
  BY <1>2, PutMoves DEF ChangeInv
<1>4. edits' \in 0 .. MaxEdits
  BY <1>1, ChangeBoundsAssumption DEF ChangeInv, ChangeTypeOK
<1>5. ChangeTypeOK'
  BY <1>1, <1>3, <1>4 DEF ChangeInv, ChangeTypeOK, WorldMoves, UidsAreUnique
<1>6. Route' = Route /\ ReadTransport' = ReadTransport
  BY <1>1 DEF Route, ReadTransport
<1>7. StagesFollow' /\ ReadIsReached'
  BY <1>1, <1>6 DEF ChangeInv, StagesFollow, ReadIsReached
<1>8. LaterIsPatched'
  <2>1. CASE stage \in {"sending", "checking"}
    BY <1>1, <1>3, <2>1, LaterKeeps
  <2> QED  BY <1>1, <2>1 DEF LaterIsPatched
<1>9. CompletedChangeWasMade'
  BY <1>1 DEF ChangeInv, StagesFollow, CompletedChangeWasMade
<1> QED  BY <1>3, <1>5, <1>7, <1>8, <1>9 DEF ChangeInv, WorldMoves

(* The clusters can be numbered.                                            *)
LEMMA ClustersAreNumbered ==
    /\ Cardinality(Clusters) \in Nat
    /\ ClusterNumber \in [Clusters -> 1 .. Cardinality(Clusters)]
    /\ \A c, d \in Clusters : ClusterNumber[c] = ClusterNumber[d] => c = d
<1>1. IsFiniteSet(Clusters)
  BY ChangeClustersAssumption, FS_Singleton, FS_Union DEF Clusters
<1>2. /\ Cardinality(Clusters) \in Nat
      /\ ExistsBijection(1 .. Cardinality(Clusters), Clusters)
  BY <1>1, FS_CardinalityType
<1>3. PICK g \in Bijection(1 .. Cardinality(Clusters), Clusters) : TRUE
  BY <1>2 DEF ExistsBijection
<1> DEFINE f == [c \in Clusters |-> CHOOSE i \in 1 .. Cardinality(Clusters) : g[i] = c]
<1>4. /\ g \in [1 .. Cardinality(Clusters) -> Clusters]
      /\ \A c \in Clusters : \E i \in 1 .. Cardinality(Clusters) : g[i] = c
  BY <1>3 DEF Bijection, Injection, Surjection
<1>5. \A c \in Clusters : f[c] \in 1 .. Cardinality(Clusters) /\ g[f[c]] = c
  BY <1>4
<1>6. f \in [Clusters -> 1 .. Cardinality(Clusters)]
  BY <1>5
<1> HIDE DEF f
<1>7. \A c, d \in Clusters : f[c] = f[d] => c = d
  BY <1>5
<1>8. IsInjective(f)
  BY <1>6, <1>7 DEF IsInjective
<1>9. /\ ClusterNumber \in [Clusters -> 1 .. Cardinality(Clusters)]
      /\ IsInjective(ClusterNumber)
  BY <1>6, <1>8 DEF ClusterNumber
<1> QED  BY <1>2, <1>9 DEF IsInjective

(* Objects begin with uids of their own.                                    *)
LEMMA ChangeInitInv ==
    ASSUME ChangeInit
    PROVE  ChangeInv
<1> DEFINE n == Cardinality(Clusters)
<1>1. /\ n \in Nat /\ MaxUid \in Nat /\ MaxEdits \in Nat /\ n <= MaxUid
      /\ LocalCluster \in Clusters
  BY ClustersAreNumbered, ChangeBoundsAssumption DEF Clusters
<1>2. \A c \in Clusters : ClusterNumber[c] \in 1 .. n
  BY ClustersAreNumbered
<1> HIDE DEF n
<1>3. PICK there \in SUBSET Clusters :
         objects = [c \in Clusters |->
             IF c \in there THEN [uid |-> ClusterNumber[c], rv |-> 1, generation |-> 1, value |-> "old"]
             ELSE NoObject]
  BY DEF ChangeInit
<1>4. ASSUME NEW c \in Clusters
      PROVE  /\ objects[c] \in ChangeObject /\ objects[c].uid <= n
             /\ objects[c].uid = 0 => objects[c] = NoObject
             /\ objects[c].uid \in {0, ClusterNumber[c]}
  <2>1. CASE c \in there
    BY <1>1, <1>2, <1>3, <2>1 DEF ChangeObject, FieldValues
  <2>2. CASE c \notin there
    BY <1>1, <1>3, <2>2 DEF ChangeObject, NoObject, FieldValues
  <2> QED  BY <2>1, <2>2
<1>5. objects \in [Clusters -> ChangeObject]
  BY <1>3, <1>4
<1>6. UidsAreUnique
  <2>1. lastUid = n /\ lastUid \in 0 .. MaxUid
    BY <1>1 DEF ChangeInit, n
  <2>2. ASSUME NEW c \in Clusters, NEW d \in Clusters, c # d, objects[c].uid = objects[d].uid
        PROVE  objects[c].uid = 0
    BY <1>2, <1>4, <2>2, ClustersAreNumbered
  <2> QED  BY <1>4, <2>1, <2>2 DEF UidsAreUnique
<1>7. ChangeTypeOK
  <2>1. before \in [cluster : Clusters, uid : 0 .. MaxUid, rv : Nat, generation : Nat,
                    applied : BOOLEAN]
    BY <1>1 DEF ChangeInit, NoReading
  <2> QED  BY <1>1, <1>5, <1>6, <2>1 DEF ChangeInit, ChangeTypeOK, UidsAreUnique
<1>8. change.type \in ChangeTypes /\ change.cluster \in Clusters
  BY DEF ChangeInit
<1> QED  BY <1>6, <1>7, <1>8 DEF ChangeInit, ChangeInv, StagesFollow, LaterIsPatched,
                                 ReadIsReached, CompletedChangeWasMade

(* Every step keeps the invariant.                                          *)
LEMMA ChangeStep ==
    ASSUME ChangeInv, [ChangeNext]_changeVars
    PROVE  ChangeInv'
<1>1. CASE ExecuteStep
  BY <1>1, RefuseKeeps, AdmitKeeps, ReadBeforeKeeps, ReadBeforeFailsKeeps, RejectedKeeps,
     SendKeeps, SendFailsKeeps, ReadBackKeeps, ReadBackFailsKeeps, RaiseKeeps, SnapshotKeeps,
     DeleteOldKeeps, PollKeeps, CreateNewKeeps DEF ExecuteStep
<1>2. CASE StopsWaiting
  BY <1>2, StopsWaitingKeeps
<1>3. CASE \E c \in KubeconfigClusters : Unregister(c)
  BY <1>3, UnregisterKeeps
<1>4. CASE \E c \in Clusters : Edit(c)
  BY <1>4, EditKeeps
<1>5. CASE UNCHANGED changeVars
  BY <1>5 DEF changeVars, ChangeInv, ChangeTypeOK, UidsAreUnique, StagesFollow, Route,
              LaterIsPatched, ReadIsReached, ReadTransport, CompletedChangeWasMade
<1> QED  BY <1>1, <1>2, <1>3, <1>4, <1>5 DEF ChangeNext

(* A change goes through its stages, reads and writes one cluster, and      *)
(* knows by the generation what was made of its object.                     *)
THEOREM ChangeInvariant == ChangeSpec => []ChangeInv
BY ChangeInitInv, ChangeStep, PTL DEF ChangeSpec

(* Every variable of a change keeps its type.                               *)
THEOREM ChangeTypeCorrect == ChangeSpec => []ChangeTypeOK
BY ChangeInvariant, PTL DEF ChangeInv

(* A workload patch is the request of a change that has read its object.    *)
LEMMA WriteStep ==
    ASSUME ChangeInv, [ChangeNext]_changeVars, touched' # touched,
           change.type \in WorkloadChangeTypes
    PROVE  Last(touched').cluster = before.cluster
<1>1. Send
  BY DEF ChangeNext, ExecuteStep, Refuse, Admit, ReadBefore, ReadBeforeFails, Rejected,
         SendFails, ReadBack, ReadBackFails, Raise, Snapshot, DeleteOld, Poll, CreateNew,
         StopsWaiting, Unregister, Edit, changeVars, ChangeInv, StagesFollow, WorkloadChangeTypes
<1> DEFINE request == [cluster |-> Destination, verb |-> change.type]
<1>2. touched' = Append(touched, request) /\ stage = "sending" /\ Sendable
  BY <1>1 DEF Send, Sendable
<1>3. touched \in Touches
  BY DEF ChangeInv, ChangeTypeOK, Touches
<1> HIDE DEF request
<1>4. Last(touched') = request
  BY <1>2, <1>3 DEF Last, Touches
<1>5. Destination = before.cluster
  <2>1. /\ transport \in {"kubeconfig", "rancher", "local"}
        /\ transport = "kubeconfig" /\ change.cluster \in registered =>
             before.cluster = change.cluster
        /\ transport \in {"rancher", "local"} =>
             before.cluster = IF transport = "local" THEN LocalCluster ELSE change.cluster
    BY <1>2 DEF ChangeInv, ChangeTypeOK, ReadIsReached
  <2>2. Route = CASE transport = "kubeconfig" -> "kubeconfig"
                  [] transport = "rancher" -> "rancher"
                  [] transport = "local" -> "mcp"
    BY <2>1 DEF Route, RouteOf, WorkloadChangeTypes, ExecTypes, DynamicTypes
  <2> QED  BY <1>2, <2>1, <2>2 DEF Destination, Reached, Sendable
<1> QED  BY <1>4, <1>5 DEF request

(* What is reported of a write is true, and it is made where its object was *)
(* read: an object of the same name in its place, a patch that a webhook    *)
(* undid or a cluster that was unregistered make no change completed.       *)
THEOREM WritesTrue == ChangeSpec => WritesAreTrue
<1>1. ChangeInv /\ [ChangeNext]_changeVars =>
        [touched' # touched /\ change.type \in WorkloadChangeTypes =>
            Last(touched').cluster = before.cluster]_changeVars
  BY WriteStep
<1>2. ChangeInv => CompletedChangeWasMade
  BY DEF ChangeInv
<1> QED  BY <1>1, <1>2, ChangeInvariant, PTL DEF ChangeSpec, WritesAreTrue, WrittenWhereRead

-----------------------------------------------------------------------------
(* EvidenceCollection.                                                      *)

(* What a Pod can be found in.                                              *)
PodStates == {"absent", "starting", "running", "crashing"}

(* What a pass reads, before there are logs and with them: those of every   *)
(* container of the Pod, and of no other Pod.                               *)
WithoutLogs(e) == e.logs = NoLogs /\ e.lineage = NoLivePod
WithLogs(e) ==
    /\ e.pod # NoLivePod /\ e.lineage = NoLivePod /\ OfOnePod(e.logs, e.pod)
    /\ \A c \in Containers : c \in ContainersOf[e.pod] => e.logs[c].read
Whole(e) == WithLogs(e) \/ (e.pod = NoLivePod /\ WithoutLogs(e))

(* Where a collection is says what its pass has read so far. *)
DraftFollows ==
    /\ reading \in {"idle", "list", "select", "choose", "deep-select", "deep-pod"}
          => draft = Nothing
    /\ reading = "pod" => WithoutLogs(draft)
    /\ reading \in {"again", "replace", "logs", "deep-logs"}
          => draft.pod \in EvidencePods /\ WithoutLogs(draft)
    /\ reading \in {"sibling", "workload", "deep-events"} => WithLogs(draft)
    /\ reading = "merge" => Whole(draft)
    /\ reading \in {"idle", "list", "select", "choose", "deep-select", "deep-pod", "pod",
                    "again", "replace", "logs", "deep-logs", "sibling", "workload",
                    "deep-events", "merge"}

(* The inductive invariant of the collection.                               *)
EvidenceInv ==
    /\ EvidenceTypeOK /\ pods_ \in [EvidencePods -> PodStates]
    /\ purpose \in {"pass", "refresh", "after"}
    /\ DraftFollows /\ Whole(priorityPass)
    /\ EvidenceIsOfOnePod

(* Evidence of nothing is without logs.                                     *)
LEMMA NothingIsWhole ==
    /\ Nothing \in EvidenceRecord /\ Failed \in EvidenceRecord
    /\ Whole(Nothing) /\ Whole(Failed) /\ WithoutLogs(Nothing)
    /\ Nothing.pod = NoLivePod
<1>1. NoLogs \in [Containers -> LogStreams]
  BY DEF NoLogs, NoStreams, LogStreams
<1> QED
  BY <1>1 DEF Nothing, Failed, EvidenceRecord, Whole, WithoutLogs

(* What ReadLogs and the deep pass can get from a Pod. *)
LEMMA BundlesAreOfPod ==
    ASSUME NEW p \in EvidencePods, NEW l \in Bundles(p),
           NEW e \in EvidenceRecord, e.pod = p, e.logs = l, e.lineage = NoLivePod
    PROVE  WithLogs(e)
<1>1. PICK read \in [ContainersOf[p] -> Streams(p)] :
          l = [c \in Containers |-> IF c \in ContainersOf[p] THEN read[c] ELSE NoStreams]
  BY DEF Bundles
<1>2. \A s \in Streams(p) : s.read /\ s.current \in {p, NoLivePod}
                                  /\ s.previous \in {p, NoLivePod}
  BY DEF Streams, Empty, NoStreams
<1>3. \A c \in Containers : IF c \in ContainersOf[p] THEN l[c] \in Streams(p)
                             ELSE l[c] = NoStreams
  BY <1>1
<1>4. OfOnePod(l, p)
  BY <1>2, <1>3 DEF OfOnePod, Sources, NoStreams
<1> QED
  BY <1>2, <1>3, <1>4, EvidencePodsAssumption DEF WithLogs

(* Those of a Pod are logs. *)
LEMMA BundlesTyped ==
    ASSUME NEW p \in EvidencePods, NEW l \in Bundles(p)
    PROVE  l \in [Containers -> LogStreams]
<1>1. \A s \in Streams(p) : s \in LogStreams
  BY DEF Streams, Empty, NoStreams, LogStreams
<1>2. NoStreams \in LogStreams
  BY DEF NoStreams, LogStreams
<1> QED
  BY <1>1, <1>2 DEF Bundles

(* What _merge_ops_evidence makes of two pieces of evidence. *)
LEMMA MergedFields ==
    ASSUME NEW first \in EvidenceRecord, NEW second \in EvidenceRecord
    PROVE  LET m == Merged(first, second) IN
           /\ m \in EvidenceRecord
           /\ m.pod = IF second.pod = NoLivePod THEN first.pod ELSE second.pod
           /\ m.logs = [c \in Containers |-> IF second.logs[c].read THEN second.logs[c]
                                             ELSE first.logs[c]]
           /\ m.lineage = IF second.lineage = NoLivePod THEN first.lineage ELSE second.lineage
<1> DEFINE use(a, b) == IF b = NoLivePod THEN a ELSE b
           logs == [c \in Containers |-> IF second.logs[c].read THEN second.logs[c]
                                         ELSE first.logs[c]]
           both == [pod |-> use(first.pod, second.pod), logs |-> logs,
                    workload |-> first.workload \/ second.workload,
                    error |-> FALSE,
                    lineage |-> use(first.lineage, second.lineage)]
           err == ~Usable(both) /\ (first.error \/ second.error)
<1>1. logs \in [Containers -> LogStreams]
  BY DEF EvidenceRecord
<1>2. (first.workload \/ second.workload) \in BOOLEAN /\ err \in BOOLEAN
  OBVIOUS
<1>3. Merged(first, second) = [both EXCEPT !.error = err]
  BY DEF Merged
<1>4. both \in EvidenceRecord
  <2> HIDE DEF logs
  <2> QED
    BY <1>1, <1>2 DEF EvidenceRecord
<1>5. /\ both.pod = use(first.pod, second.pod) /\ both.logs = logs
      /\ both.lineage = use(first.lineage, second.lineage)
  OBVIOUS
<1> HIDE DEF both, err
<1>6. [both EXCEPT !.error = err] \in EvidenceRecord
  BY <1>2, <1>4 DEF EvidenceRecord
<1>7. LET m == [both EXCEPT !.error = err]
      IN m.pod = both.pod /\ m.logs = both.logs /\ m.lineage = both.lineage
  BY <1>4 DEF EvidenceRecord
<1> QED
  BY <1>3, <1>5, <1>6, <1>7

(* Evidence that the property speaks for.                                   *)
Attributed(e) ==
    /\ OfOnePod(e.logs, NoLivePod)
    /\ e.lineage # e.pod => OfOnePod(e.logs, e.pod)

(* What a Pod's evidence is laid over keeps what it says of other containers,*)
(* and every container of the Pod is the Pod's.                             *)
LEMMA MergedStreams ==
    ASSUME NEW first \in EvidenceRecord, NEW second \in EvidenceRecord, Whole(second)
    PROVE  LET m == Merged(first, second) IN
           /\ Attributed(first) => Attributed(m)
           /\ Whole(first) => Whole(m)
<1> DEFINE m == Merged(first, second)
<1>1. /\ m.pod = IF second.pod = NoLivePod THEN first.pod ELSE second.pod
      /\ m.logs = [c \in Containers |-> IF second.logs[c].read THEN second.logs[c]
                                        ELSE first.logs[c]]
      /\ m.lineage = IF second.lineage = NoLivePod THEN first.lineage ELSE second.lineage
  BY MergedFields
<1> SUFFICES /\ Attributed(first) => Attributed(m)
             /\ Whole(first) => Whole(m)
  OBVIOUS
<1> HIDE DEF m
<1>2. m.lineage = first.lineage
  BY <1>1 DEF Whole, WithLogs, WithoutLogs
<1>3. CASE WithLogs(second)
  <2>1. m.pod = second.pod /\ m.pod # NoLivePod
    BY <1>1, <1>3 DEF WithLogs
  <2>2. ASSUME OfOnePod(first.logs, NoLivePod)
        PROVE  OfOnePod(m.logs, m.pod) /\ OfOnePod(m.logs, NoLivePod)
    <3>1. ASSUME NEW c \in Containers
          PROVE  m.logs[c] = IF second.logs[c].read THEN second.logs[c] ELSE first.logs[c]
      BY <1>1
    <3>2. ASSUME NEW c \in Containers, c \in ContainersOf[m.pod]
          PROVE  m.logs[c] = second.logs[c]
      BY <3>1, <3>2, <2>1, <1>3 DEF WithLogs
    <3>3. OfOnePod(second.logs, m.pod)
      BY <2>1, <1>3 DEF WithLogs
    <3>4. ASSUME NEW c \in Containers
          PROVE  \A a, b \in Sources(m.logs[c]) : a = b
      BY <3>1, <3>3, <2>2 DEF OfOnePod
    <3>5. ASSUME NEW c \in Containers, c \in ContainersOf[m.pod], m.pod # NoLivePod
          PROVE  Sources(m.logs[c]) \subseteq {m.pod}
      BY <3>2, <3>3, <3>5 DEF OfOnePod
    <3> QED
      BY <3>4, <3>5 DEF OfOnePod
  <2>3. Attributed(first) => OfOnePod(first.logs, NoLivePod)
    BY DEF Attributed
  <2>4. Whole(first) => OfOnePod(first.logs, NoLivePod)
    BY DEF Whole, WithLogs, WithoutLogs, OfOnePod, Sources, NoLogs, NoStreams
  <2>5. \A c \in Containers : c \in ContainersOf[m.pod] => m.logs[c].read
    BY <1>1, <1>3, <2>1 DEF WithLogs
  <2>6. Whole(first) => first.lineage = NoLivePod
    BY DEF Whole, WithLogs, WithoutLogs
  <2> QED
    BY <1>2, <2>1, <2>2, <2>3, <2>4, <2>5, <2>6 DEF Attributed, Whole, WithLogs
<1>4. CASE second.pod = NoLivePod /\ WithoutLogs(second)
  <2>1. \A c \in Containers : ~second.logs[c].read
    BY <1>4 DEF WithoutLogs, NoLogs, NoStreams
  <2>2. m.logs = first.logs
    BY <1>1, <2>1 DEF EvidenceRecord
  <2>3. m.pod = first.pod
    BY <1>1, <1>4
  <2> QED
    BY <1>2, <2>2, <2>3 DEF Attributed, Whole, WithLogs, WithoutLogs
<1> QED
  BY <1>3, <1>4 DEF Whole

-----------------------------------------------------------------------------
(* The steps of a collection.                                               *)

(* No collection has begun.                                                 *)
LEMMA EvidenceInitInv == EvidenceInit => EvidenceInv
<1> SUFFICES ASSUME EvidenceInit PROVE EvidenceInv
  OBVIOUS
<1>1. EvidenceTypeOK /\ pods_ \in [EvidencePods -> PodStates]
  BY NothingIsWhole DEF EvidenceInit, EvidenceTypeOK, EvidencePods, PodStates
<1>2. DraftFollows /\ Whole(priorityPass)
  BY NothingIsWhole DEF EvidenceInit, DraftFollows
<1>3. EvidenceIsOfOnePod
  BY DEF EvidenceInit, EvidenceIsOfOnePod, OfOnePod, Sources, Nothing, NoLogs, NoStreams
<1> QED
  BY <1>1, <1>2, <1>3 DEF EvidenceInv, EvidenceInit

(* What a step of a pass owes: the evidence and the Pods are as they were. *)
LEMMA PassKeepsInv ==
    ASSUME EvidenceInv, PassOnly,
           targetPod' \in EvidencePods \cup {NoLivePod},
           draft' \in EvidenceRecord, priorityPass' \in EvidenceRecord,
           Whole(priorityPass'), DraftFollows'
    PROVE  EvidenceInv'
BY DEF EvidenceInv, EvidenceTypeOK, EvidenceIsOfOnePod, PassOnly, Present

(* A collection begins with nothing.                                        *)
LEMMA StartKeepsInv ==
    ASSUME EvidenceInv, NEW why \in {"pass", "refresh", "after"}, Start(why)
    PROVE  EvidenceInv'
<1>1. draft' = Nothing
  BY DEF Start
<1>2. targetPod' \in EvidencePods \cup {NoLivePod}
  BY DEF Start, EvidenceInv, EvidenceTypeOK, Present
<1>3. reading' \in {"list", "select", "pod"}
  BY DEF Start
<1>4. DraftFollows'
  BY <1>1, <1>3, NothingIsWhole DEF DraftFollows
<1> QED
  BY <1>1, <1>2, <1>4, NothingIsWhole
     DEF Start, EvidenceInv, EvidenceTypeOK, EvidenceIsOfOnePod, Present

(* A Pod is put down, its logs come later. *)
LEMMA ReadsKeepsInv ==
    ASSUME EvidenceInv, NEW p \in EvidencePods,
           NEW next \in {"again", "replace", "logs", "deep-logs"},
           WithoutLogs(draft), Reads(p, next)
    PROVE  EvidenceInv'
<1>1. draft \in EvidenceRecord
  BY DEF EvidenceInv, EvidenceTypeOK
<1>2. draft' = [draft EXCEPT !.pod = p]
  BY DEF Reads
<1>3. draft' \in EvidenceRecord /\ draft'.pod = p /\ WithoutLogs(draft')
  BY <1>1, <1>2 DEF EvidenceRecord, WithoutLogs
<1>4. DraftFollows'
  BY <1>3 DEF DraftFollows, Reads
<1> QED
  BY <1>3, <1>4, PassKeepsInv DEF Reads, EvidenceInv, EvidenceTypeOK

(* The listing, the selection and the logs come from one Pod.               *)
LEMMA ReadingKeepsInv ==
    ASSUME EvidenceInv, ListLocal \/ ReadPod \/ ReadAgain \/ ReplacePod \/ DeepPod
    PROVE  EvidenceInv'
<1>1. \E p \in EvidencePods, next \in {"again", "replace", "logs", "deep-logs"} :
          Reads(p, next)
  BY DEF ListLocal, ReadPod, ReadAgain, ReplacePod, DeepPod, Representatives, Present
<1>2. WithoutLogs(draft)
  BY NothingIsWhole DEF EvidenceInv, DraftFollows, ListLocal, ReadPod, ReadAgain, ReplacePod,
                        DeepPod
<1> QED
  BY <1>1, <1>2, ReadsKeepsInv

LEMMA SelectKeepsInv ==
    ASSUME EvidenceInv, SelectPod
    PROVE  EvidenceInv'
<1>1. draft = Nothing
  BY DEF EvidenceInv, DraftFollows, SelectPod
<1>2. PICK p \in EvidencePods : draft' = [draft EXCEPT !.pod = p]
  BY DEF SelectPod, Representatives, Present
<1>3. draft' \in EvidenceRecord /\ WithoutLogs(draft')
  BY <1>1, <1>2, NothingIsWhole DEF EvidenceRecord, WithoutLogs
<1>4. DraftFollows'
  BY <1>3 DEF DraftFollows, SelectPod
<1> QED
  BY <1>3, <1>4, PassKeepsInv DEF SelectPod, EvidenceInv, EvidenceTypeOK

(* The streams that are read are those of the Pod that was put down. *)
LEMMA LogsKeepInv ==
    ASSUME EvidenceInv, ReadLogs \/ DeepLogs \/ DeepDiagnostics
    PROVE  EvidenceInv'
<1>1. draft \in EvidenceRecord /\ draft.pod \in EvidencePods /\ draft.lineage = NoLivePod
  BY DEF EvidenceInv, EvidenceTypeOK, DraftFollows, WithoutLogs, ReadLogs, DeepLogs,
         DeepDiagnostics
<1>2. PICK l \in Bundles(draft.pod), w \in BOOLEAN :
          draft' = [draft EXCEPT !.logs = l] \/ draft' = [draft EXCEPT !.logs = l, !.workload = w]
  BY DEF ReadLogs, DeepLogs, DeepDiagnostics
<1>3. l \in [Containers -> LogStreams]
  BY <1>1, BundlesTyped
<1>4. /\ draft' \in EvidenceRecord /\ draft'.pod = draft.pod /\ draft'.logs = l
      /\ draft'.lineage = NoLivePod
  BY <1>1, <1>2, <1>3 DEF EvidenceRecord
<1>5. WithLogs(draft')
  BY <1>1, <1>4, BundlesAreOfPod
<1>6. reading' \in {"workload", "sibling", "deep-events", "merge"}
  BY DEF ReadLogs, DeepLogs, DeepDiagnostics
<1>7. DraftFollows'
  BY <1>5, <1>6 DEF DraftFollows, Whole
<1> QED
  BY <1>4, <1>7, PassKeepsInv
     DEF ReadLogs, DeepLogs, DeepDiagnostics, EvidenceInv, EvidenceTypeOK

(* A sibling answers with its own logs or not at all. *)
LEMMA SiblingKeepsInv ==
    ASSUME EvidenceInv, ReadSibling
    PROVE  EvidenceInv'
<1>1. draft \in EvidenceRecord /\ WithLogs(draft)
  BY DEF EvidenceInv, EvidenceTypeOK, DraftFollows, ReadSibling
<1>2. draft' \in EvidenceRecord /\ WithLogs(draft')
  <2>1. CASE UNCHANGED draft
    BY <1>1, <2>1
  <2>2. ASSUME NEW p \in EvidencePods, NEW l \in Bundles(p),
               draft' = [draft EXCEPT !.pod = p, !.logs = l]
        PROVE  draft' \in EvidenceRecord /\ WithLogs(draft')
    <3>1. l \in [Containers -> LogStreams]
      BY BundlesTyped
    <3>2. /\ draft' \in EvidenceRecord /\ draft'.pod = p /\ draft'.logs = l
          /\ draft'.lineage = NoLivePod
      BY <1>1, <2>2, <3>1 DEF EvidenceRecord, WithLogs
    <3> QED
      BY <3>2, BundlesAreOfPod
  <2> QED
    BY <2>1, <2>2 DEF ReadSibling, Sibling, Representatives, Present
<1>3. DraftFollows'
  BY <1>2 DEF DraftFollows, ReadSibling
<1> QED
  BY <1>2, <1>3, PassKeepsInv DEF ReadSibling, EvidenceInv, EvidenceTypeOK

(* The first collector ends with logs or without them.                      *)
LEMMA PriorityEndsKeepInv ==
    ASSUME EvidenceInv, PriorityDone \/ PriorityFails
    PROVE  EvidenceInv'
<1>1. draft' = Nothing /\ reading' = "choose"
  BY DEF PriorityDone, PriorityFails
<1>2. DraftFollows'
  BY <1>1 DEF DraftFollows
<1>3. CASE PriorityDone
  <2>1. draft \in EvidenceRecord /\ WithLogs(draft)
    BY <1>3 DEF EvidenceInv, EvidenceTypeOK, DraftFollows, PriorityDone
  <2>2. priorityPass' = [draft EXCEPT !.workload = TRUE] /\ targetPod' = draft.pod
    BY <1>3 DEF PriorityDone
  <2>3. priorityPass' \in EvidenceRecord /\ Whole(priorityPass')
        /\ targetPod' \in EvidencePods \cup {NoLivePod}
    BY <2>1, <2>2 DEF EvidenceRecord, Whole, WithLogs, OfOnePod
  <2> QED
    BY <1>1, <1>2, <1>3, <2>3, NothingIsWhole, PassKeepsInv DEF PriorityDone
<1>4. CASE PriorityFails
  BY <1>1, <1>2, <1>4, NothingIsWhole, PassKeepsInv
     DEF PriorityFails, EvidenceInv, EvidenceTypeOK
<1> QED
  BY <1>3, <1>4

LEMMA ChoosingKeepsInv ==
    ASSUME EvidenceInv, Choose_ \/ DeepSelect
    PROVE  EvidenceInv'
<1>1. draft = Nothing /\ draft' = Nothing /\ priorityPass' = priorityPass
  BY DEF Choose_, DeepSelect, EvidenceInv, DraftFollows
<1>2. reading' \in {"merge", "deep-select", "deep-pod"}
  BY DEF Choose_, DeepSelect
<1>3. DraftFollows'
  BY <1>1, <1>2, NothingIsWhole DEF DraftFollows
<1>4. targetPod' \in EvidencePods \cup {NoLivePod}
  BY DEF Choose_, DeepSelect, EvidenceInv, EvidenceTypeOK, Representatives, Present
<1> QED
  BY <1>1, <1>3, <1>4, NothingIsWhole, PassKeepsInv
     DEF Choose_, DeepSelect, EvidenceInv, EvidenceTypeOK

(* The second adds the other streams, or times out.                         *)
LEMMA DeepEndsKeepInv ==
    ASSUME EvidenceInv, DeepRest \/ DeepOwner \/ DeepFails
    PROVE  EvidenceInv'
<1>1. draft' \in EvidenceRecord /\ Whole(draft')
  <2>1. CASE DeepFails
    BY <2>1, NothingIsWhole DEF DeepFails
  <2>2. CASE DeepRest \/ DeepOwner
    <3>1. draft \in EvidenceRecord /\ WithLogs(draft)
      BY <2>2 DEF EvidenceInv, EvidenceTypeOK, DraftFollows, DeepRest, DeepOwner
    <3>2. PICK w \in BOOLEAN : draft' = [draft EXCEPT !.workload = w]
      BY <2>2 DEF DeepRest, DeepOwner
    <3> QED
      BY <3>1, <3>2 DEF EvidenceRecord, Whole, WithLogs, OfOnePod
  <2> QED
    BY <2>1, <2>2
<1>2. DraftFollows'
  BY <1>1 DEF DraftFollows, DeepRest, DeepOwner, DeepFails
<1> QED
  BY <1>1, <1>2, PassKeepsInv DEF DeepRest, DeepOwner, DeepFails, EvidenceInv, EvidenceTypeOK

(* The merge of a collection into the plan's evidence. *)
LEMMA MergeKeepsInv ==
    ASSUME EvidenceInv, Merge
    PROVE  EvidenceInv'
<1> DEFINE new == Merged(priorityPass, draft)
           first == IF priorityPass.error THEN Nothing ELSE priorityPass
           second == IF draft.error THEN Nothing ELSE draft
<1>1. /\ evidence \in EvidenceRecord /\ draft \in EvidenceRecord
      /\ priorityPass \in EvidenceRecord
      /\ Whole(draft) /\ Whole(priorityPass)
  BY DEF EvidenceInv, EvidenceTypeOK, DraftFollows, Merge
<1>2. new \in EvidenceRecord /\ Whole(new)
  BY <1>1, MergedFields, MergedStreams
<1>3. /\ first \in EvidenceRecord /\ Whole(first)
      /\ second \in EvidenceRecord /\ Whole(second)
  BY <1>1, NothingIsWhole
<1>4. \/ evidence' = new
      \/ evidence' = Merged(evidence, new)
      \/ evidence' = Merged(Merged(evidence, first), second)
      \/ evidence' = [new EXCEPT !.logs = evidence.logs, !.lineage = new.pod]
  <2>1. CASE purpose = "pass"
    BY <2>1 DEF Merge
  <2>2. CASE purpose = "refresh"
    BY <2>2 DEF Merge
  <2>3. CASE purpose = "after"
    BY <2>3 DEF Merge
  <2> QED
    BY <2>1, <2>2, <2>3 DEF EvidenceInv
<1>5. evidence' \in EvidenceRecord /\ EvidenceIsOfOnePod'
  <2>1. EvidenceIsOfOnePod <=> Attributed(evidence)
    BY DEF EvidenceIsOfOnePod, Attributed
  <2>2. EvidenceIsOfOnePod' <=> Attributed(evidence')
    BY DEF EvidenceIsOfOnePod, Attributed
  <2>3. Attributed(evidence)
    BY <2>1 DEF EvidenceInv
  <2>4. Whole(new) => Attributed(new)
    BY DEF Whole, WithLogs, WithoutLogs, Attributed, OfOnePod, Sources, NoLogs, NoStreams
  <2> HIDE DEF new, first, second
  <2>5. CASE evidence' = new
    BY <2>2, <2>4, <2>5, <1>2
  <2>6. CASE evidence' = Merged(evidence, new)
    BY <2>2, <2>3, <2>6, <1>1, <1>2, MergedFields, MergedStreams
  <2>7. CASE evidence' = Merged(Merged(evidence, first), second)
    <3> DEFINE m == Merged(evidence, first)
    <3>1. m \in EvidenceRecord /\ Attributed(m)
      BY <2>3, <1>1, <1>3, MergedFields, MergedStreams
    <3> HIDE DEF m
    <3> QED
      BY <3>1, <2>2, <2>7, <1>3, MergedFields, MergedStreams DEF m
  <2>8. CASE evidence' = [new EXCEPT !.logs = evidence.logs, !.lineage = new.pod]
    <3>1. /\ evidence' \in EvidenceRecord /\ evidence'.lineage = evidence'.pod
          /\ evidence'.logs = evidence.logs
      BY <2>8, <1>1, <1>2 DEF EvidenceRecord
    <3> QED
      BY <3>1, <2>2, <2>3 DEF Attributed, OfOnePod
  <2> QED
    BY <1>4, <2>5, <2>6, <2>7, <2>8
<1>6. captured' \in {"never", "recent", "old"}
  BY DEF Merge, EvidenceInv, EvidenceTypeOK
<1>7. /\ draft' = Nothing /\ priorityPass' = Nothing /\ reading' = "idle"
      /\ UNCHANGED <<pods_, terminating, targetPod, purpose>>
  BY DEF Merge
<1>8. DraftFollows'
  BY <1>7 DEF DraftFollows
<1> QED
  BY <1>5, <1>6, <1>7, <1>8, NothingIsWhole DEF EvidenceInv, EvidenceTypeOK, Present

-----------------------------------------------------------------------------
(* The cluster moves under the collection.                                  *)

(* Pods move and evidence grows old beside it.                              *)
LEMMA PodsMoveKeepsInv ==
    ASSUME EvidenceInv, NEW p \in EvidencePods, PodChanges(p)
    PROVE  EvidenceInv'
<1>1. pods_' \in [EvidencePods -> PodStates]
  BY DEF PodChanges, EvidenceInv, PodStates
<1>2. terminating' \subseteq Present'
  <2>1. terminating \subseteq Present
    BY DEF EvidenceInv, EvidenceTypeOK
  <2>2. \A q \in EvidencePods : q # p => pods_'[q] = pods_[q]
    BY DEF PodChanges, EvidenceInv
  <2> QED
    BY <2>1, <2>2 DEF PodChanges, Present, EvidenceInv
<1> QED
  BY <1>1, <1>2 DEF PodChanges, ClusterOnly, EvidenceInv, EvidenceTypeOK, EvidenceIsOfOnePod,
                    DraftFollows

LEMMA AgingKeepsInv ==
    ASSUME EvidenceInv, EvidenceAges \/ UNCHANGED evidenceVars
    PROVE  EvidenceInv'
BY DEF EvidenceAges, ClusterOnly, evidenceVars, EvidenceInv, EvidenceTypeOK,
       EvidenceIsOfOnePod, DraftFollows, Present

(* Every step keeps the invariant.                                          *)
LEMMA EvidenceStep == EvidenceInv /\ [EvidenceNext]_evidenceVars => EvidenceInv'
BY StartKeepsInv, ReadingKeepsInv, SelectKeepsInv, LogsKeepInv, SiblingKeepsInv,
   PriorityEndsKeepInv, ChoosingKeepsInv, DeepEndsKeepInv, MergeKeepsInv, PodsMoveKeepsInv,
   AgingKeepsInv
   DEF EvidenceNext

(* The inductive invariant of a collection: where it is says what its pass  *)
(* has read, and a pass that ends with a Pod has read all its containers.   *)
THEOREM EvidenceInvariant == EvidenceSpec => []EvidenceInv
BY EvidenceInitInv, EvidenceStep, PTL DEF EvidenceSpec

(* Evidence, the pass under way and the Pods are well formed.               *)
THEOREM EvidenceTypeCorrect == EvidenceSpec => []EvidenceTypeOK
<1>1. EvidenceInv => EvidenceTypeOK
  BY DEF EvidenceInv
<1> QED
  BY <1>1, EvidenceInvariant, PTL

(* For any Pods with any containers, and any number of collections,         *)
(* replacements and crashes: the two streams of a container are of one Pod, *)
(* and those of a container of the Pod in the evidence are that Pod's, or   *)
(* are marked as kept for it from an earlier one.                           *)
THEOREM EvidenceOfOnePod == EvidenceSpec => []EvidenceIsOfOnePod
<1>1. EvidenceInv => EvidenceIsOfOnePod
  BY DEF EvidenceInv
<1> QED
  BY <1>1, EvidenceInvariant, PTL

-----------------------------------------------------------------------------
(* RecoveryVerification.                                                    *)

(* The least and the greatest of two numbers. *)
LEMMA OfTwo ==
    ASSUME NEW a \in Int, NEW b \in Int
    PROVE  /\ Max({a, b}) = IF a < b THEN b ELSE a
           /\ Min({a, b}) = IF a < b THEN a ELSE b
<1>1. Max({a, b}) = IF a < b THEN b ELSE a
  BY DEF Max
<1>2. Min({a, b}) = IF a < b THEN a ELSE b
  BY DEF Min
<1> QED
  BY <1>1, <1>2

(* The first members of a finite set, in some order, are members of it. *)
LEMMA FirstOfSet ==
    ASSUME NEW S, IsFiniteSet(S), NEW limit \in Nat
    PROVE  SubSeq(SetToSeq(S), 1, Min({limit, Cardinality(S)})) \in Seq(S)
<1> DEFINE n == Cardinality(S)
           most == Min({limit, n})
<1>1. n \in Nat /\ ExistsBijection(1 .. n, S)
  BY FS_CardinalityType
<1>2. \E f \in [1 .. n -> S] : IsInjective(f)
  BY <1>1 DEF ExistsBijection, Bijection, Injection
<1>3. SetToSeq(S) \in [1 .. n -> S]
  BY <1>2 DEF SetToSeq
<1>4. most \in Nat /\ most <= n
  <2>1. most = IF limit < n THEN limit ELSE n
    <3> HIDE DEF n
    <3> QED
      BY <1>1, OfTwo
  <2> HIDE DEF n, most
  <2> QED
    BY <1>1, <2>1
<1> HIDE DEF n, most
<1>5. \A i \in 1 .. most : SetToSeq(S)[i] \in S
  BY <1>1, <1>3, <1>4
<1>6. SubSeq(SetToSeq(S), 1, most) \in Seq(S)
  BY <1>4, <1>5, SubSeqProperties
<1> QED
  BY <1>6 DEF most, n

(* What a probe can return. *)
Probes == [status : {"none", "completed", "unknown", "progressing"}, recovered : BOOLEAN,
           pods : SUBSET PodNames, terminal : BOOLEAN]

(* A pod there was that may prove a recovery: a new one, if there must be any. *)
MayProve(pod, must) == pod.born # 0 /\ (must => pod.born >= MutationStarted - Tolerance)

(* The pods of a recovered probe may prove it, and only those are assessed. *)
AssessedAreNew ==
    /\ probe \in Probes /\ todo \in Seq(probe.pods)
    /\ probe.recovered => probe.pods # {}
    /\ \A p \in probe.pods : MayProve(pods[p], mutates)
    /\ \A p \in PodNames : pods[p].there => pods[p].born # 0
    /\ step \in {"assess", "window", "reprobe"} => probe.recovered

(* A sample was taken of such a pod, whose restarts only grow. *)
SamplesArePast ==
    \A p \in PodNames :
        /\ firstRestarts[p] = -1 <=> restartSamples[p] = -1
        /\ restartSamples[p] >= 0 =>
              /\ MayProve(pods[p], mutates)
              /\ pods[p].restarts >= restartSamples[p]

(* A sample differs from the first one only in a round that has failed. *)
SamplesAgree ==
    \/ \A p \in PodNames : restartSamples[p] = firstRestarts[p]
    \/ step = "assess" /\ verdict = "failed"
    \/ step = "returned" /\ verified.status # "verified"

(* The window starts with the first round that passes, and from round to    *)
(* round in it no more time passes than a wait and a probe take.            *)
RoundsFollow ==
    /\ step \in {"grace", "probe", "wait"} => windowEnd = 0
    /\ widestGap <= VerifyInterval + ProbeSeconds
    /\ step = "window" => InWindow /\ clock - assessedAt <= 0
    /\ step = "reprobe" => InWindow /\ clock - assessedAt <= VerifyInterval
    /\ step = "assess" /\ InWindow => clock - assessedAt <= VerifyInterval + ProbeSeconds

(* The result is the last thing that is written. *)
ReturnedIsLast ==
    /\ verified.status = "verified" => step = "returned" /\ probe.recovered
    /\ step # "returned" => verified.status = "none"

(* The inductive invariant of the verification.                             *)
RecoveryInv ==
    /\ RecoveryTypeOK /\ AssessedAreNew /\ SamplesArePast /\ SamplesAgree
    /\ RoundsFollow /\ ReturnedIsLast /\ VerifiedThroughTheWindow

-----------------------------------------------------------------------------
(* _probe_plan_recovery: a probe that finds the workload recovered has      *)
(* judged pods, and new ones only where there must be any.                  *)
LEMMA ProbeResults ==
    ASSUME RecoveryTypeOK, AssessedAreNew
    PROVE  /\ ProbeResult \in Probes
           /\ ProbeResult.recovered => ProbeResult.pods # {}
           /\ \A p \in ProbeResult.pods : MayProve(pods[p], mutates)
<1>1. ForHealth \subseteq PodNames /\ \A p \in ForHealth : MayProve(pods[p], mutates)
  <2>1. ForHealth \subseteq There /\ \A p \in ForHealth : mutates => CreatedAfter(p)
    BY DEF ForHealth, Running, Cohort
  <2> QED
    BY <2>1 DEF There, AssessedAreNew, MayProve, CreatedAfter
<1>2. CASE resource = "pending"
  BY <1>2 DEF ProbeResult, Probes
<1>3. CASE resource = "unreadable" \/ (resource # "pending" /\ ForHealth = {})
  <2>1. resource # "pending"
    BY <1>3
  <2>2. ProbeResult = [status |-> IF resource = "unreadable" \/ There = {}
                                  THEN "unknown" ELSE "progressing",
                       recovered |-> FALSE, pods |-> {}, terminal |-> FALSE]
    BY <1>3, <2>1 DEF ProbeResult
  <2> QED
    BY <2>2 DEF Probes
<1>4. CASE resource # "pending" /\ resource # "unreadable" /\ ForHealth # {}
  <2>1. ProbeResult = [status |-> "completed", recovered |-> Unresolved = {},
                       pods |-> IF Unresolved = {} THEN ForHealth ELSE {},
                       terminal |-> Terminal # {}]
    BY <1>4 DEF ProbeResult
  <2>2. (Unresolved = {}) \in BOOLEAN /\ (Terminal # {}) \in BOOLEAN
    OBVIOUS
  <2>3. ProbeResult \in Probes
    BY <1>1, <2>1, <2>2 DEF Probes
  <2>4. ProbeResult.recovered = (Unresolved = {})
        /\ ProbeResult.pods = IF Unresolved = {} THEN ForHealth ELSE {}
    BY <2>1
  <2> QED
    BY <1>1, <1>4, <2>3, <2>4
<1> QED
  BY <1>2, <1>3, <1>4

(* Nothing was observed yet.                                                *)
LEMMA RecoveryInitInv ==
    ASSUME RecoveryInit
    PROVE  RecoveryInv
<1>1. RecoveryTypeOK
  <2>1. pods \in [PodNames -> [there : BOOLEAN, revision : {"old", "new"}, born : Int,
                               ready : BOOLEAN, restarts : 0 .. MaxRestarts,
                               failed : BOOLEAN]]
    <3>1. 0 \in 0 .. MaxRestarts
      BY VerifyAssumption
    <3>2. PICK p \in PodNames, born \in {-3, -2}, revision \in {"old", "new"}, ready \in BOOLEAN :
            pods = [q \in PodNames |->
                      IF q = p THEN NewPod(revision, born, ready) ELSE NoPod]
      BY DEF RecoveryInit
    <3>3. NoPod \in [there : BOOLEAN, revision : {"old", "new"}, born : Int,
                     ready : BOOLEAN, restarts : 0 .. MaxRestarts, failed : BOOLEAN]
      BY <3>1 DEF NoPod
    <3>4. NewPod(revision, born, ready) \in [there : BOOLEAN, revision : {"old", "new"},
                  born : Int, ready : BOOLEAN, restarts : 0 .. MaxRestarts, failed : BOOLEAN]
      BY <3>1, <3>2 DEF NewPod
    <3> QED
      BY <3>2, <3>3, <3>4
  <2>2. /\ restartSamples \in [PodNames -> -1 .. MaxRestarts]
        /\ firstRestarts \in [PodNames -> -1 .. MaxRestarts]
        /\ clock \in Nat /\ moves \in 0 .. MaxMoves
        /\ windowEnd \in Nat /\ assessedAt \in Nat /\ widestGap \in Nat
    BY VerifyAssumption DEF RecoveryInit
  <2>3. probe.pods \subseteq PodNames /\ todo \in Seq(PodNames)
    BY DEF RecoveryInit, NotProbed
  <2>4. observed \in BOOLEAN /\ stopped \in BOOLEAN /\ mutates \in BOOLEAN
    BY DEF RecoveryInit
  <2>5. /\ failing \subseteq PodNames
        /\ resource \in {"none", "pending", "unreadable", "converged"}
        /\ step \in {"grace", "probe", "wait", "assess", "window", "reprobe", "returned"}
        /\ verdict \in {"passed", "failed", "unknown"}
        /\ verified.status \in {"none", "cancelled", "needs_followup", "unknown",
                                "verified", "completed", "progressing"}
    BY DEF RecoveryInit
  <2> QED
    BY <2>1, <2>2, <2>3, <2>4, <2>5 DEF RecoveryTypeOK
<1>2. AssessedAreNew /\ SamplesAgree /\ ReturnedIsLast /\ VerifiedThroughTheWindow
  <2>1. \A p \in PodNames : pods[p].there => pods[p].born # 0
    <3>1. PICK p \in PodNames, born \in {-3, -2}, revision \in {"old", "new"}, ready \in BOOLEAN :
            pods = [q \in PodNames |->
                      IF q = p THEN NewPod(revision, born, ready) ELSE NoPod]
      BY DEF RecoveryInit
    <3> QED
      BY <3>1 DEF NoPod, NewPod
  <2> QED
    BY <2>1 DEF RecoveryInit, AssessedAreNew, SamplesAgree, ReturnedIsLast,
                VerifiedThroughTheWindow, Probes, NotProbed
<1>3. SamplesArePast /\ RoundsFollow
  BY VerifyAssumption DEF RecoveryInit, SamplesArePast, RoundsFollow
<1> QED
  BY <1>1, <1>2, <1>3 DEF RecoveryInv

-----------------------------------------------------------------------------
(* The grace period and a probe of the workload.                            *)
LEMMA GraceKeepsRecovery ==
    ASSUME RecoveryInv, WaitGrace
    PROVE  RecoveryInv'
<1>1. /\ step = "grace" /\ step' \in {"grace", "probe", "returned"}
      /\ clock' \in {clock, clock + 1}
      /\ verified'.status \in {verified.status, "cancelled"}
      /\ step' # "returned" => verified' = verified
  BY DEF WaitGrace, Finish, Later
<1>2. verified.status = "none" /\ clock' \in Nat
  BY <1>1 DEF RecoveryInv, ReturnedIsLast, RecoveryTypeOK
<1>3. RecoveryTypeOK'
  BY <1>1, <1>2 DEF RecoveryInv, RecoveryTypeOK, WaitGrace, world
<1>4. AssessedAreNew' /\ SamplesArePast'
  BY <1>1 DEF RecoveryInv, AssessedAreNew, SamplesArePast, WaitGrace, world
<1>5. SamplesAgree' /\ ReturnedIsLast' /\ VerifiedThroughTheWindow'
  BY <1>1, <1>2 DEF RecoveryInv, SamplesAgree, ReturnedIsLast, VerifiedThroughTheWindow,
                    WaitGrace
<1>6. RoundsFollow'
  BY <1>1 DEF RecoveryInv, RoundsFollow, WaitGrace, InWindow
<1> QED
  BY <1>3, <1>4, <1>5, <1>6 DEF RecoveryInv

LEMMA ProbeKeepsRecovery ==
    ASSUME RecoveryInv, Probe
    PROVE  RecoveryInv'
<1>1. /\ step \in {"probe", "reprobe"} /\ step' \in {"wait", "assess", "returned"}
      /\ step' = "wait" <=> step = "probe"
      /\ step' = "assess" => step = "reprobe" /\ ProbeResult.recovered
      /\ verified'.status \in {verified.status, "needs_followup"}
      /\ step' # "returned" => verified' = verified
  BY DEF Probe, Finish
<1>2. /\ verified.status = "none" /\ verified'.status \in {"none", "needs_followup"}
      /\ step' # "returned" => verified'.status = "none"
  BY <1>1 DEF RecoveryInv, ReturnedIsLast
<1>3. clock \in Nat /\ clock' \in Nat /\ clock' <= clock + ProbeSeconds
  BY SMTT(20), VerifyAssumption DEF RecoveryInv, RecoveryTypeOK, Probe, Elapsed, Later
<1>4. todo' \in Seq(ProbeResult.pods) /\ ProbeResult.pods \subseteq PodNames
  <2>1. ProbeResult.pods \subseteq PodNames
    BY ProbeResults DEF RecoveryInv, Probes
  <2>2. IsFiniteSet(ProbeResult.pods)
    BY <2>1, FS_Subset, VerifyAssumption
  <2>3. AssessLimit \in Nat
    BY VerifyAssumption
  <2> QED
    BY <2>1, <2>2, <2>3, FirstOfSet DEF Probe
<1>5. probe' = ProbeResult /\ pods' = pods /\ mutates' = mutates /\ verdict' = "passed"
  BY DEF Probe, world
<1>6. todo' \in Seq(PodNames)
  BY <1>4, SeqMonotonic
<1>7. RecoveryTypeOK'
  BY <1>1, <1>2, <1>3, <1>4, <1>5, <1>6 DEF RecoveryInv, RecoveryTypeOK, Probe, world
<1>8. AssessedAreNew'
  BY <1>1, <1>4, <1>5, ProbeResults DEF RecoveryInv, AssessedAreNew
<1>9. SamplesArePast'
  BY <1>5 DEF RecoveryInv, SamplesArePast, Probe
<1>10. SamplesAgree' /\ ReturnedIsLast' /\ VerifiedThroughTheWindow'
  BY <1>1, <1>2 DEF RecoveryInv, SamplesAgree, ReturnedIsLast, VerifiedThroughTheWindow,
                    Probe
<1>11. RoundsFollow'
  <2>1. UNCHANGED <<windowEnd, assessedAt, widestGap>>
    BY DEF Probe
  <2>2. assessedAt \in Nat /\ VerifyInterval \in Nat /\ ProbeSeconds \in Nat
    BY VerifyAssumption DEF RecoveryInv, RecoveryTypeOK
  <2>3. CASE step' = "assess"
    <3>1. clock - assessedAt <= VerifyInterval
      BY <1>1, <2>3 DEF RecoveryInv, RoundsFollow
    <3>2. ASSUME NEW t \in Nat, t <= clock + ProbeSeconds
          PROVE  t - assessedAt <= VerifyInterval + ProbeSeconds
      BY <1>3, <2>2, <3>1, <3>2
    <3>3. clock' - assessedAt <= VerifyInterval + ProbeSeconds
      BY <1>3, <3>2
    <3> QED
      BY <2>1, <2>3, <3>3 DEF RecoveryInv, RoundsFollow, InWindow
  <2>4. CASE step' # "assess"
    BY <1>1, <2>1, <2>4 DEF RecoveryInv, RoundsFollow, InWindow
  <2> QED
    BY <2>3, <2>4
<1> QED
  BY <1>7, <1>8, <1>9, <1>10, <1>11 DEF RecoveryInv

(* The poll waits and counts what it sees.                                  *)
LEMMA WaitKeepsRecovery ==
    ASSUME RecoveryInv, WaitRecovered
    PROVE  RecoveryInv'
<1>1. /\ step = "wait" /\ step' \in {"assess", "probe", "returned"}
      /\ step' = "assess" => probe.recovered
      /\ verified'.status \in {verified.status, probe.status, "needs_followup", "cancelled"}
      /\ step' # "returned" => verified' = verified
      /\ clock' \in {clock, Min({clock + VerifyInterval, Deadline})}
  BY DEF WaitRecovered, Finish, Later
<1>2. /\ verified'.status \in {"none", "completed", "unknown", "progressing",
                               "needs_followup", "cancelled"}
      /\ step' # "returned" => verified'.status = "none"
  BY <1>1 DEF RecoveryInv, ReturnedIsLast, AssessedAreNew, Probes
<1>3. clock' \in Nat
  <2>1. clock \in Nat /\ VerifyInterval \in Nat /\ Deadline \in Nat
    BY VerifyAssumption DEF RecoveryInv, RecoveryTypeOK, Deadline
  <2>2. Min({clock + VerifyInterval, Deadline}) \in Nat
    <3> DEFINE next == clock + VerifyInterval
    <3>1. next \in Nat
      BY <2>1
    <3> HIDE DEF next
    <3>2. Min({next, Deadline}) = IF next < Deadline THEN next ELSE Deadline
      BY <2>1, <3>1, OfTwo
    <3>3. Min({next, Deadline}) \in Nat
      BY <2>1, <3>1, <3>2
    <3> QED
      BY <3>3 DEF next
  <2> QED
    BY <1>1, <2>1, <2>2
<1>4. RecoveryTypeOK'
  BY <1>1, <1>2, <1>3 DEF RecoveryInv, RecoveryTypeOK, WaitRecovered, world
<1>5. AssessedAreNew' /\ SamplesArePast'
  BY <1>1 DEF RecoveryInv, AssessedAreNew, SamplesArePast, WaitRecovered, world
<1>6. SamplesAgree' /\ ReturnedIsLast' /\ VerifiedThroughTheWindow'
  BY <1>1, <1>2 DEF RecoveryInv, SamplesAgree, ReturnedIsLast, VerifiedThroughTheWindow,
                    WaitRecovered
<1>7. RoundsFollow'
  BY <1>1 DEF RecoveryInv, RoundsFollow, WaitRecovered, InWindow
<1> QED
  BY <1>4, <1>5, <1>6, <1>7 DEF RecoveryInv

(* _assess_recovery_criteria: a restart since the last sample fails it. *)
LEMMA RestartFails ==
    ASSUME NEW p \in PodNames, NEW external \in {"passed", "failed", "unknown"}
    PROVE  /\ CriteriaOf(p, external) \in {"passed", "failed", "unknown"}
           /\ ~RestartsStable(p) => CriteriaOf(p, external) = "failed"
           /\ \A a \in {"passed", "failed", "unknown"} :
                 /\ Joined(a, CriteriaOf(p, external)) \in {"passed", "failed", "unknown"}
                 /\ a = "failed" \/ CriteriaOf(p, external) = "failed" =>
                       Joined(a, CriteriaOf(p, external)) = "failed"
<1>1. CriteriaOf(p, external) \in {"passed", "failed", "unknown"}
      /\ (~RestartsStable(p) => CriteriaOf(p, external) = "failed")
  BY DEF CriteriaOf
<1>2. ASSUME NEW a \in {"passed", "failed", "unknown"},
             NEW b \in {"passed", "failed", "unknown"}
      PROVE  /\ Joined(a, b) \in {"passed", "failed", "unknown"}
             /\ a = "failed" \/ b = "failed" => Joined(a, b) = "failed"
  BY DEF Joined
<1> QED
  BY <1>1, <1>2

(* An observation is assessed by the phase it is made in.                   *)
LEMMA AssessKeepsRecovery ==
    ASSUME RecoveryInv, Assess
    PROVE  RecoveryInv'
<1> DEFINE p == Head(todo)
<1>1. /\ step = "assess" /\ verified.status = "none" /\ probe' = probe /\ pods' = pods
      /\ mutates' = mutates /\ clock' = clock /\ windowEnd' = windowEnd /\ assessedAt' = assessedAt
      /\ widestGap' = widestGap
  BY DEF Assess, world, RecoveryInv, ReturnedIsLast
<1>2. p \in probe.pods /\ Tail(todo) \in Seq(probe.pods) /\ probe.pods \subseteq PodNames
  BY HeadTailProperties DEF Assess, RecoveryInv, AssessedAreNew, Probes
<1>3. CASE Finish("unknown", "none") /\ UNCHANGED <<verdict, restartSamples, firstRestarts, todo>>
  <2>1. step' = "returned" /\ verified'.status = "unknown"
    BY <1>3 DEF Finish
  <2>2. RecoveryTypeOK'
    BY <1>1, <1>3, <2>1 DEF RecoveryInv, RecoveryTypeOK, Assess, world
  <2>3. AssessedAreNew' /\ SamplesArePast' /\ SamplesAgree' /\ ReturnedIsLast'
    BY <1>1, <1>3, <2>1
    DEF RecoveryInv, AssessedAreNew, SamplesArePast, SamplesAgree, ReturnedIsLast
  <2>4. RoundsFollow' /\ VerifiedThroughTheWindow'
    BY <1>1, <2>1 DEF RecoveryInv, RoundsFollow, VerifiedThroughTheWindow
  <2> QED
    BY <2>2, <2>3, <2>4 DEF RecoveryInv
<1>4. CASE /\ \E external \in {"passed", "failed", "unknown"} :
                 verdict' = Joined(verdict, CriteriaOf(p, external))
           /\ restartSamples' = [restartSamples EXCEPT ![p] = pods[p].restarts]
           /\ firstRestarts' = [firstRestarts EXCEPT
                 ![p] = IF @ = -1 THEN pods[p].restarts ELSE @]
           /\ todo' = Tail(todo)
           /\ UNCHANGED <<step, verified>>
  <2> HIDE DEF p
  <2>1. p \in PodNames /\ MayProve(pods[p], mutates)
        /\ pods[p].restarts \in 0 .. MaxRestarts
    BY <1>2 DEF RecoveryInv, AssessedAreNew, RecoveryTypeOK
  <2>2. PICK external \in {"passed", "failed", "unknown"} :
               verdict' = Joined(verdict, CriteriaOf(p, external))
    BY <1>4
  <2>3. /\ verdict \in {"passed", "failed", "unknown"}
        /\ verdict' \in {"passed", "failed", "unknown"}
        /\ verdict = "failed" \/ ~RestartsStable(p) => verdict' = "failed"
    BY <2>1, <2>2, RestartFails DEF RecoveryInv, RecoveryTypeOK
  <2>4. /\ restartSamples \in [PodNames -> -1 .. MaxRestarts]
        /\ firstRestarts \in [PodNames -> -1 .. MaxRestarts] /\ MaxRestarts \in Nat
    BY VerifyAssumption DEF RecoveryInv, RecoveryTypeOK
  <2>5. /\ restartSamples' \in [PodNames -> -1 .. MaxRestarts]
        /\ firstRestarts' \in [PodNames -> -1 .. MaxRestarts]
    BY <1>4, <2>1, <2>4
  <2>6. RecoveryTypeOK'
    <3>1. todo' \in Seq(PodNames)
      BY <1>2, <1>4, SeqMonotonic
    <3> QED
      BY <1>1, <1>4, <2>3, <2>5, <3>1 DEF RecoveryInv, RecoveryTypeOK, Assess, world
  <2>7. AssessedAreNew'
    BY <1>1, <1>2, <1>4 DEF RecoveryInv, AssessedAreNew
  <2>8. SamplesArePast'
    <3>1. restartSamples'[p] = pods[p].restarts
          /\ firstRestarts'[p] = IF firstRestarts[p] = -1 THEN pods[p].restarts
                                 ELSE firstRestarts[p]
      BY <1>4, <2>1, <2>4
    <3>2. \A q \in PodNames \ {p} : restartSamples'[q] = restartSamples[q]
                                   /\ firstRestarts'[q] = firstRestarts[q]
      BY <1>4, <2>1, <2>4
    <3>3. restartSamples'[p] # -1 /\ firstRestarts'[p] # -1
      BY <2>1, <3>1
    <3> QED
      BY <1>1, <2>1, <3>1, <3>2, <3>3 DEF RecoveryInv, SamplesArePast
  <2>9. SamplesAgree'
    <3>1. CASE verdict' = "failed"
      BY <1>1, <1>4, <3>1 DEF SamplesAgree
    <3>2. CASE verdict' # "failed"
      <4>1. verdict # "failed" /\ RestartsStable(p)
        BY <2>3, <3>2
      <4>2. \A q \in PodNames : restartSamples[q] = firstRestarts[q]
        BY <1>1, <4>1 DEF RecoveryInv, SamplesAgree
      <4>3. CASE restartSamples[p] = -1
        BY <1>4, <2>1, <2>4, <4>2, <4>3 DEF SamplesAgree
      <4>4. CASE restartSamples[p] # -1
        <5>1. restartSamples[p] >= 0
          BY <2>1, <2>4, <4>4
        <5>2. pods[p].restarts = restartSamples[p]
          <6>1. pods[p].restarts <= restartSamples[p]
            BY <4>1, <5>1 DEF RestartsStable
          <6>2. pods[p].restarts >= restartSamples[p]
            BY <2>1, <5>1 DEF RecoveryInv, SamplesArePast
          <6> QED
            BY <2>1, <2>4, <6>1, <6>2
        <5> QED
          BY <1>4, <2>1, <2>4, <4>2, <4>4, <5>2 DEF SamplesAgree
      <4> QED
        BY <4>3, <4>4
    <3> QED
      BY <3>1, <3>2
  <2>10. ReturnedIsLast' /\ VerifiedThroughTheWindow'
    BY <1>1, <1>4 DEF RecoveryInv, ReturnedIsLast, VerifiedThroughTheWindow
  <2>11. RoundsFollow'
    BY <1>1, <1>4 DEF RecoveryInv, RoundsFollow, InWindow
  <2> QED
    BY <2>6, <2>7, <2>8, <2>9, <2>10, <2>11 DEF RecoveryInv
<1> QED
  BY <1>3, <1>4 DEF Assess

(* The judgement of the workload opens the window of the service.           *)
LEMMA JudgeKeepsRecovery ==
    ASSUME RecoveryInv, Judge
    PROVE  RecoveryInv'
<1>1. /\ step = "assess" /\ assessedAt' = clock /\ clock' = clock
      /\ verified.status = "none" /\ probe.recovered /\ probe' = probe
      /\ clock \in Nat /\ assessedAt \in Nat /\ windowEnd \in Nat /\ widestGap \in Nat
      /\ VerifyInterval \in Nat /\ ProbeSeconds \in Nat /\ Stability \in Nat
  BY VerifyAssumption
  DEF Judge, RecoveryInv, ReturnedIsLast, AssessedAreNew, RecoveryTypeOK
<1>2. /\ widestGap' \in Nat /\ widestGap' <= VerifyInterval + ProbeSeconds
  <2>1. CASE InWindow
    <3> DEFINE gap == clock - assessedAt
    <3>1. gap \in Int /\ gap <= VerifyInterval + ProbeSeconds
          /\ widestGap <= VerifyInterval + ProbeSeconds
      BY <1>1, <2>1 DEF RecoveryInv, RoundsFollow
    <3>2. widestGap' = Max({widestGap, gap})
      BY <2>1 DEF Judge
    <3> HIDE DEF gap
    <3>3. widestGap' = IF widestGap < gap THEN gap ELSE widestGap
      BY <1>1, <3>1, <3>2, OfTwo
    <3> QED
      BY <1>1, <3>1, <3>3
  <2>2. CASE ~InWindow
    BY <1>1, <2>2 DEF Judge, RecoveryInv, RoundsFollow
  <2> QED
    BY <2>1, <2>2
<1>3. /\ step' \in {"returned", "window"}
      /\ step' = "window" => verified' = verified /\ windowEnd' > 0 /\ verdict = "passed"
      /\ step' = "returned" => windowEnd' = windowEnd
      /\ windowEnd' \in Nat
      /\ verified'.status \in {"none", "needs_followup", "unknown", "verified"}
      /\ verified'.status = "verified" =>
            step' = "returned" /\ verdict = "passed" /\ ~InWindow /\ Stability = 0
      /\ step' # "returned" => verified'.status = "none"
  <2>1. CASE verdict = "failed" \/ (verdict = "unknown" /\ InWindow)
    BY <1>1, <2>1 DEF Judge, Finish
  <2>2. CASE verdict = "unknown" /\ ~InWindow
    <3>1. Finish("unknown", "none") /\ UNCHANGED windowEnd
      BY <2>2 DEF Judge
    <3> QED
      BY <1>1, <3>1 DEF Finish
  <2>3. CASE verdict = "passed" /\ ~InWindow /\ Stability = 0
    <3>1. Finish("verified", "true") /\ UNCHANGED windowEnd
      BY <2>3 DEF Judge
    <3> QED
      BY <1>1, <2>3, <3>1 DEF Finish
  <2>4. CASE verdict = "passed" /\ ~InWindow /\ Stability # 0
    <3>1. windowEnd' = clock + Stability /\ step' = "window" /\ UNCHANGED verified
      <4>1. Stability > 0
        BY <1>1, <2>4
      <4> QED
        BY <2>4, <4>1 DEF Judge
    <3> QED
      BY <1>1, <2>4, <3>1
  <2>5. CASE verdict = "passed" /\ InWindow
    <3>1. step' = "window" /\ UNCHANGED <<verified, windowEnd>>
      BY <2>5 DEF Judge
    <3> QED
      BY <1>1, <2>5, <3>1 DEF InWindow
  <2>6. verdict \in {"passed", "failed", "unknown"}
    BY DEF RecoveryInv, RecoveryTypeOK
  <2> QED
    BY <2>1, <2>2, <2>3, <2>4, <2>5, <2>6
<1>4. RecoveryTypeOK'
  BY <1>1, <1>2, <1>3 DEF RecoveryInv, RecoveryTypeOK, Judge, world
<1>5. AssessedAreNew' /\ SamplesArePast'
  BY <1>1, <1>3 DEF RecoveryInv, AssessedAreNew, SamplesArePast, Judge, world
<1>6. SamplesAgree' /\ ReturnedIsLast'
  BY <1>1, <1>3 DEF RecoveryInv, SamplesAgree, ReturnedIsLast, Judge
<1>7. RoundsFollow'
  BY <1>1, <1>2, <1>3 DEF RoundsFollow, InWindow
<1>8. VerifiedThroughTheWindow'
  <2>1. ASSUME verified'.status = "verified"
        PROVE  \A p \in PodNames : restartSamples'[p] = firstRestarts'[p]
    BY <1>1, <1>3, <2>1 DEF RecoveryInv, SamplesAgree, Judge
  <2>2. ASSUME verified'.status = "verified"
        PROVE  clock' >= windowEnd' /\ ~(Stability > 0)
    BY <1>1, <1>3, <2>2 DEF InWindow
  <2> QED
    BY <2>1, <2>2 DEF VerifiedThroughTheWindow
<1> QED
  BY <1>4, <1>5, <1>6, <1>7, <1>8 DEF RecoveryInv

(* The window counts what holds in a row.                                   *)
LEMMA WindowKeepsRecovery ==
    ASSUME RecoveryInv, Window
    PROVE  RecoveryInv'
<1>1. /\ step = "window" /\ verified.status = "none" /\ windowEnd > 0
      /\ clock - assessedAt <= 0
      /\ clock \in Nat /\ assessedAt \in Nat /\ windowEnd \in Nat /\ VerifyInterval \in Nat
      /\ windowEnd' = windowEnd /\ assessedAt' = assessedAt /\ widestGap' = widestGap
  BY VerifyAssumption
  DEF Window, RecoveryInv, ReturnedIsLast, RecoveryTypeOK, RoundsFollow, InWindow
<1>2. CASE clock >= windowEnd
  <2>1. step' = "returned" /\ verified'.status = "verified" /\ clock' = clock
    <3>1. ~(clock < windowEnd)
      BY <1>1, <1>2
    <3> QED
      BY <1>2, <3>1 DEF Window, Finish
  <2>2. RecoveryTypeOK'
    BY <2>1 DEF RecoveryInv, RecoveryTypeOK, Window, world
  <2>3. AssessedAreNew' /\ SamplesArePast' /\ ReturnedIsLast'
    BY <1>1, <2>1
    DEF RecoveryInv, AssessedAreNew, SamplesArePast, ReturnedIsLast, Window, world
  <2>4. \A p \in PodNames : restartSamples'[p] = firstRestarts'[p]
    BY <1>1 DEF RecoveryInv, SamplesAgree, Window
  <2>5. SamplesAgree'
    BY <2>4 DEF SamplesAgree
  <2>6. RoundsFollow'
    BY <1>1, <2>1 DEF RecoveryInv, RoundsFollow
  <2>7. VerifiedThroughTheWindow'
    BY <1>1, <1>2, <2>1, <2>4, <2>6 DEF VerifiedThroughTheWindow, RoundsFollow, InWindow
  <2> QED
    BY <2>2, <2>3, <2>5, <2>6, <2>7 DEF RecoveryInv
<1>3. CASE clock < windowEnd /\ stopped
  <2>1. step' = "returned" /\ verified'.status = "cancelled" /\ clock' = clock
    <3>1. ~(clock >= windowEnd)
      BY <1>1, <1>3
    <3> QED
      BY <1>3, <3>1 DEF Window, Finish
  <2>2. RecoveryTypeOK'
    BY <2>1 DEF RecoveryInv, RecoveryTypeOK, Window, world
  <2>3. AssessedAreNew' /\ SamplesArePast' /\ ReturnedIsLast' /\ SamplesAgree'
    BY <1>1, <2>1
    DEF RecoveryInv, AssessedAreNew, SamplesArePast, ReturnedIsLast, SamplesAgree, Window,
        world
  <2>4. RoundsFollow'
    BY <1>1, <2>1 DEF RecoveryInv, RoundsFollow
  <2>5. VerifiedThroughTheWindow'
    BY <2>1 DEF VerifiedThroughTheWindow
  <2> QED
    BY <2>2, <2>3, <2>4, <2>5 DEF RecoveryInv
<1>4. CASE clock < windowEnd /\ ~stopped
  <2> DEFINE next == clock + VerifyInterval
  <2>1. step' = "reprobe" /\ UNCHANGED verified /\ clock' = Min({next, windowEnd})
    <3>1. ~(clock >= windowEnd)
      BY <1>1, <1>4
    <3> QED
      BY <1>4, <3>1 DEF Window, Later
  <2>2. next \in Nat
    BY <1>1
  <2>3. clock' = IF next < windowEnd THEN next ELSE windowEnd
    <3> HIDE DEF next
    <3> QED
      BY <1>1, <2>1, <2>2, OfTwo
  <2>4. clock' \in Nat /\ clock' - assessedAt <= VerifyInterval
    BY <1>1, <2>3
  <2>5. RecoveryTypeOK'
    BY <2>1, <2>4 DEF RecoveryInv, RecoveryTypeOK, Window, world
  <2>6. AssessedAreNew' /\ SamplesArePast' /\ ReturnedIsLast' /\ SamplesAgree'
    BY <1>1, <2>1
    DEF RecoveryInv, AssessedAreNew, SamplesArePast, ReturnedIsLast, SamplesAgree, Window,
        world
  <2>7. RoundsFollow'
    BY <1>1, <2>1, <2>4 DEF RecoveryInv, RoundsFollow, InWindow
  <2>8. VerifiedThroughTheWindow'
    BY <1>1, <2>1 DEF VerifiedThroughTheWindow
  <2> QED
    BY <2>5, <2>6, <2>7, <2>8 DEF RecoveryInv
<1>5. stopped \in BOOLEAN
  BY DEF RecoveryInv, RecoveryTypeOK
<1> QED
  BY <1>1, <1>2, <1>3, <1>4, <1>5

(* A pod, as RecoveryTypeOK types it. *)
PodRecords == [there : BOOLEAN, revision : {"old", "new"}, born : Int, ready : BOOLEAN,
               restarts : 0 .. MaxRestarts, failed : BOOLEAN]

(* What the pods do leaves their birth as it is and their restarts growing. *)
LEMMA PodsMoveOn ==
    ASSUME RecoveryInv, NEW p \in PodNames, PodMoves(p)
    PROVE  /\ pods' \in [PodNames -> PodRecords]
           /\ \A q \in PodNames : pods[q].born # 0 =>
                 pods'[q].born = pods[q].born /\ pods'[q].restarts >= pods[q].restarts
           /\ \A q \in PodNames : pods'[q].there => pods'[q].born # 0
<1>1. /\ pods \in [PodNames -> PodRecords] /\ clock \in Nat /\ MaxRestarts \in Nat
  BY VerifyAssumption DEF RecoveryInv, RecoveryTypeOK, PodRecords
<1>2. ASSUME NEW pod \in PodRecords, pods' = [pods EXCEPT ![p] = pod],
             pods[p].born # 0 =>
                pod.born = pods[p].born /\ pod.restarts >= pods[p].restarts,
             pod.born # 0
      PROVE  /\ pods' \in [PodNames -> PodRecords]
             /\ \A q \in PodNames : pods[q].born # 0 =>
                   pods'[q].born = pods[q].born /\ pods'[q].restarts >= pods[q].restarts
             /\ \A q \in PodNames : pods'[q].there => pods'[q].born # 0
  <2>1. \A q \in PodNames : pods[q].restarts >= pods[q].restarts
    BY <1>1 DEF PodRecords
  <2>2. \A q \in PodNames : pods[q].there => pods[q].born # 0
    BY DEF RecoveryInv, AssessedAreNew
  <2> QED
    BY <1>1, <1>2, <2>1, <2>2
<1>3. CASE /\ ~pods[p].there /\ pods[p].born = 0
           /\ \E r \in {"old", "new"}, ready \in BOOLEAN :
                 Set(p, NewPod(r, clock + 1, ready))
  <2>1. PICK r \in {"old", "new"}, ready \in BOOLEAN :
           Set(p, NewPod(r, clock + 1, ready))
    BY <1>3
  <2> DEFINE pod == NewPod(r, clock + 1, ready)
  <2>2. clock + 1 \in Nat /\ 0 \in 0 .. MaxRestarts
    BY <1>1
  <2>3. pod \in PodRecords
    BY <2>2 DEF NewPod, PodRecords
  <2>4. pods[p].born = 0 /\ pod.born # 0
    BY <1>1, <1>3 DEF NewPod
  <2>5. pods' = [pods EXCEPT ![p] = pod]
    BY <2>1 DEF Set
  <2> HIDE DEF pod
  <2> QED
    BY <1>2, <2>3, <2>4, <2>5
<1>4. CASE pods[p].there
  <2>1. /\ pods[p] \in PodRecords /\ pods[p].born \in Int /\ pods[p].restarts \in 0 .. MaxRestarts
        /\ pods[p].born # 0
    BY <1>1, <1>4 DEF PodRecords, RecoveryInv, AssessedAreNew
  <2>3. CASE Set(p, [pods[p] EXCEPT !.ready = ~@])
    <3> DEFINE pod == [pods[p] EXCEPT !.ready = ~@]
    <3>1. pod \in PodRecords /\ pod.born = pods[p].born /\ pod.restarts >= pods[p].restarts
      <4>1. pod \in PodRecords /\ pod.born = pods[p].born /\ pod.restarts = pods[p].restarts
        BY <2>1 DEF PodRecords
      <4> HIDE DEF pod
      <4> QED
        BY <2>1, <4>1
    <3>2. pods' = [pods EXCEPT ![p] = pod]
      BY <2>3 DEF Set
    <3> HIDE DEF pod
    <3> QED
      BY <1>2, <2>1, <3>1, <3>2
  <2>4. CASE pods[p].restarts < MaxRestarts /\ Set(p, [pods[p] EXCEPT !.restarts = @ + 1])
    <3> DEFINE pod == [pods[p] EXCEPT !.restarts = @ + 1]
    <3>1. pod \in PodRecords /\ pod.born = pods[p].born /\ pod.restarts >= pods[p].restarts
      <4>1. pods[p].restarts + 1 \in 0 .. MaxRestarts
        BY <1>1, <2>1, <2>4
      <4> QED
        BY <2>1, <4>1 DEF PodRecords
    <3>2. pods' = [pods EXCEPT ![p] = pod]
      BY <2>4 DEF Set
    <3> HIDE DEF pod
    <3> QED
      BY <1>2, <2>1, <3>1, <3>2
  <2>5. CASE Set(p, [pods[p] EXCEPT !.failed = TRUE, !.ready = FALSE])
    <3> DEFINE pod == [pods[p] EXCEPT !.failed = TRUE, !.ready = FALSE]
    <3>1. pod \in PodRecords /\ pod.born = pods[p].born /\ pod.restarts >= pods[p].restarts
      <4>1. pod \in PodRecords /\ pod.born = pods[p].born /\ pod.restarts = pods[p].restarts
        BY <2>1 DEF PodRecords
      <4> HIDE DEF pod
      <4> QED
        BY <2>1, <4>1
    <3>2. pods' = [pods EXCEPT ![p] = pod]
      BY <2>5 DEF Set
    <3> HIDE DEF pod
    <3> QED
      BY <1>2, <2>1, <3>1, <3>2
  <2>6. CASE Set(p, [pods[p] EXCEPT !.there = FALSE, !.ready = FALSE])
    <3> DEFINE pod == [pods[p] EXCEPT !.there = FALSE, !.ready = FALSE]
    <3>1. pod \in PodRecords /\ pod.born = pods[p].born /\ pod.restarts >= pods[p].restarts
      <4>1. pod \in PodRecords /\ pod.born = pods[p].born /\ pod.restarts = pods[p].restarts
        BY <2>1 DEF PodRecords
      <4> HIDE DEF pod
      <4> QED
        BY <2>1, <4>1
    <3>2. pods' = [pods EXCEPT ![p] = pod]
      BY <2>6 DEF Set
    <3> HIDE DEF pod
    <3> QED
      BY <1>2, <2>1, <3>1, <3>2
  <2> QED
    BY <1>4, <2>3, <2>4, <2>5, <2>6 DEF PodMoves
<1> QED
  BY <1>3, <1>4 DEF PodMoves

(* Pods move and the caller stops beside it.                                *)
LEMMA MoveKeepsRecovery ==
    ASSUME RecoveryInv, Move
    PROVE  RecoveryInv'
<1>1. /\ step' = step /\ step # "returned" /\ verified' = verified /\ probe' = probe
      /\ todo' = todo /\ restartSamples' = restartSamples
      /\ firstRestarts' = firstRestarts
      /\ mutates' = mutates /\ moves' \in 0 .. MaxMoves
  BY VerifyAssumption DEF Move, RecoveryInv, RecoveryTypeOK
<1>2. /\ pods' \in [PodNames -> PodRecords]
      /\ \A q \in PodNames : pods[q].born # 0 =>
            pods'[q].born = pods[q].born /\ pods'[q].restarts >= pods[q].restarts
      /\ \A q \in PodNames : pods'[q].there => pods'[q].born # 0
  <2>1. CASE pods' = pods
    BY <2>1 DEF RecoveryInv, RecoveryTypeOK, PodRecords, AssessedAreNew
  <2>2. CASE \E p \in PodNames : PodMoves(p)
    BY <2>2, PodsMoveOn
  <2> QED
    BY <2>1, <2>2 DEF Move
<1>3. /\ observed' \in BOOLEAN /\ failing' \subseteq PodNames
      /\ resource' \in {"none", "pending", "unreadable", "converged"}
  BY DEF Move, RecoveryInv, RecoveryTypeOK, There
<1>4. RecoveryTypeOK'
  BY <1>1, <1>2, <1>3 DEF RecoveryInv, RecoveryTypeOK, PodRecords, Move
<1>5. AssessedAreNew'
  <2>1. \A p \in probe.pods : p \in PodNames /\ MayProve(pods[p], mutates)
    BY DEF RecoveryInv, AssessedAreNew, Probes
  <2>2. \A p \in probe.pods : MayProve(pods'[p], mutates)
    BY <1>2, <2>1 DEF MayProve
  <2> QED
    BY <1>1, <1>2, <2>2 DEF RecoveryInv, AssessedAreNew
<1>6. SamplesArePast'
  <2>1. ASSUME NEW q \in PodNames, restartSamples[q] >= 0
        PROVE  MayProve(pods'[q], mutates) /\ pods'[q].restarts >= restartSamples[q]
    <3>1. MayProve(pods[q], mutates) /\ pods[q].restarts >= restartSamples[q]
      BY <2>1 DEF RecoveryInv, SamplesArePast
    <3>2. pods'[q].born = pods[q].born /\ pods'[q].restarts >= pods[q].restarts
      BY <1>2, <3>1 DEF MayProve
    <3>3. /\ pods[q].restarts \in Int /\ pods'[q].restarts \in Int
          /\ restartSamples[q] \in Int
      BY <1>2 DEF RecoveryInv, RecoveryTypeOK, PodRecords
    <3> QED
      BY <3>1, <3>2, <3>3 DEF MayProve
  <2> QED
    BY <1>1, <2>1 DEF RecoveryInv, SamplesArePast
<1>7. SamplesAgree' /\ ReturnedIsLast' /\ VerifiedThroughTheWindow'
  BY <1>1 DEF RecoveryInv, SamplesAgree, ReturnedIsLast, VerifiedThroughTheWindow, Move
<1>8. RoundsFollow'
  BY DEF RecoveryInv, RoundsFollow, Move, InWindow
<1> QED
  BY <1>4, <1>5, <1>6, <1>7, <1>8 DEF RecoveryInv

LEMMA StopKeepsRecovery ==
    ASSUME RecoveryInv, StopVerify
    PROVE  RecoveryInv'
<1>1. RecoveryTypeOK'
  BY DEF RecoveryInv, RecoveryTypeOK, StopVerify, world
<1>2. AssessedAreNew' /\ SamplesArePast' /\ SamplesAgree' /\ ReturnedIsLast'
  BY DEF RecoveryInv, AssessedAreNew, SamplesArePast, SamplesAgree, ReturnedIsLast,
         StopVerify, world
<1>3. RoundsFollow' /\ VerifiedThroughTheWindow'
  BY DEF RecoveryInv, RoundsFollow, VerifiedThroughTheWindow, InWindow, StopVerify
<1> QED
  BY <1>1, <1>2, <1>3 DEF RecoveryInv

(* Every step keeps the invariant.                                          *)
LEMMA RecoveryStep ==
    ASSUME RecoveryInv, [RecoveryNext]_recoveryVars
    PROVE  RecoveryInv'
<1>1. CASE VerifierStep
  BY <1>1, GraceKeepsRecovery, ProbeKeepsRecovery, WaitKeepsRecovery, AssessKeepsRecovery,
     JudgeKeepsRecovery, WindowKeepsRecovery DEF VerifierStep
<1>2. CASE Move \/ StopVerify
  BY <1>2, MoveKeepsRecovery, StopKeepsRecovery
<1>3. CASE UNCHANGED recoveryVars
  <2>1. RecoveryTypeOK'
    BY <1>3 DEF recoveryVars, RecoveryInv, RecoveryTypeOK
  <2>2. AssessedAreNew' /\ SamplesArePast' /\ SamplesAgree' /\ ReturnedIsLast'
    BY <1>3 DEF recoveryVars, RecoveryInv, AssessedAreNew, SamplesArePast, SamplesAgree,
                ReturnedIsLast
  <2>3. RoundsFollow' /\ VerifiedThroughTheWindow'
    BY <1>3 DEF recoveryVars, RecoveryInv, RoundsFollow, VerifiedThroughTheWindow, InWindow
  <2> QED
    BY <2>1, <2>2, <2>3 DEF RecoveryInv
<1> QED
  BY <1>1, <1>2, <1>3 DEF RecoveryNext

(* The invariant holds in every state of a verification. *)
THEOREM RecoveryInvariant == RecoverySpec => []RecoveryInv
<1>1. RecoveryInit => RecoveryInv
  BY RecoveryInitInv
<1>2. RecoveryInv /\ [RecoveryNext]_recoveryVars => RecoveryInv'
  BY RecoveryStep
<1> QED
  BY <1>1, <1>2, PTL DEF RecoverySpec

(* The state of a verification keeps its types. *)
THEOREM RecoveryTypeCorrect == RecoverySpec => []RecoveryTypeOK
<1>1. RecoveryInv => RecoveryTypeOK
  BY DEF RecoveryInv
<1> QED
  BY <1>1, RecoveryInvariant, PTL

(* _verify_plan_recovery reports a recovery only over the whole window, and, *)
(* where a change must make new pods, only on pods that are not clearly older *)
(* than it, for any number of pods, any intervals and whatever the pods do  *)
(* between two calls.                                                       *)
THEOREM RecoveryEarned == RecoverySpec => []RecoveryIsEarned
<1>1. ASSUME RecoveryInv, verified.status = "verified"
      PROVE  VerifiedOnNewPods
  <2>1. probe.pods # {} /\ \A p \in probe.pods : MayProve(pods[p], mutates)
    BY <1>1 DEF RecoveryInv, ReturnedIsLast, AssessedAreNew
  <2>2. ASSUME NEW p \in PodNames, firstRestarts[p] # -1
        PROVE  MayProve(pods[p], mutates)
    <3>1. restartSamples[p] \in -1 .. MaxRestarts /\ restartSamples[p] # -1
      BY <1>1, <2>2 DEF RecoveryInv, RecoveryTypeOK, SamplesArePast
    <3>2. MaxRestarts \in Nat
      BY VerifyAssumption
    <3>3. restartSamples[p] >= 0
      BY <3>1, <3>2
    <3> QED
      BY <1>1, <3>3 DEF RecoveryInv, SamplesArePast
  <2> QED
    BY <2>1, <2>2 DEF VerifiedOnNewPods, MayProve, CreatedAfter
<1>2. RecoveryInv => RecoveryIsEarned
  BY <1>1 DEF RecoveryInv, RecoveryIsEarned, VerifiedOnNewPods
<1> QED
  BY <1>2, RecoveryInvariant, PTL
-----------------------------------------------------------------------------
(* ProgressiveRollout.                                                      *)

(* As many steps of one size as are begun below a distance. *)
LEMMA StepsBelow ==
    ASSUME NEW a \in Nat \ {0}, NEW b \in Nat \ {0}
    PROVE  /\ CeilDiv(a, b) \in Nat
           /\ \A i \in 1 .. CeilDiv(a, b) : (i - 1) * b \in Nat /\ (i - 1) * b < a
<1> DEFINE n == CeilDiv(a, b)
<1>1. n \in Nat /\ n * b <= a + b - 1
  BY DEF CeilDiv
<1>2. ASSUME NEW i \in 1 .. n
      PROVE  (i - 1) * b \in Nat /\ (i - 1) * b < a
  <2>1. i \in Nat /\ i <= n /\ i >= 1
    BY <1>1, <1>2
  <2>2. i * b <= n * b
    BY <2>1, <1>1
  <2>3. (i - 1) * b = i * b - b
    BY <2>1
  <2>4. i * b >= b
    BY <2>1
  <2> QED
    BY <1>1, <2>1, <2>2, <2>3, <2>4
<1> QED
  BY <1>1, <1>2

(* derive_canary_policy: no batch is above the approved maximum. *)
LEMMA WeightsWithinEnvelope ==
    ASSUME NEW r \in Releases
    PROVE  /\ MostOf(r) \in 1 .. 100
           /\ Batches(r) \in Nat \ {0}
           /\ \A i \in 1 .. Batches(r) : Weights(r)[i] \in 1 .. MostOf(r)
<1> DEFINE first == StrategyOf[r].first
           most == RequestedMax(first, StrategyOf[r].max)
           step_ == StrategyOf[r].step
           start == EffectiveFirst(first, Replicas)
           top == Min({most, 99})
           below == IF start < top THEN CeilDiv(top - start, step_) ELSE 0
<1>0. first \in 1 .. 100 /\ StrategyOf[r].max \in 1 .. 100 /\ step_ \in 1 .. 100
  BY RolloutAssumption
<1> HIDE DEF first, step_
<1>1. most \in 1 .. 100
  BY <1>0 DEF RequestedMax
<1>2. top \in 1 .. most
  <2>1. top = IF most < 99 THEN most ELSE 99
    <3> HIDE DEF most
    <3>1. most \in Int /\ 99 \in Int
      BY <1>1
    <3>2. Min({most, 99}) = IF most < 99 THEN most ELSE 99
      BY <3>1, OfTwo
    <3> QED
      BY <3>2
  <2> HIDE DEF top, most
  <2> QED
    BY <1>1, <2>1
<1>3. ReplicaFloor(Replicas) \in Nat
  <2>1. Replicas \in Nat \ {0} /\ 100 \in Nat \ {0}
    BY RolloutAssumption
  <2> QED
    BY <2>1, StepsBelow DEF ReplicaFloor
<1>4. start \in Nat \ {0}
  BY <1>0, <1>3, OfTwo DEF EffectiveFirst
<1> HIDE DEF most, start, top
<1>6. /\ below \in Nat
      /\ \A i \in 1 .. below : start + (i - 1) * step_ \in 1 .. most
  <2>1. CASE start < top
    <3>1. top - start \in Nat \ {0} /\ step_ \in Nat \ {0}
      BY <2>1, <1>0, <1>1, <1>2, <1>4
    <3>2. below = CeilDiv(top - start, step_)
      BY <2>1
    <3>3. /\ below \in Nat
          /\ \A i \in 1 .. below : (i - 1) * step_ \in Nat /\ (i - 1) * step_ < top - start
      BY <3>1, <3>2, StepsBelow
    <3> HIDE DEF below
    <3> QED
      BY <3>3, <1>1, <1>2, <1>4
  <2>2. CASE ~(start < top)
    BY <2>2
  <2> QED
    BY <2>1, <2>2
<1> HIDE DEF below
<1>7. Weights(r) = [i \in 1 .. below + 1 |->
                      IF i <= below THEN start + (i - 1) * step_ ELSE top]
  BY DEF Weights, WeightsOf, below, top, start, most, first, step_
<1>8. Batches(r) = below + 1
  BY <1>6, <1>7 DEF Batches
<1>9. ASSUME NEW i \in 1 .. Batches(r)
      PROVE  Weights(r)[i] \in 1 .. most
  <2>1. CASE i <= below
    BY <2>1, <1>6, <1>7, <1>8
  <2>2. CASE ~(i <= below)
    BY <2>2, <1>2, <1>6, <1>7, <1>8
  <2> QED
    BY <2>1, <2>2
<1>10. MostOf(r) = most
  BY DEF MostOf, most, first
<1> QED
  BY <1>1, <1>6, <1>8, <1>9, <1>10

(* build_rollout: two steps for each batch, and the pause after the last. *)
LEMMA StepsOfBatches ==
    ASSUME NEW r \in Releases
    PROVE  /\ FinalPause(r) \in Nat /\ FinalPause(r) \div 2 = Batches(r) /\ Batches(r) \in Nat
           /\ \A i \in Nat : i < FinalPause(r) /\ i % 2 = 0 =>
                 /\ (i + 1) \div 2 = i \div 2 /\ i + 1 <= FinalPause(r)
                 /\ i \div 2 + 1 \in 1 .. Batches(r)
           /\ \A i \in Nat : i < FinalPause(r) /\ i % 2 = 1 =>
                 (i + 1) \div 2 = i \div 2 + 1 /\ i + 1 <= FinalPause(r)
<1>1. Batches(r) \in Nat \ {0}
  BY WeightsWithinEnvelope
<1>2. FinalPause(r) = 2 * Batches(r)
  BY DEF FinalPause
<1> QED
  BY <1>1, <1>2

-----------------------------------------------------------------------------
(* What the controller reports of a Rollout. *)
Statuses ==
    [phase : {None, "Created", "Healthy", "Progressing", "Paused", "Degraded"},
     stable : Templates \cup {NoTemplate}, current : Templates \cup {NoTemplate},
     steps : Releases \cup {None}, index : Nat, pause : {None, "inconclusive", "step"},
     share : 0 .. 100, abort : BOOLEAN, ready : BOOLEAN]

(* A Rollout has a stable and a current template and steps once it has      *)
(* adopted one, and the Deployment is patched by a release after that.      *)
AdoptedBeforePatch ==
    /\ argo.phase = None <=> spec = None
    /\ argo.phase \in {None, "Created"} <=> argo.stable = NoTemplate
    /\ argo.stable = NoTemplate <=> argo.current = NoTemplate
    /\ argo.stable # NoTemplate => argo.steps # None
    /\ commandAt = "patch" => argo.stable # NoTemplate
    /\ commandAt \in {"apply", "baseline", "patch"} => release # None
    /\ commandAt \in {"baseline", "patch"} => spec = release

(* A canary goes by the steps applied with it, and by those of the release  *)
(* that wrote it as long as no other Rollout is applied.                    *)
CanaryHasItsSteps ==
    /\ argo.phase \in {"Progressing", "Paused"} \/ argo.share > 0 => Canary
    /\ argo.share > 0 => argo.share <= MostOf(argo.steps)
    /\ ~relaid => spec = owner
    /\ ~relaid /\ Canary => argo.steps = owner
    /\ commandAt = "patch" /\ Canary => argo.steps = release

(* The controller goes on to the next batch by an analysis that has passed, *)
(* and pauses for good after the last.                                      *)
BatchesAreCounted ==
    /\ passed = argo.index \div 2
    /\ argo.stable = NoTemplate => argo.index = 0
    /\ argo.steps # None => argo.index <= FinalPause(argo.steps)
    /\ argo.pause = "step" => argo.phase = "Paused" /\ argo.index = FinalPause(argo.steps)

(* What was promoted is the stable template, and nothing of it is under way. *)
PromotedIsStable == promoted => argo.phase = "Healthy" /\ ~Canary

(* The pause a promotion has read holds until a canary overtakes it. *)
FinalPauseHolds ==
    commandAt = "promote" /\ ~overtaken =>
        argo.phase = "Paused" /\ argo.index = FinalPause(argo.steps)

(* The inductive invariant of a grey release.                               *)
RolloutInv ==
    /\ RolloutTypeOK /\ argo \in Statuses
    /\ AdoptedBeforePatch /\ CanaryHasItsSteps /\ BatchesAreCounted /\ PromotedIsStable
    /\ FinalPauseHolds /\ PromotedAfterEveryBatch

(* What a canary is: a template beside the stable one, with steps. *)
LEMMA CanaryOfRelease ==
    ASSUME RolloutInv, Canary
    PROVE  /\ argo.stable # NoTemplate /\ argo.stable \in Templates
           /\ argo.current # NoTemplate /\ argo.current \in Templates
           /\ argo.steps \in Releases /\ argo.phase \notin {None, "Created"}
BY DEF RolloutInv, RolloutTypeOK, AdoptedBeforePatch, Canary

(* The types, from those of the status. *)
LEMMA TypesOfStatus ==
    ASSUME argo \in Statuses, template \in Templates,
           {spec, owner, release} \subseteq Releases \cup {None},
           passed \in Nat, {promoted, overtaken, relaid} \subseteq BOOLEAN,
           commandAt \in {"idle", "apply", "baseline", "patch", "promote"},
           probeAt \in {"idle", "restore"}, stableSeen \in Templates \cup {NoTemplate},
           commands \in 0 .. MaxCommands
    PROVE  RolloutTypeOK
BY DEF RolloutTypeOK, Statuses

(* A template that is patched is a template. *)
LEMMA PatchedIsTemplate ==
    ASSUME NEW t \in Templates, NEW patch \in Templates
    PROVE  PatchedBy(t, patch) \in Templates
BY DEF PatchedBy, Templates

(* Nothing is released yet.                                                 *)
LEMMA RolloutInitInv ==
    ASSUME RolloutInit
    PROVE  RolloutInv
<1>1. MaxCommands \in Nat /\ None \notin Releases
  BY RolloutAssumption
<1>2. argo \in Statuses
  BY DEF RolloutInit, NoRollout, Statuses
<1>3. RolloutTypeOK
  <2>1. /\ template \in Templates /\ spec = None /\ owner = None /\ release = None
        /\ passed = 0 /\ promoted = FALSE /\ overtaken = FALSE /\ relaid = FALSE
        /\ commandAt = "idle" /\ probeAt = "idle" /\ stableSeen = NoTemplate /\ commands = 0
    BY DEF RolloutInit
  <2>2. /\ {spec, owner, release} \subseteq Releases \cup {None}
        /\ passed \in Nat /\ commands \in 0 .. MaxCommands
        /\ commandAt \in {"idle", "apply", "baseline", "patch", "promote"}
        /\ probeAt \in {"idle", "restore"} /\ stableSeen \in Templates \cup {NoTemplate}
    BY <1>1, <2>1
  <2>3. {promoted, overtaken, relaid} \subseteq BOOLEAN
    BY <2>1
  <2> QED
    BY <1>2, <2>1, <2>2, <2>3, TypesOfStatus
<1>4. /\ argo.phase = None /\ argo.stable = NoTemplate /\ argo.current = NoTemplate
      /\ argo.steps = None /\ argo.index = 0 /\ argo.share = 0 /\ argo.pause = None
  BY DEF RolloutInit, NoRollout
<1>5. AdoptedBeforePatch /\ CanaryHasItsSteps
  BY <1>4 DEF RolloutInit, AdoptedBeforePatch, CanaryHasItsSteps, Canary, None
<1>6. BatchesAreCounted /\ PromotedIsStable /\ FinalPauseHolds /\ PromotedAfterEveryBatch
  BY <1>4 DEF RolloutInit, BatchesAreCounted, PromotedIsStable, FinalPauseHolds,
              PromotedAfterEveryBatch, None
<1> QED
  BY <1>2, <1>3, <1>5, <1>6 DEF RolloutInv

-----------------------------------------------------------------------------
(* The steps of the controller leave the rest as it is.                     *)
LEMMA TypesOfController ==
    ASSUME RolloutInv, UNCHANGED <<desiredState, executor, verifier>>,
           argo' \in Statuses, passed' \in Nat, promoted' \in BOOLEAN, overtaken' \in BOOLEAN
    PROVE  RolloutTypeOK'
BY DEF RolloutInv, RolloutTypeOK, Statuses, desiredState, executor, verifier

(* A template that becomes active, and what is observed of it.              *)
LEMMA AdoptsKeepsRollout ==
    ASSUME RolloutInv, ArgoAdopts, UNCHANGED <<desiredState, executor, verifier>>
    PROVE  RolloutInv'
<1>1. /\ argo \in Statuses /\ argo.phase = "Created" /\ argo.stable = NoTemplate
      /\ argo.current = NoTemplate /\ template \in Templates /\ template # NoTemplate
      /\ spec \in Releases /\ spec # None
  BY RolloutAssumption
  DEF RolloutInv, RolloutTypeOK, AdoptedBeforePatch, ArgoAdopts, None
<1>2. /\ argo' = [argo EXCEPT !.phase = "Healthy", !.stable = template, !.current = template,
                              !.steps = spec]
      /\ passed' = passed /\ promoted' = promoted /\ overtaken' = overtaken
  BY DEF ArgoAdopts, earned
<1>3. argo' \in Statuses
  BY <1>1, <1>2 DEF Statuses
<1>4. /\ argo'.phase = "Healthy" /\ argo'.stable = template /\ argo'.current = template
      /\ argo'.steps = spec /\ argo'.index = argo.index /\ argo'.pause = argo.pause
      /\ argo'.share = argo.share
  BY <1>1, <1>2 DEF Statuses
<1>5. /\ argo.index = 0 /\ argo.share = 0 /\ argo.pause # "step" /\ ~promoted
      /\ commandAt = "promote" => overtaken
  BY <1>1 DEF RolloutInv, RolloutTypeOK, CanaryHasItsSteps, BatchesAreCounted, Canary,
              PromotedIsStable, FinalPauseHolds
<1>6. RolloutTypeOK'
  BY <1>2, <1>3, TypesOfController DEF RolloutInv, RolloutTypeOK
<1>7. AdoptedBeforePatch'
  BY <1>1, <1>4 DEF RolloutInv, AdoptedBeforePatch, None, desiredState, executor
<1>8. CanaryHasItsSteps' /\ PromotedIsStable'
  BY <1>2, <1>4, <1>5
  DEF RolloutInv, CanaryHasItsSteps, PromotedIsStable, Canary, desiredState, executor
<1>9. BatchesAreCounted'
  BY <1>1, <1>2, <1>4, <1>5, StepsOfBatches DEF RolloutInv, BatchesAreCounted
<1>10. FinalPauseHolds' /\ PromotedAfterEveryBatch'
  BY <1>2, <1>5 DEF FinalPauseHolds, PromotedAfterEveryBatch, executor
<1> QED
  BY <1>3, <1>6, <1>7, <1>8, <1>9, <1>10 DEF RolloutInv

LEMMA ObservesKeepsRollout ==
    ASSUME RolloutInv, ArgoObserves, UNCHANGED <<desiredState, executor, verifier>>
    PROVE  RolloutInv'
<1>1. /\ argo \in Statuses /\ argo.stable # NoTemplate /\ argo.phase \notin {None, "Created"}
      /\ template \in Templates /\ template # NoTemplate /\ spec \in Releases /\ spec # None
  BY RolloutAssumption
  DEF RolloutInv, RolloutTypeOK, AdoptedBeforePatch, ArgoObserves, None
<1>2. argo' \in Statuses
  <2>1. 0 \in Nat /\ 0 \in 0 .. 100
    OBVIOUS
  <2> QED
    BY ZenonT(30), <1>1, <2>1 DEF Statuses, ArgoObserves
<1>3. /\ argo'.index = 0 /\ argo'.share = 0 /\ argo'.pause = None
      /\ argo'.stable = argo.stable /\ argo'.current = template /\ argo'.steps = spec
      /\ argo'.phase = IF template = argo.stable THEN "Healthy" ELSE "Progressing"
  BY <1>1 DEF Statuses, ArgoObserves
<1>4. passed' = 0 /\ promoted' = FALSE /\ overtaken' \in BOOLEAN
      /\ (commandAt = "promote" => overtaken')
  BY DEF ArgoObserves, RolloutInv, RolloutTypeOK
<1>5. RolloutTypeOK'
  BY <1>2, <1>4, TypesOfController
<1>6. AdoptedBeforePatch'
  BY <1>1, <1>3 DEF RolloutInv, AdoptedBeforePatch, None, desiredState, executor
<1>7. CanaryHasItsSteps' /\ PromotedIsStable'
  BY <1>1, <1>3, <1>4
  DEF RolloutInv, AdoptedBeforePatch, CanaryHasItsSteps, PromotedIsStable, Canary,
      desiredState, executor
<1>8. BatchesAreCounted'
  BY <1>1, <1>3, <1>4, StepsOfBatches DEF BatchesAreCounted, None
<1>9. FinalPauseHolds' /\ PromotedAfterEveryBatch'
  BY <1>4 DEF FinalPauseHolds, PromotedAfterEveryBatch, executor
<1> QED
  BY <1>2, <1>5, <1>6, <1>7, <1>8, <1>9 DEF RolloutInv

(* The controller goes through the batches in their order.                  *)
LEMMA SetsWeightKeepsRollout ==
    ASSUME RolloutInv, ArgoSetsWeight, UNCHANGED <<desiredState, executor, verifier>>
    PROVE  RolloutInv'
<1> DEFINE weight == Weights(argo.steps)[argo.index \div 2 + 1]
<1>1. /\ argo \in Statuses /\ argo.index \in Nat /\ argo.index < FinalPause(argo.steps)
      /\ argo.index % 2 = 0 /\ argo.phase = "Progressing" /\ Canary
  BY DEF RolloutInv, Statuses, ArgoSetsWeight, CanStep
<1>2. argo.steps \in Releases /\ argo.stable # NoTemplate
  BY <1>1, CanaryOfRelease
<1>3. /\ argo.index + 1 <= FinalPause(argo.steps)
      /\ (argo.index + 1) \div 2 = argo.index \div 2
      /\ weight \in 0 .. 100 /\ weight <= MostOf(argo.steps)
  <2>1. argo.index \div 2 + 1 \in 1 .. Batches(argo.steps)
    BY <1>1, <1>2, StepsOfBatches
  <2>2. weight \in 1 .. MostOf(argo.steps) /\ MostOf(argo.steps) \in 1 .. 100
    BY <1>2, <2>1, WeightsWithinEnvelope
  <2> HIDE DEF weight
  <2>3. /\ argo.index + 1 <= FinalPause(argo.steps)
        /\ (argo.index + 1) \div 2 = argo.index \div 2
    BY <1>1, <1>2, StepsOfBatches
  <2> QED
    BY <2>2, <2>3
<1>4. /\ argo' = [argo EXCEPT !.share = weight, !.index = @ + 1, !.ready = FALSE]
      /\ passed' = passed /\ promoted' = promoted /\ overtaken' = overtaken
  BY DEF ArgoSetsWeight, earned
<1> HIDE DEF weight
<1>5. argo' \in Statuses
  <2>1. argo.index + 1 \in Nat
    BY <1>1
  <2> QED
    BY <1>1, <1>3, <1>4, <2>1 DEF Statuses
<1>6. /\ argo'.share = weight /\ argo'.index = argo.index + 1
      /\ argo'.phase = argo.phase /\ argo'.stable = argo.stable /\ argo'.steps = argo.steps
      /\ argo'.current = argo.current /\ argo'.pause = argo.pause
  BY <1>1, <1>4 DEF Statuses
<1>7. RolloutTypeOK'
  BY <1>4, <1>5, TypesOfController DEF RolloutInv, RolloutTypeOK
<1>8. AdoptedBeforePatch'
  BY <1>6 DEF RolloutInv, AdoptedBeforePatch, desiredState, executor
<1>9. CanaryHasItsSteps' /\ PromotedIsStable'
  BY <1>1, <1>3, <1>4, <1>6
  DEF RolloutInv, CanaryHasItsSteps, PromotedIsStable, Canary, desiredState, executor
<1>10. BatchesAreCounted'
  BY <1>1, <1>2, <1>3, <1>4, <1>6 DEF RolloutInv, BatchesAreCounted
<1>11. FinalPauseHolds' /\ PromotedAfterEveryBatch'
  BY <1>1, <1>4, <1>6
  DEF RolloutInv, FinalPauseHolds, PromotedAfterEveryBatch, PromotedIsStable, executor
<1> QED
  BY <1>5, <1>7, <1>8, <1>9, <1>10, <1>11 DEF RolloutInv

(* An abort takes the traffic back, whoever asks for it.                    *)
LEMMA AbortedStatus ==
    ASSUME RolloutInv, Canary
    PROVE  /\ Aborted \in Statuses
           /\ Aborted.index = argo.index /\ Aborted.share = 0 /\ Aborted.phase = "Degraded"
           /\ Aborted.stable = argo.stable /\ Aborted.current = argo.current
           /\ Aborted.steps = argo.steps /\ Aborted.pause = None
<1>1. argo \in Statuses
  BY DEF RolloutInv
<1>2. 0 \in 0 .. 100
  OBVIOUS
<1>3. Aborted \in Statuses
  BY <1>1, <1>2 DEF Statuses, Aborted
<1> QED
  BY <1>1, <1>3 DEF Statuses, Aborted

(* An analysis counts a batch once.                                         *)
LEMMA AnalysesKeepsRollout ==
    ASSUME RolloutInv, ArgoAnalyses, UNCHANGED <<desiredState, executor, verifier>>
    PROVE  RolloutInv'
<1>1. /\ argo \in Statuses /\ argo.index \in Nat /\ argo.index < FinalPause(argo.steps)
      /\ argo.index % 2 = 1 /\ argo.phase = "Progressing" /\ Canary /\ passed \in Nat
      /\ promoted' = promoted /\ overtaken' = overtaken
  BY DEF RolloutInv, RolloutTypeOK, Statuses, ArgoAnalyses, CanStep
<1>2. argo.steps \in Releases /\ argo.stable # NoTemplate
  BY <1>1, CanaryOfRelease
<1>3. /\ argo.index + 1 <= FinalPause(argo.steps) /\ FinalPause(argo.steps) \in Nat
      /\ (argo.index + 1) \div 2 = argo.index \div 2 + 1
  BY <1>1, <1>2, StepsOfBatches
<1>4. /\ ~promoted /\ argo.pause # "step"
      /\ commandAt = "promote" => overtaken
  BY <1>1 DEF RolloutInv, PromotedIsStable, FinalPauseHolds, BatchesAreCounted
<1>5. ASSUME argo' \in Statuses, passed' \in Nat,
             argo'.stable = argo.stable, argo'.current = argo.current,
             argo'.steps = argo.steps, argo'.share \in {0, argo.share},
             argo'.phase \in {"Progressing", "Paused", "Degraded"}, argo'.pause # "step",
             passed' = argo'.index \div 2, argo'.index <= FinalPause(argo.steps)
      PROVE  RolloutInv'
  <2>1. RolloutTypeOK'
    BY <1>1, <1>5, TypesOfController DEF RolloutInv, RolloutTypeOK
  <2>2. AdoptedBeforePatch'
    BY <1>1, <1>2, <1>5
    DEF RolloutInv, AdoptedBeforePatch, None, desiredState, executor
  <2>3. CanaryHasItsSteps'
    BY <1>1, <1>5 DEF RolloutInv, CanaryHasItsSteps, Canary, desiredState, executor
  <2>4. BatchesAreCounted' /\ PromotedIsStable' /\ FinalPauseHolds' /\ PromotedAfterEveryBatch'
    BY <1>1, <1>2, <1>4, <1>5
    DEF BatchesAreCounted, PromotedIsStable, FinalPauseHolds, PromotedAfterEveryBatch, executor
  <2> QED
    BY <1>5, <2>1, <2>2, <2>3, <2>4 DEF RolloutInv
<1>6. CASE argo' = [argo EXCEPT !.index = @ + 1] /\ passed' = passed + 1
  <2>1. argo' \in Statuses
    BY <1>1, <1>6 DEF Statuses
  <2>2. /\ argo'.index = argo.index + 1 /\ argo'.share = argo.share
        /\ argo'.phase = argo.phase /\ argo'.stable = argo.stable
        /\ argo'.current = argo.current /\ argo'.steps = argo.steps
        /\ argo'.pause = argo.pause
    BY <1>1, <1>6 DEF Statuses
  <2>3. passed' = argo'.index \div 2 /\ passed' \in Nat
    BY <1>1, <1>3, <1>6, <2>2 DEF RolloutInv, BatchesAreCounted
  <2> QED
    BY <1>1, <1>3, <1>4, <1>5, <2>1, <2>2, <2>3
<1>7. CASE argo' = Aborted /\ UNCHANGED passed
  BY <1>1, <1>3, <1>4, <1>5, <1>7, AbortedStatus DEF RolloutInv, BatchesAreCounted, None
<1>8. CASE /\ argo' = [argo EXCEPT !.phase = "Paused", !.pause = "inconclusive"]
           /\ UNCHANGED passed
  <2>1. argo' \in Statuses
    BY <1>1, <1>8 DEF Statuses
  <2>2. /\ argo'.index = argo.index /\ argo'.share = argo.share /\ argo'.phase = "Paused"
        /\ argo'.stable = argo.stable /\ argo'.current = argo.current
        /\ argo'.steps = argo.steps /\ argo'.pause = "inconclusive"
    BY <1>1, <1>8 DEF Statuses
  <2> QED
    BY <1>1, <1>3, <1>5, <1>8, <2>1, <2>2 DEF RolloutInv, BatchesAreCounted
<1> QED
  BY <1>6, <1>7, <1>8 DEF ArgoAnalyses

(* A pause, and the way back to a stable template.                          *)
LEMMA PausesKeepsRollout ==
    ASSUME RolloutInv, ArgoPauses, UNCHANGED <<desiredState, executor, verifier>>
    PROVE  RolloutInv'
<1>1. /\ argo \in Statuses /\ argo.index = FinalPause(argo.steps)
      /\ argo.phase = "Progressing" /\ Canary
      /\ argo' = [argo EXCEPT !.phase = "Paused", !.pause = "step"]
      /\ passed' = passed /\ promoted' = promoted /\ overtaken' = overtaken
  BY DEF RolloutInv, ArgoPauses, CanStep, earned
<1>2. argo' \in Statuses
  BY <1>1 DEF Statuses
<1>3. /\ argo'.index = argo.index /\ argo'.share = argo.share /\ argo'.phase = "Paused"
      /\ argo'.stable = argo.stable /\ argo'.current = argo.current
      /\ argo'.steps = argo.steps /\ argo'.pause = "step"
  BY <1>1 DEF Statuses
<1>4. RolloutTypeOK'
  BY <1>1, <1>2, TypesOfController DEF RolloutInv, RolloutTypeOK
<1>5. AdoptedBeforePatch' /\ CanaryHasItsSteps'
  BY <1>1, <1>3 DEF RolloutInv, AdoptedBeforePatch, CanaryHasItsSteps, Canary, None,
                    desiredState, executor
<1>6. BatchesAreCounted' /\ PromotedIsStable' /\ FinalPauseHolds' /\ PromotedAfterEveryBatch'
  BY <1>1, <1>3 DEF RolloutInv, BatchesAreCounted, PromotedIsStable, FinalPauseHolds,
                    PromotedAfterEveryBatch, executor
<1> QED
  BY <1>2, <1>4, <1>5, <1>6 DEF RolloutInv

LEMMA ConvergesKeepsRollout ==
    ASSUME RolloutInv, ArgoConverges, UNCHANGED <<desiredState, executor, verifier>>
    PROVE  RolloutInv'
<1>1. /\ argo \in Statuses /\ argo' = [argo EXCEPT !.ready = TRUE]
      /\ passed' = passed /\ promoted' = promoted /\ overtaken' = overtaken
  BY DEF RolloutInv, ArgoConverges, earned
<1>2. argo' \in Statuses
  BY <1>1 DEF Statuses
<1>3. /\ argo'.index = argo.index /\ argo'.share = argo.share /\ argo'.phase = argo.phase
      /\ argo'.stable = argo.stable /\ argo'.current = argo.current
      /\ argo'.steps = argo.steps /\ argo'.pause = argo.pause
  BY <1>1 DEF Statuses
<1>4. RolloutTypeOK'
  BY <1>1, <1>2, TypesOfController DEF RolloutInv, RolloutTypeOK
<1>5. AdoptedBeforePatch' /\ CanaryHasItsSteps'
  BY <1>3 DEF RolloutInv, AdoptedBeforePatch, CanaryHasItsSteps, Canary, desiredState, executor
<1>6. BatchesAreCounted' /\ PromotedIsStable' /\ FinalPauseHolds' /\ PromotedAfterEveryBatch'
  BY <1>1, <1>3 DEF RolloutInv, BatchesAreCounted, PromotedIsStable, FinalPauseHolds,
                    PromotedAfterEveryBatch, Canary, executor
<1> QED
  BY <1>2, <1>4, <1>5, <1>6 DEF RolloutInv

-----------------------------------------------------------------------------
(* The job fails, begins, applies, and reads its baseline.                  *)
LEMMA FailureKeepsRollout ==
    ASSUME RolloutInv, CommandFails
    PROVE  RolloutInv'
BY DEF RolloutInv, RolloutTypeOK, AdoptedBeforePatch, CanaryHasItsSteps, BatchesAreCounted,
       PromotedIsStable, FinalPauseHolds, PromotedAfterEveryBatch, Canary, CommandFails, Ends,
       desiredState, controller, earned, verifier

LEMMA StartKeepsRollout ==
    ASSUME RolloutInv, NEW r \in Releases, StartRollout(r)
    PROVE  RolloutInv'
<1>1. /\ release' = r /\ r # None /\ commandAt = "idle" /\ commandAt' = "apply"
      /\ commands' \in 0 .. MaxCommands
  BY RolloutAssumption DEF RolloutInv, RolloutTypeOK, StartRollout, Idle
<1>2. /\ argo' = argo /\ template' = template /\ spec' = spec /\ owner' = owner
      /\ relaid' = relaid /\ passed' = passed /\ promoted' = promoted
      /\ overtaken' = overtaken /\ probeAt' = probeAt /\ stableSeen' = stableSeen
  BY DEF StartRollout, desiredState, controller, earned, verifier
<1>3. RolloutTypeOK'
  BY <1>1, <1>2 DEF RolloutInv, RolloutTypeOK
<1>4. AdoptedBeforePatch' /\ CanaryHasItsSteps'
  BY <1>1, <1>2 DEF RolloutInv, AdoptedBeforePatch, CanaryHasItsSteps, Canary
<1>5. BatchesAreCounted' /\ PromotedIsStable' /\ FinalPauseHolds' /\ PromotedAfterEveryBatch'
  BY <1>1, <1>2 DEF RolloutInv, BatchesAreCounted, PromotedIsStable, FinalPauseHolds,
                    PromotedAfterEveryBatch, Canary
<1> QED
  BY <1>2, <1>3, <1>4, <1>5 DEF RolloutInv

(* Another Rollout is laid over the one that is there.                      *)
LEMMA ApplyKeepsRollout ==
    ASSUME RolloutInv, ApplyRollout
    PROVE  RolloutInv'
<1>1. /\ commandAt = "apply" /\ commandAt' = "baseline" /\ release # None
      /\ release \in Releases /\ spec' = release /\ release' = release /\ commands' = commands
      /\ relaid' = (relaid \/ owner # release) /\ owner' = owner /\ template' = template
      /\ passed' = passed /\ promoted' = promoted /\ overtaken' = overtaken
      /\ probeAt' = probeAt /\ stableSeen' = stableSeen
  BY DEF RolloutInv, RolloutTypeOK, AdoptedBeforePatch, ApplyRollout, earned, verifier
<1>2. argo \in Statuses
  BY DEF RolloutInv
<1>3. argo' \in Statuses
  BY <1>2 DEF Statuses, ApplyRollout
<1>4. /\ argo'.index = argo.index /\ argo'.share = argo.share
      /\ argo'.stable = argo.stable /\ argo'.current = argo.current
      /\ argo'.steps = argo.steps /\ argo'.pause = argo.pause
      /\ argo'.phase = IF argo.phase = None THEN "Created" ELSE argo.phase
  BY <1>2 DEF Statuses, ApplyRollout
<1>5. RolloutTypeOK'
  <2>1. /\ template' \in Templates /\ {spec', owner', release'} \subseteq Releases \cup {None}
        /\ passed' \in Nat /\ {promoted', overtaken', relaid'} \subseteq BOOLEAN
        /\ commandAt' \in {"idle", "apply", "baseline", "patch", "promote"}
        /\ probeAt' \in {"idle", "restore"} /\ stableSeen' \in Templates \cup {NoTemplate}
        /\ commands' \in 0 .. MaxCommands
    BY <1>1 DEF RolloutInv, RolloutTypeOK
  <2> QED
    BY <1>3, <2>1 DEF RolloutTypeOK, Statuses
<1>6. AdoptedBeforePatch'
  BY <1>1, <1>4 DEF RolloutInv, AdoptedBeforePatch, None
<1>7. CanaryHasItsSteps'
  BY <1>1, <1>4 DEF RolloutInv, CanaryHasItsSteps, Canary, None
<1>8. BatchesAreCounted' /\ PromotedIsStable' /\ FinalPauseHolds' /\ PromotedAfterEveryBatch'
  BY <1>1, <1>4 DEF RolloutInv, BatchesAreCounted, PromotedIsStable, FinalPauseHolds,
                    PromotedAfterEveryBatch, Canary, None
<1> QED
  BY <1>3, <1>5, <1>6, <1>7, <1>8 DEF RolloutInv

LEMMA BaselineKeepsRollout ==
    ASSUME RolloutInv, AwaitBaseline
    PROVE  RolloutInv'
<1>1. /\ commandAt = "baseline" /\ commandAt' = "patch" /\ ~Canary
      /\ argo.phase = "Healthy"
      /\ argo' = argo /\ template' = template /\ spec' = spec /\ owner' = owner
      /\ relaid' = relaid /\ passed' = passed /\ promoted' = promoted
      /\ overtaken' = overtaken /\ probeAt' = probeAt /\ stableSeen' = stableSeen
      /\ release' = release /\ commands' = commands
  BY DEF AwaitBaseline, desiredState, controller, earned, verifier
<1>2. RolloutTypeOK'
  BY <1>1 DEF RolloutInv, RolloutTypeOK
<1>3. AdoptedBeforePatch' /\ CanaryHasItsSteps'
  BY <1>1 DEF RolloutInv, AdoptedBeforePatch, CanaryHasItsSteps, Canary, None
<1>4. BatchesAreCounted' /\ PromotedIsStable' /\ FinalPauseHolds' /\ PromotedAfterEveryBatch'
  BY <1>1 DEF RolloutInv, BatchesAreCounted, PromotedIsStable, FinalPauseHolds,
              PromotedAfterEveryBatch, Canary
<1> QED
  BY <1>1, <1>2, <1>3, <1>4 DEF RolloutInv

(* A patch starts an update, and the job observes it.                       *)
LEMMA PatchKeepsRollout ==
    ASSUME RolloutInv, PatchDeployment
    PROVE  RolloutInv'
<1>1. /\ commandAt = "patch" /\ commandAt' = "idle" /\ argo.stable # NoTemplate
      /\ release # None /\ release \in Releases /\ spec = release
      /\ template' = PatchedBy(template, PatchOf[release])
      /\ owner' = release /\ relaid' = FALSE /\ spec' = spec /\ argo' = argo
      /\ passed' = passed /\ promoted' = promoted /\ overtaken' = overtaken
      /\ probeAt' = probeAt /\ stableSeen' = stableSeen
      /\ release' = release /\ commands' = commands
  BY DEF RolloutInv, RolloutTypeOK, AdoptedBeforePatch, PatchDeployment, Ends, earned, verifier
<1>2. template' \in Templates
  <2>1. PatchOf[release] \in Templates /\ template \in Templates
    BY <1>1, RolloutAssumption DEF RolloutInv, RolloutTypeOK
  <2> QED
    BY <1>1, <2>1, PatchedIsTemplate
<1>3. RolloutTypeOK'
  BY <1>1, <1>2 DEF RolloutInv, RolloutTypeOK
<1>4. AdoptedBeforePatch' /\ CanaryHasItsSteps'
  BY <1>1 DEF RolloutInv, AdoptedBeforePatch, CanaryHasItsSteps, Canary
<1>5. BatchesAreCounted' /\ PromotedIsStable' /\ FinalPauseHolds' /\ PromotedAfterEveryBatch'
  BY <1>1 DEF RolloutInv, BatchesAreCounted, PromotedIsStable, FinalPauseHolds,
              PromotedAfterEveryBatch, Canary
<1> QED
  BY <1>1, <1>3, <1>4, <1>5 DEF RolloutInv

(* A promotion follows the last pause of the canary it finds.               *)
LEMMA ReadKeepsRollout ==
    ASSUME RolloutInv, ReadForPromotion
    PROVE  RolloutInv'
<1>1. /\ argo' = argo /\ argo.phase = "Paused" /\ argo.index = FinalPause(argo.steps)
      /\ ~promoted /\ commandAt = "idle" /\ commandAt' = "promote" /\ overtaken' = FALSE
      /\ template' = template /\ spec' = spec /\ owner' = owner /\ release' = release
      /\ relaid' = relaid /\ passed' = passed /\ promoted' = promoted
      /\ probeAt' = probeAt /\ stableSeen' = stableSeen
  BY DEF ReadForPromotion, AtFinalManualPause, Idle, RolloutInv, BatchesAreCounted,
         PromotedIsStable, desiredState, verifier
<1>2. commands' \in 0 .. MaxCommands
  BY RolloutAssumption DEF RolloutInv, RolloutTypeOK, ReadForPromotion
<1>3. RolloutTypeOK'
  BY <1>1, <1>2 DEF RolloutInv, RolloutTypeOK
<1>4. AdoptedBeforePatch' /\ CanaryHasItsSteps'
  BY <1>1 DEF RolloutInv, AdoptedBeforePatch, CanaryHasItsSteps, Canary
<1>5. BatchesAreCounted' /\ PromotedIsStable' /\ FinalPauseHolds' /\ PromotedAfterEveryBatch'
  BY <1>1 DEF RolloutInv, BatchesAreCounted, PromotedIsStable, FinalPauseHolds,
              PromotedAfterEveryBatch, Canary
<1> QED
  BY <1>1, <1>3, <1>4, <1>5 DEF RolloutInv

LEMMA PromoteKeepsRollout ==
    ASSUME RolloutInv, Promote
    PROVE  RolloutInv'
<1>1. /\ argo \in Statuses /\ commandAt = "promote" /\ commandAt' = "idle"
      /\ template' = template /\ spec' = spec /\ owner' = owner /\ release' = release
      /\ relaid' = relaid /\ passed' = passed /\ overtaken' = overtaken
      /\ probeAt' = probeAt /\ stableSeen' = stableSeen /\ commands' = commands
  BY DEF RolloutInv, Promote, Ends, desiredState, verifier
<1>2. CASE Canary /\ ~Outdated
  <2>1. argo' = [argo EXCEPT !.phase = "Healthy", !.share = 0, !.pause = None,
                             !.abort = FALSE, !.stable = argo.current, !.ready = FALSE]
        /\ promoted' = TRUE
    BY <1>2 DEF Promote
  <2>2. /\ argo.current \in Templates /\ argo.current # NoTemplate /\ argo.steps \in Releases
        /\ argo.stable # NoTemplate /\ argo.phase \notin {None, "Created"}
    BY <1>2, CanaryOfRelease
  <2>3. argo' \in Statuses
    <3>1. 0 \in 0 .. 100
      OBVIOUS
    <3> QED
      BY <1>1, <2>1, <2>2, <3>1 DEF Statuses
  <2>4. /\ argo'.index = argo.index /\ argo'.share = 0 /\ argo'.phase = "Healthy"
        /\ argo'.stable = argo.current /\ argo'.current = argo.current
        /\ argo'.steps = argo.steps /\ argo'.pause = None
    BY <1>1, <2>1 DEF Statuses
  <2>5. RolloutTypeOK'
    <3>1. promoted' \in BOOLEAN
      BY <2>1
    <3> QED
      BY <1>1, <2>3, <3>1 DEF RolloutInv, RolloutTypeOK, Statuses
  <2>6. AdoptedBeforePatch' /\ CanaryHasItsSteps' /\ PromotedIsStable'
    BY <1>1, <2>2, <2>4 DEF RolloutInv, AdoptedBeforePatch, CanaryHasItsSteps, Canary, None,
                            PromotedIsStable
  <2>7. BatchesAreCounted' /\ FinalPauseHolds'
    BY <1>1, <2>2, <2>4 DEF RolloutInv, BatchesAreCounted, FinalPauseHolds, None
  <2>8. PromotedAfterEveryBatch'
    <3>1. ~overtaken => argo.index = FinalPause(argo.steps) /\ passed = argo.index \div 2
      BY <1>1 DEF RolloutInv, FinalPauseHolds, BatchesAreCounted
    <3> QED
      BY <1>1, <2>2, <2>4, <3>1, StepsOfBatches DEF PromotedAfterEveryBatch
  <2> QED
    BY <2>3, <2>5, <2>6, <2>7, <2>8 DEF RolloutInv
<1>3. CASE ~(Canary /\ ~Outdated)
  <2>1. argo' = argo /\ promoted' = promoted
    BY <1>3 DEF Promote
  <2>2. RolloutTypeOK'
    BY <1>1, <2>1 DEF RolloutInv, RolloutTypeOK
  <2> QED
    BY <1>1, <2>1, <2>2
    DEF RolloutInv, AdoptedBeforePatch, CanaryHasItsSteps, BatchesAreCounted,
        PromotedIsStable, FinalPauseHolds, PromotedAfterEveryBatch, Canary
<1> QED
  BY <1>2, <1>3

(* An abort brings the stable template back.                                *)
LEMMA AbortKeepsRollout ==
    ASSUME RolloutInv, Abort
    PROVE  RolloutInv'
<1>1. /\ argo \in Statuses /\ commandAt = "idle" /\ commandAt' = commandAt
      /\ template' = template /\ spec' = spec /\ owner' = owner /\ release' = release
      /\ relaid' = relaid /\ passed' = passed /\ overtaken' = overtaken
      /\ promoted' = promoted /\ probeAt' = probeAt /\ stableSeen' = stableSeen
  BY DEF RolloutInv, Abort, Idle, desiredState, earned, verifier
<1>2. commands' \in 0 .. MaxCommands
  BY RolloutAssumption DEF RolloutInv, RolloutTypeOK, Abort
<1>3. ASSUME argo' \in Statuses PROVE RolloutTypeOK'
  BY <1>1, <1>2, <1>3 DEF RolloutInv, RolloutTypeOK, Statuses
<1>4. CASE Canary
  <2>1. argo' = Aborted
    BY <1>4 DEF Abort
  <2>2. /\ argo' \in Statuses /\ argo'.index = argo.index /\ argo'.share = 0
        /\ argo'.phase = "Degraded" /\ argo'.stable = argo.stable
        /\ argo'.current = argo.current /\ argo'.steps = argo.steps /\ argo'.pause = None
    BY <1>4, <2>1, AbortedStatus
  <2>3. argo.stable # NoTemplate /\ argo.phase \notin {None, "Created"} /\ ~promoted
    BY <1>4, CanaryOfRelease DEF RolloutInv, PromotedIsStable
  <2>4. AdoptedBeforePatch' /\ CanaryHasItsSteps' /\ PromotedIsStable'
    BY <1>1, <2>2, <2>3 DEF RolloutInv, AdoptedBeforePatch, CanaryHasItsSteps, Canary, None,
                            PromotedIsStable
  <2>5. BatchesAreCounted' /\ FinalPauseHolds' /\ PromotedAfterEveryBatch'
    BY <1>1, <2>2, <2>3 DEF RolloutInv, BatchesAreCounted, FinalPauseHolds, None,
                            PromotedAfterEveryBatch
  <2> QED
    BY <1>3, <2>2, <2>4, <2>5 DEF RolloutInv
<1>5. CASE ~Canary
  <2>1. argo' = [argo EXCEPT !.abort = TRUE]
    BY <1>5 DEF Abort
  <2>2. /\ argo' \in Statuses /\ argo'.index = argo.index /\ argo'.share = argo.share
        /\ argo'.phase = argo.phase /\ argo'.stable = argo.stable
        /\ argo'.current = argo.current /\ argo'.steps = argo.steps
        /\ argo'.pause = argo.pause
    BY <1>1, <2>1 DEF Statuses
  <2>3. AdoptedBeforePatch' /\ CanaryHasItsSteps' /\ PromotedIsStable'
    BY <1>1, <2>2 DEF RolloutInv, AdoptedBeforePatch, CanaryHasItsSteps, Canary,
                      PromotedIsStable
  <2>4. BatchesAreCounted' /\ FinalPauseHolds' /\ PromotedAfterEveryBatch'
    BY <1>1, <2>2 DEF RolloutInv, BatchesAreCounted, FinalPauseHolds, PromotedAfterEveryBatch
  <2> QED
    BY <1>3, <2>2, <2>3, <2>4 DEF RolloutInv
<1> QED
  BY <1>4, <1>5

(* The probe of the rolled back workload, and its restoration.              *)
LEMMA ProbeKeepsRollout ==
    ASSUME RolloutInv, ProbeRollout
    PROVE  RolloutInv'
<1>1. /\ argo' = argo /\ template' = template /\ spec' = spec /\ owner' = owner
      /\ relaid' = relaid /\ passed' = passed /\ promoted' = promoted
      /\ overtaken' = overtaken /\ commandAt' = commandAt /\ release' = release
      /\ commands' = commands
  BY DEF ProbeRollout, desiredState, controller, earned, executor
<1>2. /\ probeAt' \in {"idle", "restore"} /\ stableSeen' \in Templates \cup {NoTemplate}
  BY DEF ProbeRollout, RolloutInv, RolloutTypeOK
<1>3. RolloutTypeOK'
  BY <1>1, <1>2 DEF RolloutInv, RolloutTypeOK
<1> QED
  BY <1>1, <1>3
  DEF RolloutInv, AdoptedBeforePatch, CanaryHasItsSteps, BatchesAreCounted,
      PromotedIsStable, FinalPauseHolds, PromotedAfterEveryBatch, Canary

LEMMA RestoreKeepsRollout ==
    ASSUME RolloutInv, RestoreTemplate
    PROVE  RolloutInv'
<1>1. /\ argo' = argo /\ spec' = spec /\ owner' = owner /\ stableSeen' = stableSeen
      /\ relaid' = relaid /\ passed' = passed /\ promoted' = promoted
      /\ overtaken' = overtaken /\ commandAt' = commandAt /\ release' = release
      /\ commands' = commands /\ probeAt' = "idle"
  BY DEF RestoreTemplate, controller, earned, executor
<1>2. template' \in Templates
  <2>1. template \in Templates /\ stableSeen \in Templates \cup {NoTemplate}
    BY DEF RolloutInv, RolloutTypeOK
  <2> QED
    BY <2>1, PatchedIsTemplate DEF RestoreTemplate
<1>3. RolloutTypeOK'
  BY <1>1, <1>2 DEF RolloutInv, RolloutTypeOK
<1> QED
  BY <1>1, <1>3
  DEF RolloutInv, AdoptedBeforePatch, CanaryHasItsSteps, BatchesAreCounted,
      PromotedIsStable, FinalPauseHolds, PromotedAfterEveryBatch, Canary

(* Every step keeps the invariant.                                          *)
LEMMA RolloutStep ==
    ASSUME RolloutInv, [RolloutNext]_rolloutVars
    PROVE  RolloutInv'
<1>1. CASE ArgoSteps /\ UNCHANGED <<desiredState, executor, verifier>>
  BY <1>1, AdoptsKeepsRollout, ObservesKeepsRollout, SetsWeightKeepsRollout,
     AnalysesKeepsRollout, PausesKeepsRollout, ConvergesKeepsRollout DEF ArgoSteps
<1>2. CASE \E r \in Releases : StartRollout(r)
  BY <1>2, StartKeepsRollout
<1>3. CASE ApplyRollout \/ AwaitBaseline \/ PatchDeployment \/ CommandFails
  BY <1>3, ApplyKeepsRollout, BaselineKeepsRollout, PatchKeepsRollout, FailureKeepsRollout
<1>4. CASE ReadForPromotion \/ Promote \/ Abort
  BY <1>4, ReadKeepsRollout, PromoteKeepsRollout, AbortKeepsRollout
<1>5. CASE ProbeRollout \/ RestoreTemplate
  BY <1>5, ProbeKeepsRollout, RestoreKeepsRollout
<1>6. CASE UNCHANGED rolloutVars
  BY <1>6
  DEF rolloutVars, RolloutInv, RolloutTypeOK, AdoptedBeforePatch, CanaryHasItsSteps,
      BatchesAreCounted, PromotedIsStable, FinalPauseHolds, PromotedAfterEveryBatch, Canary
<1> QED
  BY <1>1, <1>2, <1>3, <1>4, <1>5, <1>6 DEF RolloutNext

(* The invariant holds in every state of a grey release. *)
THEOREM RolloutInvariant == RolloutSpec => []RolloutInv
<1>1. RolloutInit => RolloutInv
  BY RolloutInitInv
<1>2. RolloutInv /\ [RolloutNext]_rolloutVars => RolloutInv'
  BY RolloutStep
<1> QED
  BY <1>1, <1>2, PTL DEF RolloutSpec

(* The state of the Rollout, of the commands and of the verification keeps  *)
(* its types.                                                               *)
THEOREM RolloutTypeCorrect == RolloutSpec => []RolloutTypeOK
<1>1. RolloutInv => RolloutTypeOK
  BY DEF RolloutInv
<1> QED
  BY <1>1, RolloutInvariant, PTL

(* A canary never has more traffic than the release whose steps it goes by  *)
(* approved, which is its own unless another Rollout was applied, and what  *)
(* a promotion makes stable has passed every batch: for any releases, any   *)
(* strategies, any number of replicas and any number of commands.           *)
THEOREM CanaryGuarded == RolloutSpec => []CanaryIsGuarded
<1>1. RolloutInv => CanaryIsGuarded
  <2>1. ASSUME RolloutInv, argo.share > 0
        PROVE  /\ argo.steps # None /\ argo.share <= MostOf(argo.steps)
               /\ ~relaid => argo.steps = owner
    <3>1. Canary
      BY <2>1 DEF RolloutInv, CanaryHasItsSteps
    <3>2. argo.stable # NoTemplate
      BY <2>1, <3>1, CanaryOfRelease
    <3> QED
      BY <2>1, <3>1, <3>2 DEF RolloutInv, CanaryHasItsSteps, AdoptedBeforePatch
  <2> QED
    BY <2>1 DEF RolloutInv, CanaryIsGuarded, CanaryWithinEnvelope
<1> QED
  BY <1>1, RolloutInvariant, PTL

(* progressive_status, the probe that calls it and _restore_progressive_    *)
(* source_template: a canary is reported validated when every batch passed, *)
(* a rollback in the step that puts back what the stable template says.     *)
THEOREM ReportsEarned == RolloutSpec => ReportsAreEarned
<1> DEFINE Earned ==
        /\ reported'.phase = "canary_validated" /\ argo.steps # None
              /\ reported'.expected = FinalPause(argo.steps)
           => Canary /\ passed = Batches(argo.steps)
        /\ reported'.phase = "rolled_back"
           => /\ stableSeen' # NoTemplate
              /\ \A f \in Fields : stableSeen'[f] # Absent => template'[f] = stableSeen'[f]
<1>1. ASSUME RolloutInv, [RolloutNext]_rolloutVars
      PROVE  [reported' # reported => Earned]_rolloutVars
  <2>1. ASSUME ProbeRollout, reported' # reported PROVE Earned
    <3>1. PICK command \in {"start", "promote", "abort"}, expected \in Expectations,
               failure \in BOOLEAN :
            /\ reported' = [phase |-> PhaseOf(command, expected, failure), expected |-> expected]
            /\ PhaseOf(command, expected, failure) # "rolled_back"
      BY <2>1 DEF ProbeRollout, Report
    <3>2. ASSUME PhaseOf(command, expected, failure) = "canary_validated"
          PROVE  argo.phase = "Paused" /\ argo.index >= expected
      BY <3>2 DEF PhaseOf
    <3>3. ASSUME argo.phase = "Paused", argo.steps # None, argo.index >= FinalPause(argo.steps)
          PROVE  Canary /\ passed = Batches(argo.steps)
      <4>1. argo.steps \in Releases /\ argo.index \in Nat
        BY <3>3, <1>1 DEF RolloutInv, RolloutTypeOK
      <4>2. FinalPause(argo.steps) \in Nat /\ FinalPause(argo.steps) \div 2 = Batches(argo.steps)
        BY <4>1, StepsOfBatches
      <4>3. argo.index = FinalPause(argo.steps) /\ passed = argo.index \div 2 /\ Canary
        BY <1>1, <3>3, <4>1, <4>2 DEF RolloutInv, BatchesAreCounted, CanaryHasItsSteps
      <4> QED
        BY <4>2, <4>3
    <3> QED
      BY <3>1, <3>2, <3>3
  <2>2. ASSUME RestoreTemplate, reported' # reported PROVE Earned
    <3>1. CASE /\ stableSeen # NoTemplate
               /\ template' = PatchedBy(template, stableSeen) /\ Report("rolled_back", 0)
      BY <2>2, <3>1 DEF RestoreTemplate, PatchedBy, Report
    <3>2. CASE UNCHANGED template /\ Report("aborting", 0)
      BY <3>2 DEF Report
    <3> QED
      BY <2>2, <3>1, <3>2 DEF RestoreTemplate
  <2> HIDE DEF Earned
  <2>3. CASE ArgoSteps /\ UNCHANGED <<desiredState, executor, verifier>>
    BY <2>3 DEF verifier
  <2>4. CASE \E r \in Releases : StartRollout(r)
    BY <2>4 DEF StartRollout, verifier
  <2>5. CASE ApplyRollout \/ AwaitBaseline \/ PatchDeployment \/ CommandFails
    BY <2>5 DEF ApplyRollout, AwaitBaseline, PatchDeployment, CommandFails, verifier
  <2>6. CASE ReadForPromotion \/ Promote \/ Abort
    BY <2>6 DEF ReadForPromotion, Promote, Abort, verifier
  <2>7. CASE UNCHANGED rolloutVars
    BY <2>7
  <2> QED
    BY <1>1, <2>1, <2>2, <2>3, <2>4, <2>5, <2>6, <2>7 DEF RolloutNext
<1>2. RolloutSpec => [][reported' # reported => Earned]_rolloutVars
  <2> HIDE DEF Earned
  <2> QED
    BY <1>1, RolloutInvariant, PTL DEF RolloutSpec
<1> QED
  BY <1>2 DEF ReportsAreEarned

-----------------------------------------------------------------------------
(* The parts together.                                                      *)

(* In every state the instance starts in, each part is in a state it starts *)
(* in.                                                                      *)
LEMMA PartsStart ==
    PartsInit => /\ ChangeInit /\ RecoveryInit /\ RolloutInit /\ EvidenceInit
                 /\ PassInit /\ LadderInit
BY DEF PartsInit

(* A step of the instance is a step of one part, and none of the others.    *)
LEMMA PartsMove ==
    [PartsNext]_changePartVars =>
        /\ [ChangeNext]_changeVars /\ [RecoveryNext]_recoveryVars
        /\ [RolloutNext]_rolloutVars /\ [EvidenceNext]_evidenceVars
        /\ [PassNext]_passVars /\ [LadderNext]_ladderVars
<1> SUFFICES ASSUME [PartsNext]_changePartVars
             PROVE  /\ [ChangeNext]_changeVars /\ [RecoveryNext]_recoveryVars
                    /\ [RolloutNext]_rolloutVars /\ [EvidenceNext]_evidenceVars
                    /\ [PassNext]_passVars /\ [LadderNext]_ladderVars
  OBVIOUS
<1>1. CASE PartsNext
  BY <1>1 DEF PartsNext, ExecutionMoves, RecoveryMoves, RolloutMoves, EvidenceMoves,
     PassMoves, LadderMoves
<1>2. CASE UNCHANGED changePartVars
  BY <1>2 DEF changePartVars
<1> QED  BY <1>1, <1>2

(* What is model-checked in one instance are behaviours of every part, with *)
(* or without what is assumed of the scheduling of the verifier.            *)
THEOREM PartsAreTheirOwn ==
    PartsSpec => /\ ChangeSpec /\ RolloutSpec /\ EvidenceSpec /\ PassSpec /\ LadderSpec
                 /\ RecoveryInit /\ [][RecoveryNext]_recoveryVars
BY PartsStart, PartsMove, PTL
   DEF PartsSpec, ChangeSpec, RolloutSpec, EvidenceSpec, PassSpec, LadderSpec

(* Every part keeps its types.                                              *)
THEOREM PartsTypeCorrect == PartsSpec => []PartsTypeOK
<1>1. ChangeTypeOK /\ RecoveryTypeOK /\ RolloutTypeOK /\ EvidenceTypeOK /\ PassTypeOK
         /\ LadderTypeOK
      => PartsTypeOK
  BY DEF PartsTypeOK
<1>2. RecoveryInit /\ [][RecoveryNext]_recoveryVars => []RecoveryTypeOK
  <2>1. RecoveryInv => RecoveryTypeOK
    BY DEF RecoveryInv
  <2> QED  BY <2>1, RecoveryInitInv, RecoveryStep, PTL
<1> QED
  BY <1>1, <1>2, PartsAreTheirOwn, ChangeTypeCorrect, RolloutTypeCorrect,
     EvidenceTypeCorrect, PassTypeCorrect, LadderTypeCorrect, PTL
=============================================================================
