------------------------------ MODULE MCOpsJob ------------------------------
(***************************************************************************)
(* Values for TLC.  Plan p1 has two changes; its second change is also the *)
(* only change of p2, a hardening plan, whose rollback is b2.  All of them *)
(* write to one target, so two jobs contend for its lease.                 *)
(***************************************************************************)
EXTENDS OpsJob, TLC

CONSTANTS p1, p2, c1, c2, b2, t1

MCChangesOf == p1 :> <<c1, c2>> @@ p2 :> <<c2>>
MCOneChange == p2 :> <<c2>>
MCOneTarget == c2 :> t1 @@ b2 :> t1
MCRollbackOf == p1 :> NoChange @@ p2 :> b2
MCOneRollback == p2 :> b2
MCPriors == {{}, {p1}}
MCNoPriors == {{}}
MCTargetOf == c1 :> t1 @@ c2 :> t1 @@ b2 :> t1
=============================================================================
