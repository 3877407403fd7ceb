------------------------------ MODULE MCPlanPass ------------------------------
(***************************************************************************)
(* The Skills and the changes of the instances of PlanPass.                *)
(***************************************************************************)
EXTENDS PlanPass

(* Three Skills: one with a handler that asks for all evidence, one that is *)
(* content with any, and one that only routes.  One of them allows a grey   *)
(* release, which is in the action catalog like any change.                 *)
Proposal(action, variant) == [action |-> action, variant |-> variant]
MCProposals == {Proposal("patch", 1), Proposal("patch", 2), Proposal("harden", 1),
                Proposal("restart", 1), Proposal("rollout", 1)}
MCSkills ==
    {[name |-> "permission", ready |-> TRUE, router |-> FALSE, staged |-> TRUE,
      allowed |-> {"patch", "harden"}, needs |-> {"logs", "spec"},
      any |-> {}, makes |-> {Proposal("patch", 1)}],
     [name |-> "config", ready |-> TRUE, router |-> FALSE, staged |-> FALSE,
      allowed |-> {"patch", "restart", "rollout"}, needs |-> {},
      any |-> {{"logs", "spec"}}, makes |-> {}],
     [name |-> "crashloop", ready |-> TRUE, router |-> TRUE, staged |-> FALSE,
      allowed |-> {"restart"}, needs |-> {}, any |-> {}, makes |-> {}]}
=============================================================================
