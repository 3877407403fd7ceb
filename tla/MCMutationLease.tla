--------------------------- MODULE MCMutationLease ---------------------------
(***************************************************************************)
(* Instance of MutationLease for TLC: three jobs contend for three targets *)
(* and two write slots, so that a job can be refused for its target alone, *)
(* for the slots alone, and for both.                                      *)
(***************************************************************************)
EXTENDS MutationLease
=============================================================================
