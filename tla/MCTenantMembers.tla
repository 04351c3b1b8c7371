-------------------------- MODULE MCTenantMembers --------------------------
(* Instances of TenantMembers for TLC.                                     *)
EXTENDS TenantMembers, TLC

MCSymmetry == Permutations(Request)
=============================================================================
