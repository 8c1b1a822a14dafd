---------------------------- MODULE MCRoleCache ----------------------------
(* RoleCache on small instances; the constants are given in the .cfg. *)
EXTENDS RoleCache, TLC

Symmetry == Permutations(Requests)
=============================================================================
