----------------------------- MODULE MCAccounts -----------------------------
(* Accounts on small instances; the constants are given in the .cfg files. *)
EXTENDS Accounts, TLC

Symmetry == Permutations(Requests) \union Permutations(Passwords)
=============================================================================
