----------------------------- MODULE MCPasskeys -----------------------------
(* Instances of Passkeys for TLC. *)
EXTENDS Passkeys, TLC

Symmetry == Permutations(Users) \union Permutations(Credentials) \union Permutations(Requests)
=============================================================================
