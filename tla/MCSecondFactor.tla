--------------------------- MODULE MCSecondFactor ---------------------------
(* SecondFactor on small instances; the constants are given in the .cfg files. *)
EXTENDS SecondFactor, TLC

Symmetry ==
    Permutations(Users) \union Permutations(Secrets) \union Permutations(Requests)
=============================================================================
