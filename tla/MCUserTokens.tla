---------------------------- MODULE MCUserTokens ----------------------------
(* UserTokens on small instances; the constants are given in the .cfg files. *)
EXTENDS UserTokens, TLC

Symmetry ==
    Permutations(Requests) \union Permutations(Consumers) \union Permutations(Tokens)
=============================================================================
