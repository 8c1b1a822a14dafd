--------------------------- MODULE MCEmailOutbox ---------------------------
(* EmailOutbox on small instances; the constants are given in the .cfg files. *)
EXTENDS EmailOutbox, TLC

Symmetry == Permutations(Mails) \union Permutations(Workers)
=============================================================================
