-------------------------- MODULE MCBrowserSessions --------------------------
(* Instances of BrowserSessions for TLC. *)
EXTENDS BrowserSessions, TLC

Symmetry == Permutations(Users) \union Permutations(Tokens) \union Permutations(Flows)
                \union Permutations(Requests)
=============================================================================
